------------------------ MODULE ManagedRouterProofs ------------------------
(***************************************************************************)
(* The proof that a trigger is routed at most once and within the          *)
(* firewalls its source is registered for, and that a reload disturbs      *)
(* nothing, for any firewalls, sources, serials and bounds; and that the   *)
(* router implements AlertRouting.                                         *)
(*                                                                         *)
(* A trigger is in one place at a time: not received yet, in the queue of  *)
(* one key, sent, or dropped.  The source it came from is that of the key  *)
(* it waits on, and what its source is registered for cannot change while  *)
(* it waits, because a configuration is only read while no queue and no    *)
(* monitor exists and nothing else runs between the look and the reload.   *)
(***************************************************************************)
EXTENDS ManagedRouter, TLAPS

Reasons == {"probe", "journal"}

(* No firewall has received the trigger, and it was not dropped.           *)
Untouched(m) ==
  /\ \A t \in Targets : sent[m][t] = 0
  /\ \A why \in Reasons : <<m, why>> \notin lost

(* Triggers not received yet.                                              *)
LaterIsUntouched == \A m \in Messages : m > Len(message) => Untouched(m)

(* Triggers in a queue.                                                    *)
QueuedIsUntouched == \A k \in Keys : \A m \in QueuedOn(k) : Untouched(m)
QueuedWasReceived == \A k \in Keys : \A m \in QueuedOn(k) : m <= Len(message)
QueuedOnce ==
  \A k \in Keys : \A l \in Keys : QueuedOn(k) \cap QueuedOn(l) # {} => k = l
QueuedBySource ==
  \A k \in Keys : \A m \in QueuedOn(k) : message[m].allowed = BySource(k[2])

(* Triggers sent or dropped.                                               *)
SentOnce == \A m \in Messages : \A t \in Targets : sent[m][t] <= 1
DroppedIsUnsent ==
  \A m \in Messages : \A why \in Reasons :
    <<m, why>> \in lost => \A t \in Targets : sent[m][t] = 0

DecisionsWithinSource == \A k \in Keys : decisions[k] \subseteq BySource(k[2])

ReceivedAtMost == Len(message) <= MaxMessages

RoutingInv ==
  /\ ReceivedAtMost
  /\ OneProbePerQueue
  /\ LaterIsUntouched
  /\ QueuedIsUntouched
  /\ QueuedWasReceived
  /\ QueuedOnce
  /\ QueuedBySource
  /\ SentOnce
  /\ DroppedIsUnsent
  /\ DecisionsWithinSource
  /\ FanOutWithinAllowlist

(* A configuration is read only while nothing goes on, and only one that   *)
(* was accepted is loaded.                                                 *)
ReadsWhileQuiet == loop \in Reading => ~IsBusy
AcceptedIsLoaded ==
  /\ OneOwner(profiles)
  /\ loop = "readingRevision" => OneOwner(draft.profiles)

ReloadInv ==
  /\ ReadsWhileQuiet
  /\ AcceptedIsLoaded
  /\ ReloadDisturbsNothing

RInv ==
  /\ ManagedTypeOK
  /\ RoutingInv
  /\ ReloadInv

-----------------------------------------------------------------------------
(* What is in a queue after a trigger is added to it.                      *)
LEMMA AppendedTrigger ==
  ASSUME NEW s \in Seq(Messages), NEW e \in Messages
  PROVE  /\ Append(s, e) \in Seq(Messages)
         /\ Append(s, e) # <<>>
         /\ {Append(s, e)[i] : i \in 1 .. Len(Append(s, e))}
              = {s[i] : i \in 1 .. Len(s)} \cup {e}
<1>1. Append(s, e) \in Seq(Messages) /\ Len(Append(s, e)) = Len(s) + 1
  OBVIOUS
<1>2. Append(s, e) # <<>>
  <2>1. Len(<<>>) = 0 /\ Len(s) \in Nat
    OBVIOUS
  <2> QED
    BY <1>1, <2>1
<1>3. Append(s, e)[Len(s) + 1] = e
  OBVIOUS
<1>4. \A i \in 1 .. Len(s) : Append(s, e)[i] = s[i]
  OBVIOUS
<1>5. Len(s) \in Nat
  OBVIOUS
<1>6. 1 .. Len(Append(s, e)) = (1 .. Len(s)) \cup {Len(s) + 1}
  BY <1>1, <1>5
<1> QED
  BY <1>1, <1>2, <1>3, <1>4, <1>6

(* An empty queue holds nothing.                                           *)
LEMMA EmptyQueue == \A k : pending[k] = <<>> => QueuedOn(k) = {}
BY DEF QueuedOn

(* The trigger being received is the next one.                             *)
LEMMA ReceivedIsNext ==
  ASSUME RouterTypeOK, ReceivedAtMost, NEW named, NEW allowed,
         named \in SUBSET Targets, allowed \in SUBSET Targets,
         Receive(named, allowed)
  PROVE  /\ Received \in Messages
         /\ Len(message) \in Nat
         /\ Len(message') = Len(message) + 1
         /\ message' \in Seq([named : SUBSET Targets, allowed : SUBSET Targets])
         /\ ReceivedAtMost'
         /\ \A m \in 1 .. Len(message) : message'[m] = message[m]
         /\ message'[Received] = [named |-> named, allowed |-> allowed]
BY RouterAssumption DEF RouterTypeOK, Receive, Received, Messages, ReceivedAtMost

(* What a probe selects are candidates of its source.                      *)
LEMMA SelectionsAreCandidates ==
  ASSUME NEW k \in Keys, NEW selected \in Selections(k)
  PROVE  selected \subseteq BySource(k[2]) /\ selected \subseteq Targets
BY DEF Selections, Selected, BySource

(* Dispatching reaches the selected firewalls once, and no other.          *)
LEMMA DispatchReaches ==
  ASSUME RouterTypeOK, NEW triggers, NEW selected, selected \subseteq Targets,
         Dispatch(triggers, selected)
  PROVE  /\ active' \subseteq Targets
         /\ sent' \in [Messages -> [Targets -> Nat]]
         /\ \A m \in Messages : \A t \in Targets :
              sent'[m][t] = IF m \in triggers /\ t \in selected THEN sent[m][t] + 1
                            ELSE sent[m][t]
BY DEF RouterTypeOK, Dispatch

-----------------------------------------------------------------------------
(* Every step of the router keeps the types.                               *)
LEMMA TriggerTypes ==
  ASSUME RouterTypeOK, ReceivedAtMost, OneProbePerQueue,
         NEW source \in Sources, NEW serial \in Serials \cup {NoSerial},
         Trigger(source, serial)
  PROVE  RouterTypeOK' /\ ReceivedAtMost'
<1>0. /\ BySource(source) \in SUBSET Targets
      /\ BySerial(serial) \in SUBSET Targets
      /\ Named(source, serial) \subseteq Targets
      /\ PendingKey(source, serial) \in Keys
  BY DEF BySource, BySerial, Named, PendingKey, Keys
<1>1. CASE Refuse(source, serial)
  <2>1. Receive({}, {})
    BY <1>1 DEF Refuse
  <2> QED
    BY <1>1, <2>1, ReceivedIsNext DEF Refuse, RouterTypeOK, routingVars
<1>2. CASE RouteDirectly(source, serial)
  <2>1. Receive(BySerial(serial), BySource(source)) /\ Dispatch({Received}, Named(source, serial))
    BY <1>2 DEF RouteDirectly
  <2>2. active' \subseteq Targets /\ sent' \in [Messages -> [Targets -> Nat]]
    BY <1>0, <2>1, DispatchReaches
  <2> QED
    BY <1>0, <1>2, <2>1, <2>2, ReceivedIsNext DEF RouteDirectly, RouterTypeOK
<1>3. CASE ReuseDecision(source, serial)
  <2> DEFINE key == PendingKey(source, serial)
  <2>1. Receive({}, BySource(source)) /\ Dispatch({Received}, StillActive(key))
    BY <1>3 DEF ReuseDecision
  <2>2. StillActive(key) \subseteq Targets
    BY DEF StillActive, RouterTypeOK
  <2>3. active' \subseteq Targets /\ sent' \in [Messages -> [Targets -> Nat]]
    BY <2>1, <2>2, DispatchReaches
  <2> QED
    BY <1>0, <1>3, <2>1, <2>3, ReceivedIsNext
    DEF ReuseDecision, RouterTypeOK, PendingAfterReuse
<1>4. CASE Enqueue(source, serial)
  <2> DEFINE key == PendingKey(source, serial)
  <2>1. Receive({}, BySource(source)) /\ key \in Keys
    BY <1>0, <1>4 DEF Enqueue
  <2>2. /\ Received \in Messages
        /\ message' \in Seq([named : SUBSET Targets, allowed : SUBSET Targets])
        /\ ReceivedAtMost'
    BY <1>0, <2>1, ReceivedIsNext
  <2>3. pending[key] \in Seq(Messages)
    BY <2>1 DEF RouterTypeOK
  <2>4. Append(pending[key], Received) \in Seq(Messages)
    BY <2>2, <2>3, AppendedTrigger
  <2>5. pending' \in [Keys -> Seq(Messages)]
    BY <1>4, <2>4 DEF Enqueue, RouterTypeOK
  <2>6. decisions' \in [Keys -> SUBSET Targets]
    BY <1>4 DEF Enqueue, RouterTypeOK
  <2>7. probes' \in [Keys -> 0 .. 1]
    <3>1. CASE StartsProbe(key)
      <4>1. probes[key] = 0
        BY <2>1, <3>1 DEF StartsProbe, OneProbePerQueue
      <4>2. probes' = [probes EXCEPT ![key] = 1]
        BY <1>4, <3>1, <4>1 DEF Enqueue
      <4>3. probes \in [Keys -> 0 .. 1] /\ 1 \in 0 .. 1
        BY DEF RouterTypeOK
      <4> QED
        BY <4>2, <4>3
    <3>2. CASE ~StartsProbe(key)
      BY <1>4, <3>2 DEF Enqueue, RouterTypeOK
    <3> QED
      BY <3>1, <3>2
  <2> QED
    BY <1>4, <2>2, <2>5, <2>6, <2>7 DEF Enqueue, RouterTypeOK
<1> QED
  BY <1>1, <1>2, <1>3, <1>4 DEF Trigger

(* The probe of a key is over and its queue is gone.                       *)
LEMMA ProbeOverTypes ==
  ASSUME RouterTypeOK, OneProbePerQueue, NEW key \in Keys, probes[key] > 0,
         ProbeOver(key), pending' = Popped(key)
  PROVE  /\ pending' \in [Keys -> Seq(Messages)]
         /\ probes' \in [Keys -> 0 .. 1]
         /\ OneProbePerQueue'
         /\ \A k \in Keys : QueuedOn(k)' = IF k = key THEN {} ELSE QueuedOn(k)
<1>1. probes[key] = 1
  BY DEF OneProbePerQueue
<1>2. probes' = [probes EXCEPT ![key] = 0]
  BY <1>1 DEF ProbeOver
<1>3. probes' \in [Keys -> 0 .. 1]
  BY <1>2 DEF RouterTypeOK
<1>4. pending' = [pending EXCEPT ![key] = <<>>]
  BY DEF Popped
<1>5. pending' \in [Keys -> Seq(Messages)]
  BY <1>4 DEF RouterTypeOK
<1>6. \A k \in Keys : /\ pending'[k] = IF k = key THEN <<>> ELSE pending[k]
                      /\ probes'[k] = IF k = key THEN 0 ELSE probes[k]
  BY <1>2, <1>4 DEF RouterTypeOK
<1>7. OneProbePerQueue'
  BY <1>6 DEF OneProbePerQueue
<1>8. \A k \in Keys : QueuedOn(k)' = IF k = key THEN {} ELSE QueuedOn(k)
  BY <1>6 DEF QueuedOn
<1> QED
  BY <1>3, <1>5, <1>7, <1>8

-----------------------------------------------------------------------------
(* What waits in a queue is a trigger received.                            *)
LEMMA QueuedAreMessages ==
  ASSUME RouterTypeOK, QueuedWasReceived
  PROVE  \A k \in Keys : /\ QueuedOn(k) \subseteq Messages
                         /\ QueuedOn(k) \subseteq 1 .. Len(message)
<1>1. \A k \in Keys : QueuedOn(k) \subseteq Messages
  BY DEF RouterTypeOK, QueuedOn
<1>2. MaxMessages \in Nat /\ Len(message) \in Nat
  BY RouterAssumption DEF RouterTypeOK
<1>3. \A m \in Messages : m <= Len(message) => m \in 1 .. Len(message)
  BY <1>2 DEF Messages
<1> QED
  BY <1>1, <1>3 DEF QueuedWasReceived

(* A trigger that is received and sent on, or refused, keeps the invariant.*)
LEMMA ReceivedKeepsRouting ==
  ASSUME RouterTypeOK, RoutingInv,
         NEW named \in SUBSET Targets, NEW allowed \in SUBSET Targets,
         NEW selected \in SUBSET Targets,
         named = {} => selected \subseteq allowed,
         Receive(named, allowed),
         \A m \in Messages : \A t \in Targets :
           sent'[m][t] = IF m \in {Received} /\ t \in selected THEN sent[m][t] + 1
                         ELSE sent[m][t],
         UNCHANGED <<profiles, pending, decisions, probes, lost>>
  PROVE  RoutingInv'
<1>1. /\ Received \in Messages
      /\ Len(message) \in Nat
      /\ Len(message') = Len(message) + 1
      /\ ReceivedAtMost'
      /\ \A m \in 1 .. Len(message) : message'[m] = message[m]
      /\ message'[Received] = [named |-> named, allowed |-> allowed]
  BY ReceivedIsNext DEF RoutingInv
<1>2. /\ Received = Len(message) + 1
      /\ Messages \subseteq Nat \ {0}
  BY RouterAssumption DEF Received, Messages
<1>3. Untouched(Received)
  BY <1>1, <1>2 DEF RoutingInv, LaterIsUntouched
<1>4. \A m \in Messages : m # Received => \A t \in Targets : sent'[m][t] = sent[m][t]
  OBVIOUS
<1>5. \A m \in Messages : m # Received /\ Untouched(m) => Untouched(m)'
  BY <1>4 DEF Untouched
<1>6. \A k \in Keys : /\ QueuedOn(k)' = QueuedOn(k)
                      /\ QueuedOn(k) \subseteq Messages
                      /\ QueuedOn(k) \subseteq 1 .. Len(message)
  BY QueuedAreMessages DEF QueuedOn, RoutingInv
<1>7. \A source : BySource(source)' = BySource(source)
  BY DEF BySource
<1>8. OneProbePerQueue'
  BY DEF RoutingInv, OneProbePerQueue
<1>9. LaterIsUntouched'
  BY <1>1, <1>2, <1>5 DEF RoutingInv, LaterIsUntouched
<1>10. QueuedWasReceived'
  BY <1>1, <1>6 DEF QueuedWasReceived
<1>11. QueuedIsUntouched'
  <2>1. \A m \in 1 .. Len(message) : m # Received
    BY <1>1, <1>2
  <2> QED
    BY <1>5, <1>6, <2>1 DEF RoutingInv, QueuedIsUntouched
<1>12. QueuedOnce'
  BY <1>6 DEF RoutingInv, QueuedOnce
<1>13. QueuedBySource'
  <2> SUFFICES ASSUME NEW k \in Keys, NEW m \in QueuedOn(k)
               PROVE  message'[m].allowed = BySource(k[2])
    BY <1>6, <1>7 DEF QueuedBySource
  <2>1. m \in 1 .. Len(message)
    BY <1>6
  <2> QED
    BY <1>1, <2>1 DEF RoutingInv, QueuedBySource
<1>14. SentOnce'
  <2> SUFFICES ASSUME NEW m \in Messages, NEW t \in Targets
               PROVE  sent'[m][t] <= 1
    BY DEF SentOnce
  <2>1. CASE m = Received
    BY <1>3, <2>1 DEF Untouched
  <2>2. CASE m # Received
    BY <1>4, <2>2 DEF RoutingInv, SentOnce
  <2> QED
    BY <2>1, <2>2
<1>15. DroppedIsUnsent'
  BY <1>3, <1>4 DEF RoutingInv, DroppedIsUnsent, Untouched
<1>16. DecisionsWithinSource'
  BY <1>7 DEF RoutingInv, DecisionsWithinSource
<1>17. FanOutWithinAllowlist'
  <2> SUFFICES ASSUME NEW m \in 1 .. Len(message'), NEW t \in Targets,
                      sent'[m][t] > 0, message'[m].named = {}
               PROVE  t \in message'[m].allowed
    BY DEF FanOutWithinAllowlist
  <2>1. CASE m = Received
    <3>1. t \in selected
      BY <1>1, <1>3, <2>1 DEF Untouched
    <3> QED
      BY <1>1, <2>1, <3>1
  <2>2. CASE m # Received
    <3>1. m \in 1 .. Len(message)
      BY <1>1, <1>2, <2>2
    <3>2. m \in Messages
      BY <1>1, <3>1, RouterAssumption DEF RoutingInv, ReceivedAtMost, Messages
    <3> QED
      BY <1>1, <1>4, <2>2, <3>1, <3>2 DEF RoutingInv, FanOutWithinAllowlist
  <2> QED
    BY <2>1, <2>2
<1> QED
  BY <1>1, <1>8, <1>9, <1>10, <1>11, <1>12, <1>13, <1>14, <1>15, <1>16, <1>17
  DEF RoutingInv

(* A trigger that is queued keeps the invariant.                           *)
LEMMA EnqueueKeepsRouting ==
  ASSUME RouterTypeOK, RoutingInv,
         NEW source \in Sources, NEW serial \in Serials \cup {NoSerial},
         Enqueue(source, serial)
  PROVE  RoutingInv'
<1> DEFINE key == PendingKey(source, serial)
<1>0. /\ key \in Keys
      /\ key[2] = source
      /\ Receive({}, BySource(source))
      /\ UNCHANGED <<profiles, sent, lost>>
  BY DEF Enqueue, PendingKey, Keys
<1>1. /\ Received \in Messages
      /\ Len(message) \in Nat
      /\ Len(message') = Len(message) + 1
      /\ ReceivedAtMost'
      /\ \A m \in 1 .. Len(message) : message'[m] = message[m]
      /\ message'[Received].allowed = BySource(source)
  <2>1. BySource(source) \in SUBSET Targets
    BY DEF BySource
  <2>2. /\ Received \in Messages
        /\ Len(message) \in Nat
        /\ Len(message') = Len(message) + 1
        /\ ReceivedAtMost'
        /\ \A m \in 1 .. Len(message) : message'[m] = message[m]
        /\ message'[Received] = [named |-> {}, allowed |-> BySource(source)]
    BY <1>0, <2>1, ReceivedIsNext DEF RoutingInv
  <2> QED
    BY <2>2
<1>2. /\ Received = Len(message) + 1
      /\ Messages \subseteq Nat \ {0}
  BY RouterAssumption DEF Received, Messages
<1>3. Untouched(Received)
  BY <1>1, <1>2 DEF RoutingInv, LaterIsUntouched
<1>4. \A m : Untouched(m)' = Untouched(m)
  BY <1>0 DEF Untouched
<1>5. \A s : BySource(s)' = BySource(s)
  BY <1>0 DEF BySource
<1>6. \A k \in Keys : /\ QueuedOn(k) \subseteq Messages
                      /\ QueuedOn(k) \subseteq 1 .. Len(message)
  BY QueuedAreMessages DEF RoutingInv
<1>7. /\ pending[key] \in Seq(Messages)
      /\ Append(pending[key], Received) # <<>>
      /\ {Append(pending[key], Received)[i] : i \in 1 .. Len(Append(pending[key], Received))}
           = QueuedOn(key) \cup {Received}
  <2>1. pending[key] \in Seq(Messages)
    BY <1>0 DEF RouterTypeOK
  <2> QED
    BY <1>1, <2>1, AppendedTrigger DEF QueuedOn
<1>8. \A k \in Keys : pending'[k] = IF k = key THEN Append(pending[key], Received)
                                   ELSE pending[k]
  BY <1>0 DEF Enqueue, RouterTypeOK
<1>9. \A k \in Keys : QueuedOn(k)' = IF k = key THEN QueuedOn(key) \cup {Received}
                                    ELSE QueuedOn(k)
  BY <1>7, <1>8 DEF QueuedOn
<1>10. OneProbePerQueue'
  <2> SUFFICES ASSUME NEW k \in Keys
               PROVE  probes'[k] = IF pending'[k] = <<>> THEN 0 ELSE 1
    BY DEF OneProbePerQueue
  <2>1. probes[k] = IF pending[k] = <<>> THEN 0 ELSE 1
    BY DEF RoutingInv, OneProbePerQueue
  <2>2. probes[key] = IF pending[key] = <<>> THEN 0 ELSE 1
    BY <1>0 DEF RoutingInv, OneProbePerQueue
  <2>3. probes' = IF pending[key] = <<>> THEN [probes EXCEPT ![key] = 1] ELSE probes
    <3>1. probes' = IF pending[key] = <<>> THEN [probes EXCEPT ![key] = probes[key] + 1]
                    ELSE probes
      BY DEF Enqueue, StartsProbe
    <3>2. pending[key] = <<>> => probes[key] + 1 = 1
      BY <2>2
    <3> QED
      BY <3>1, <3>2
  <2>4. CASE k = key
    <3>1. pending'[k] # <<>>
      BY <1>7, <1>8, <2>4
    <3>2. probes'[k] = 1
      BY <2>2, <2>3, <2>4 DEF RouterTypeOK
    <3> QED
      BY <3>1, <3>2
  <2>5. CASE k # key
    BY <1>8, <2>1, <2>3, <2>5 DEF RouterTypeOK
  <2> QED
    BY <2>4, <2>5
<1>11. LaterIsUntouched'
  BY <1>1, <1>2, <1>4 DEF RoutingInv, LaterIsUntouched
<1>12. QueuedWasReceived'
  BY <1>1, <1>2, <1>6, <1>9 DEF QueuedWasReceived
<1>13. QueuedIsUntouched'
  BY <1>3, <1>4, <1>9 DEF RoutingInv, QueuedIsUntouched
<1>14. QueuedOnce'
  <2>1. \A k \in Keys : Received \notin QueuedOn(k)
    BY <1>1, <1>2, <1>6
  <2> SUFFICES ASSUME NEW k \in Keys, NEW l \in Keys, NEW m,
                      m \in QueuedOn(k)', m \in QueuedOn(l)'
               PROVE  k = l
    BY DEF QueuedOnce
  <2>2. CASE m = Received
    BY <1>9, <2>1, <2>2
  <2>3. CASE m # Received
    <3>1. m \in QueuedOn(k) /\ m \in QueuedOn(l)
      BY <1>9, <2>3
    <3> QED
      BY <3>1 DEF RoutingInv, QueuedOnce
  <2> QED
    BY <2>2, <2>3
<1>15. QueuedBySource'
  <2> SUFFICES ASSUME NEW k \in Keys, NEW m, m \in QueuedOn(k)'
               PROVE  message'[m].allowed = BySource(k[2])
    BY <1>5 DEF QueuedBySource
  <2>1. CASE m \in QueuedOn(k)
    BY <1>1, <1>6, <2>1 DEF RoutingInv, QueuedBySource
  <2>2. CASE m \notin QueuedOn(k)
    <3>1. k = key /\ m = Received
      BY <1>9, <2>2
    <3> QED
      BY <1>0, <1>1, <3>1
  <2> QED
    BY <2>1, <2>2
<1>16. SentOnce' /\ DroppedIsUnsent'
  BY <1>0 DEF RoutingInv, SentOnce, DroppedIsUnsent
<1>17. DecisionsWithinSource'
  BY <1>0, <1>5 DEF RoutingInv, DecisionsWithinSource, Enqueue, RouterTypeOK
<1>18. FanOutWithinAllowlist'
  <2> SUFFICES ASSUME NEW m \in 1 .. Len(message'), NEW t \in Targets,
                      sent[m][t] > 0, message'[m].named = {}
               PROVE  t \in message'[m].allowed
    BY <1>0 DEF FanOutWithinAllowlist
  <2>1. m # Received
    BY <1>3 DEF Untouched
  <2>2. m \in 1 .. Len(message)
    BY <1>1, <1>2, <2>1
  <2> QED
    BY <1>1, <2>2 DEF RoutingInv, FanOutWithinAllowlist
<1> QED
  BY <1>1, <1>10, <1>11, <1>12, <1>13, <1>14, <1>15, <1>16, <1>17, <1>18 DEF RoutingInv

(* Every way to handle a trigger keeps the invariant.                      *)
LEMMA TriggerKeepsRouting ==
  ASSUME RouterTypeOK, RoutingInv,
         NEW source \in Sources, NEW serial \in Serials \cup {NoSerial},
         Trigger(source, serial)
  PROVE  RoutingInv'
<1>0. BySource(source) \in SUBSET Targets /\ BySerial(serial) \in SUBSET Targets
  BY DEF BySource, BySerial
<1>1. CASE Refuse(source, serial)
  <2>1. /\ Receive({}, {})
        /\ UNCHANGED <<profiles, pending, decisions, probes, lost>>
        /\ \A m \in Messages : \A t \in Targets :
             sent'[m][t] = IF m \in {Received} /\ t \in {} THEN sent[m][t] + 1
                           ELSE sent[m][t]
    BY <1>1 DEF Refuse, routingVars
  <2> QED
    BY <2>1, ReceivedKeepsRouting
<1>2. CASE RouteDirectly(source, serial)
  <2>1. /\ Named(source, serial) \in SUBSET Targets
        /\ BySerial(serial) = {} => Named(source, serial) \subseteq BySource(source)
    BY <1>0 DEF Named
  <2>2. /\ Receive(BySerial(serial), BySource(source))
        /\ Dispatch({Received}, Named(source, serial))
        /\ UNCHANGED <<profiles, pending, decisions, probes, lost>>
    BY <1>2 DEF RouteDirectly
  <2>3. \A m \in Messages : \A t \in Targets :
          sent'[m][t] = IF m \in {Received} /\ t \in Named(source, serial)
                        THEN sent[m][t] + 1 ELSE sent[m][t]
    BY <2>1, <2>2, DispatchReaches
  <2> QED
    BY <1>0, <2>1, <2>2, <2>3, ReceivedKeepsRouting
<1>3. CASE ReuseDecision(source, serial)
  <2> DEFINE key == PendingKey(source, serial)
  <2>1. key \in Keys /\ key[2] = source
    BY DEF PendingKey, Keys
  <2>2. StillActive(key) \in SUBSET Targets /\ StillActive(key) \subseteq BySource(source)
    BY <2>1 DEF StillActive, RouterTypeOK, RoutingInv, DecisionsWithinSource
  <2>3. /\ Receive({}, BySource(source))
        /\ Dispatch({Received}, StillActive(key))
        /\ UNCHANGED <<profiles, pending, decisions, probes, lost>>
    BY <1>3 DEF ReuseDecision, PendingAfterReuse
  <2>4. \A m \in Messages : \A t \in Targets :
          sent'[m][t] = IF m \in {Received} /\ t \in StillActive(key)
                        THEN sent[m][t] + 1 ELSE sent[m][t]
    BY <2>2, <2>3, DispatchReaches
  <2> QED
    BY <1>0, <2>2, <2>3, <2>4, ReceivedKeepsRouting
<1>4. CASE Enqueue(source, serial)
  BY <1>4, EnqueueKeepsRouting
<1> QED
  BY <1>1, <1>2, <1>3, <1>4 DEF Trigger

-----------------------------------------------------------------------------
(* An answered probe keeps the invariant.                                  *)
LEMMA ProbeKeepsRouting ==
  ASSUME RouterTypeOK, RoutingInv, NEW key \in Keys, ProbeRoutes(key)
  PROVE  RouterTypeOK' /\ RoutingInv'
<1>1. PICK selected \in Selections(key) :
        /\ probes[key] > 0
        /\ ProbeOver(key)
        /\ pending' = Popped(key)
        /\ decisions' = [decisions EXCEPT ![key] = selected]
        /\ Dispatch(QueuedOn(key), selected)
        /\ UNCHANGED <<profiles, faults, message, lost>>
  BY DEF ProbeRoutes
<1>2. selected \subseteq BySource(key[2]) /\ selected \subseteq Targets
  BY SelectionsAreCandidates
<1>3. /\ active' \subseteq Targets
      /\ sent' \in [Messages -> [Targets -> Nat]]
      /\ \A m \in Messages : \A t \in Targets :
           sent'[m][t] = IF m \in QueuedOn(key) /\ t \in selected THEN sent[m][t] + 1
                         ELSE sent[m][t]
  BY <1>1, <1>2, DispatchReaches
<1>4. /\ pending' \in [Keys -> Seq(Messages)]
      /\ probes' \in [Keys -> 0 .. 1]
      /\ OneProbePerQueue'
      /\ \A k \in Keys : QueuedOn(k)' = IF k = key THEN {} ELSE QueuedOn(k)
  BY <1>1, ProbeOverTypes DEF RoutingInv
<1>5. decisions' \in [Keys -> SUBSET Targets]
  BY <1>1, <1>2 DEF RouterTypeOK
<1>6. RouterTypeOK'
  BY <1>1, <1>3, <1>4, <1>5 DEF RouterTypeOK
<1>7. \A k \in Keys : /\ QueuedOn(k) \subseteq Messages
                      /\ QueuedOn(k) \subseteq 1 .. Len(message)
  BY QueuedAreMessages DEF RoutingInv
<1>8. \A m \in Messages : m \notin QueuedOn(key) =>
        /\ Untouched(m) => Untouched(m)'
        /\ \A t \in Targets : sent'[m][t] = sent[m][t]
  BY <1>1, <1>3 DEF Untouched
<1>9. \A s : BySource(s)' = BySource(s)
  BY <1>1 DEF BySource
<1>10. LaterIsUntouched'
  <2> SUFFICES ASSUME NEW m \in Messages, m > Len(message)
               PROVE  Untouched(m)'
    BY <1>1 DEF LaterIsUntouched
  <2>1. Len(message) \in Nat
    BY DEF RouterTypeOK
  <2>2. m \notin QueuedOn(key)
    BY <1>7, <2>1
  <2> QED
    BY <1>8, <2>2 DEF RoutingInv, LaterIsUntouched
<1>11. QueuedIsUntouched'
  <2> SUFFICES ASSUME NEW k \in Keys, NEW m, m \in QueuedOn(k)'
               PROVE  Untouched(m)'
    BY DEF QueuedIsUntouched
  <2>1. k # key /\ m \in QueuedOn(k) /\ m \in Messages
    BY <1>4, <1>7
  <2>2. m \notin QueuedOn(key)
    BY <2>1 DEF RoutingInv, QueuedOnce
  <2> QED
    BY <1>8, <2>1, <2>2 DEF RoutingInv, QueuedIsUntouched
<1>12. QueuedWasReceived' /\ QueuedOnce'
  BY <1>1, <1>4 DEF RoutingInv, QueuedWasReceived, QueuedOnce
<1>13. QueuedBySource'
  BY <1>1, <1>4, <1>9 DEF RoutingInv, QueuedBySource
<1>14. SentOnce'
  <2> SUFFICES ASSUME NEW m \in Messages, NEW t \in Targets
               PROVE  sent'[m][t] <= 1
    BY DEF SentOnce
  <2>1. CASE m \in QueuedOn(key)
    <3>1. sent[m][t] = 0
      BY <2>1 DEF RoutingInv, QueuedIsUntouched, Untouched
    <3> QED
      BY <1>3, <3>1
  <2>2. CASE m \notin QueuedOn(key)
    BY <1>8, <2>2 DEF RoutingInv, SentOnce
  <2> QED
    BY <2>1, <2>2
<1>15. DroppedIsUnsent'
  <2> SUFFICES ASSUME NEW m \in Messages, NEW why \in Reasons, <<m, why>> \in lost,
                      NEW t \in Targets
               PROVE  sent'[m][t] = 0
    BY <1>1 DEF DroppedIsUnsent
  <2>1. m \notin QueuedOn(key)
    BY DEF RoutingInv, QueuedIsUntouched, Untouched
  <2> QED
    BY <1>8, <2>1 DEF RoutingInv, DroppedIsUnsent
<1>16. DecisionsWithinSource'
  BY <1>1, <1>2, <1>9 DEF RoutingInv, DecisionsWithinSource, RouterTypeOK
<1>17. FanOutWithinAllowlist'
  <2> SUFFICES ASSUME NEW m \in 1 .. Len(message), NEW t \in Targets,
                      sent'[m][t] > 0, message[m].named = {}
               PROVE  t \in message[m].allowed
    BY <1>1 DEF FanOutWithinAllowlist
  <2>1. m \in Messages
    BY RouterAssumption DEF RoutingInv, ReceivedAtMost, Messages, RouterTypeOK
  <2>2. CASE m \in QueuedOn(key)
    <3>1. sent[m][t] = 0 /\ message[m].allowed = BySource(key[2])
      BY <2>2 DEF RoutingInv, QueuedIsUntouched, Untouched, QueuedBySource
    <3>2. t \in selected
      BY <1>3, <2>1, <3>1
    <3> QED
      BY <1>2, <3>1, <3>2
  <2>3. CASE m \notin QueuedOn(key)
    BY <1>8, <2>1, <2>3 DEF RoutingInv, FanOutWithinAllowlist
  <2> QED
    BY <2>2, <2>3
<1> QED
  BY <1>1, <1>4, <1>6, <1>10, <1>11, <1>12, <1>13, <1>14, <1>15, <1>16, <1>17
  DEF RoutingInv, ReceivedAtMost

(* A probe that fails keeps the invariant, whether it decided or not.      *)
LEMMA FailureKeepsRouting ==
  ASSUME RouterTypeOK, RoutingInv, NEW key \in Keys, NEW why \in Reasons,
         NEW selected \in SUBSET BySource(key[2]), Fails(key, why),
         \/ UNCHANGED decisions
         \/ decisions' = [decisions EXCEPT ![key] = selected]
  PROVE  RouterTypeOK' /\ RoutingInv'
<1>1. /\ probes[key] > 0
      /\ faults < MaxFaults
      /\ faults' = faults + 1
      /\ ProbeOver(key)
      /\ pending' = Popped(key)
      /\ lost' = lost \cup QueuedOn(key) \X {why}
      /\ UNCHANGED <<profiles, active, message, sent>>
  BY DEF Fails, PendingAfterFailure
<1>2. /\ pending' \in [Keys -> Seq(Messages)]
      /\ probes' \in [Keys -> 0 .. 1]
      /\ OneProbePerQueue'
      /\ \A k \in Keys : QueuedOn(k)' = IF k = key THEN {} ELSE QueuedOn(k)
  BY <1>1, ProbeOverTypes DEF RoutingInv
<1>3. \A k \in Keys : /\ QueuedOn(k) \subseteq Messages
                      /\ QueuedOn(k) \subseteq 1 .. Len(message)
  BY QueuedAreMessages DEF RoutingInv
<1>4. RouterTypeOK'
  <2>1. faults' \in 0 .. MaxFaults
    BY <1>1, RouterAssumption DEF RouterTypeOK
  <2>2. lost' \subseteq Messages \X {"probe", "journal"}
    BY <1>1, <1>3 DEF RouterTypeOK, Reasons
  <2>3. decisions' \in [Keys -> SUBSET Targets]
    BY DEF RouterTypeOK, BySource
  <2> QED
    BY <1>1, <1>2, <2>1, <2>2, <2>3 DEF RouterTypeOK
<1>5. \A m : m \notin QueuedOn(key) => Untouched(m)' = Untouched(m)
  BY <1>1 DEF Untouched
<1>6. \A s : BySource(s)' = BySource(s)
  BY <1>1 DEF BySource
<1>7. LaterIsUntouched'
  <2> SUFFICES ASSUME NEW m \in Messages, m > Len(message)
               PROVE  Untouched(m)'
    BY <1>1 DEF LaterIsUntouched
  <2>1. Len(message) \in Nat
    BY DEF RouterTypeOK
  <2>2. m \notin QueuedOn(key)
    BY <1>3, <2>1
  <2> QED
    BY <1>5, <2>2 DEF RoutingInv, LaterIsUntouched
<1>8. QueuedIsUntouched'
  <2> SUFFICES ASSUME NEW k \in Keys, NEW m, m \in QueuedOn(k)'
               PROVE  Untouched(m)'
    BY DEF QueuedIsUntouched
  <2>1. k # key /\ m \in QueuedOn(k)
    BY <1>2
  <2>2. m \notin QueuedOn(key)
    BY <2>1 DEF RoutingInv, QueuedOnce
  <2> QED
    BY <1>5, <2>1, <2>2 DEF RoutingInv, QueuedIsUntouched
<1>9. QueuedWasReceived' /\ QueuedOnce' /\ QueuedBySource'
  BY <1>1, <1>2, <1>6 DEF RoutingInv, QueuedWasReceived, QueuedOnce, QueuedBySource
<1>10. SentOnce' /\ FanOutWithinAllowlist'
  BY <1>1 DEF RoutingInv, SentOnce, FanOutWithinAllowlist
<1>11. DroppedIsUnsent'
  <2> SUFFICES ASSUME NEW m \in Messages, NEW r \in Reasons, <<m, r>> \in lost',
                      NEW t \in Targets
               PROVE  sent[m][t] = 0
    BY <1>1 DEF DroppedIsUnsent
  <2>1. <<m, r>> \in lost \/ m \in QueuedOn(key)
    BY <1>1
  <2> QED
    BY <2>1 DEF RoutingInv, DroppedIsUnsent, QueuedIsUntouched, Untouched
<1>12. DecisionsWithinSource'
  BY <1>6 DEF RoutingInv, DecisionsWithinSource, RouterTypeOK
<1> QED
  BY <1>1, <1>2, <1>4, <1>7, <1>8, <1>9, <1>10, <1>11, <1>12
  DEF RoutingInv, ReceivedAtMost

(* A new router starts with empty queues.                                  *)
LEMMA ReloadKeepsRouting ==
  ASSUME ManagedTypeOK, RoutingInv, Reload
  PROVE  RouterTypeOK' /\ RoutingInv'
<1>1. /\ profiles' = draft.profiles
      /\ active' = {}
      /\ pending' = [k \in Keys |-> <<>>]
      /\ decisions' = [k \in Keys |-> {}]
      /\ probes' = [k \in Keys |-> 0]
      /\ UNCHANGED <<faults, message, sent, lost>>
  BY DEF Reload, traceVars
<1>2. RouterTypeOK'
  <2>1. draft.profiles \in [Targets -> Profiles]
    BY DEF ManagedTypeOK, Stores
  <2>2. <<>> \in Seq(Messages) /\ 0 \in 0 .. 1
    OBVIOUS
  <2> QED
    BY <1>1, <2>1, <2>2 DEF ManagedTypeOK, RouterTypeOK
<1>3. \A k \in Keys : QueuedOn(k)' = {}
  BY <1>1 DEF QueuedOn
<1>4. \A m : Untouched(m)' = Untouched(m)
  BY <1>1 DEF Untouched
<1>5. OneProbePerQueue'
  BY <1>1 DEF OneProbePerQueue
<1>6. ReceivedAtMost' /\ LaterIsUntouched'
  BY <1>1, <1>4 DEF RoutingInv, ReceivedAtMost, LaterIsUntouched
<1>7. QueuedIsUntouched' /\ QueuedWasReceived' /\ QueuedOnce' /\ QueuedBySource'
  BY <1>3 DEF QueuedIsUntouched, QueuedWasReceived, QueuedOnce, QueuedBySource
<1>8. SentOnce' /\ DroppedIsUnsent' /\ FanOutWithinAllowlist'
  BY <1>1 DEF RoutingInv, SentOnce, DroppedIsUnsent, FanOutWithinAllowlist
<1>9. DecisionsWithinSource'
  BY <1>1 DEF DecisionsWithinSource
<1> QED
  BY <1>2, <1>5, <1>6, <1>7, <1>8, <1>9 DEF RoutingInv

(* Steps that touch neither queues, nor firewalls, nor the histories.      *)
LEMMA OthersKeepRouting ==
  ASSUME RoutingInv,
         UNCHANGED <<profiles, pending, decisions, probes, message, sent, lost>>
  PROVE  RoutingInv'
<1>1. /\ \A k : QueuedOn(k)' = QueuedOn(k)
      /\ \A m : Untouched(m)' = Untouched(m)
      /\ \A s : BySource(s)' = BySource(s)
  BY DEF QueuedOn, Untouched, BySource
<1>2. /\ ReceivedAtMost'
      /\ OneProbePerQueue'
      /\ LaterIsUntouched'
  BY <1>1 DEF RoutingInv, ReceivedAtMost, OneProbePerQueue, LaterIsUntouched
<1>3. /\ QueuedIsUntouched'
      /\ QueuedWasReceived'
      /\ QueuedOnce'
      /\ QueuedBySource'
  BY <1>1 DEF RoutingInv, QueuedIsUntouched, QueuedWasReceived, QueuedOnce, QueuedBySource
<1>4. /\ SentOnce'
      /\ DroppedIsUnsent'
      /\ DecisionsWithinSource'
      /\ FanOutWithinAllowlist'
  BY <1>1 DEF RoutingInv, SentOnce, DroppedIsUnsent, DecisionsWithinSource,
              FanOutWithinAllowlist
<1> QED
  BY <1>2, <1>3, <1>4 DEF RoutingInv

-----------------------------------------------------------------------------
(* A service that starts satisfies the invariant.                          *)
LEMMA InitRInv == ManagedInit => RInv
<1> SUFFICES ASSUME ManagedInit PROVE RInv
  OBVIOUS
<1>1. ManagedTypeOK
  <2>1. /\ stored \in Stores
        /\ draft \in Stores
        /\ profiles \in [Targets -> Profiles]
        /\ settings \in Settings
    BY DEF ManagedInit, Stores
  <2>2. RouterTypeOK
    <3>1. /\ <<>> \in Seq(Messages)
          /\ <<>> \in Seq([named : SUBSET Targets, allowed : SUBSET Targets])
          /\ 0 \in 0 .. 1
          /\ 0 \in 0 .. MaxFaults
      BY RouterAssumption
    <3> QED
      BY <2>1, <3>1 DEF ManagedInit, RouterInit, RouterTypeOK
  <2> QED
    BY <2>1, <2>2 DEF ManagedInit, ManagedTypeOK, Places
<1>2. RoutingInv
  <2>1. \A k \in Keys : QueuedOn(k) = {}
    BY DEF ManagedInit, RouterInit, QueuedOn
  <2>2. Len(message) = 0 /\ ReceivedAtMost
    BY RouterAssumption DEF ManagedInit, RouterInit, ReceivedAtMost
  <2>3. \A m \in Messages : Untouched(m)
    BY DEF ManagedInit, RouterInit, Untouched
  <2>4. OneProbePerQueue
    BY DEF ManagedInit, RouterInit, OneProbePerQueue
  <2>5. /\ LaterIsUntouched
        /\ SentOnce
        /\ DroppedIsUnsent
    BY <2>3 DEF LaterIsUntouched, SentOnce, DroppedIsUnsent, Untouched
  <2>6. /\ QueuedIsUntouched
        /\ QueuedWasReceived
        /\ QueuedOnce
        /\ QueuedBySource
    BY <2>1 DEF QueuedIsUntouched, QueuedWasReceived, QueuedOnce, QueuedBySource
  <2>7. DecisionsWithinSource
    BY DEF ManagedInit, RouterInit, DecisionsWithinSource
  <2>8. FanOutWithinAllowlist
    BY <2>2 DEF FanOutWithinAllowlist
  <2> QED
    BY <2>2, <2>4, <2>5, <2>6, <2>7, <2>8 DEF RoutingInv
<1>3. ReloadInv
  BY DEF ManagedInit, ReloadInv, ReadsWhileQuiet, Reading, AcceptedIsLoaded,
         ReloadDisturbsNothing
<1> QED
  BY <1>1, <1>2, <1>3 DEF RInv

(* Savings of the Web UI touch the store only.                             *)
LEMMA SavingsKeepRInv ==
  ASSUME RInv, SaveSettings \/ CheckSerials \/ WriteTarget
  PROVE  RInv'
<1>1. UNCHANGED <<routerVars, loadedVars, handlerVars, disturbed>>
  BY DEF SaveSettings, CheckSerials, WriteTarget
<1>2. UNCHANGED <<profiles, active, pending, decisions, probes, faults, message, sent, lost,
                  settings, revision, loop, draft, disturbed>>
  BY <1>1 DEF routerVars, routingVars, traceVars, loadedVars, handlerVars
<1>3. RoutingInv'
  BY <1>2, OthersKeepRouting DEF RInv
<1>4. ReloadInv'
  BY <1>2 DEF RInv, ReloadInv, ReadsWhileQuiet, AcceptedIsLoaded, ReloadDisturbsNothing,
              IsBusy, OneOwner, Claimed
<1>5. stored' \in Stores /\ storedRevision' \in Nat
      /\ saving' \subseteq Targets \X Profiles
  <2>0. saving \subseteq Targets \X Profiles /\ stored \in Stores
        /\ storedRevision \in Nat
    BY DEF RInv, ManagedTypeOK
  <2>1. CASE SaveSettings
    BY <2>0, <2>1 DEF SaveSettings, Stores
  <2>2. CASE CheckSerials
    BY <2>0, <2>2 DEF CheckSerials
  <2>3. CASE WriteTarget
    BY <2>0, <2>3 DEF WriteTarget, Stores
  <2> QED
    BY <2>1, <2>2, <2>3
<1>6. RouterTypeOK'
  BY <1>2 DEF RInv, ManagedTypeOK, RouterTypeOK
<1>7. ManagedTypeOK'
  BY <1>2, <1>5, <1>6 DEF RInv, ManagedTypeOK
<1> QED
  BY <1>3, <1>4, <1>7 DEF RInv

(* The look at the revision and the reads of a configuration.              *)
LEMMA ReadsKeepRInv ==
  ASSUME RInv, CheckRevision \/ ReadSettings \/ ReadTargets \/ LoadFails
  PROVE  RInv'
<1>1. /\ UNCHANGED <<profiles, active, pending, decisions, probes, message, sent, lost>>
      /\ UNCHANGED <<stored, storedRevision, saving, settings, revision, disturbed>>
  BY DEF CheckRevision, ReadSettings, ReadTargets, LoadFails, routerVars, routingVars,
         traceVars, storeVars, loadedVars
<1>2. RoutingInv'
  BY <1>1, OthersKeepRouting DEF RInv
<1>3. IsBusy' = IsBusy /\ OneOwner(profiles)' = OneOwner(profiles)
  BY <1>1 DEF IsBusy, OneOwner, Claimed
<1>4. ReadsWhileQuiet'
  BY <1>3 DEF CheckRevision, ReadSettings, ReadTargets, LoadFails, RInv, ReloadInv,
              ReadsWhileQuiet, Reading
<1>5. AcceptedIsLoaded'
  <2>1. CASE ReadTargets
    <3>1. draft'.profiles = stored.profiles
      BY <2>1 DEF ReadTargets, RInv, ManagedTypeOK, Stores
    <3>2. OneOwner(draft.profiles)' = OneOwner(stored.profiles)
      BY <3>1 DEF OneOwner, Claimed
    <3> QED
      BY <1>3, <2>1, <3>2 DEF ReadTargets, Accepts, RInv, ReloadInv, AcceptedIsLoaded
  <2>2. CASE CheckRevision \/ ReadSettings \/ LoadFails
    BY <1>3, <2>2 DEF CheckRevision, ReadSettings, LoadFails, RInv, ReloadInv, AcceptedIsLoaded
  <2> QED
    BY <2>1, <2>2
<1>6. ReloadInv'
  BY <1>1, <1>4, <1>5 DEF RInv, ReloadInv, ReloadDisturbsNothing
<1>7. loop' \in Places /\ draft' \in Stores /\ faults' \in 0 .. MaxFaults
  <2>1. /\ loop \in Places /\ draft \in Stores /\ stored \in Stores
        /\ profiles \in [Targets -> Profiles] /\ settings \in Settings
        /\ faults \in 0 .. MaxFaults /\ MaxFaults \in Nat
    BY RouterAssumption DEF RInv, ManagedTypeOK, RouterTypeOK
  <2>2. CASE CheckRevision
    BY <2>1, <2>2 DEF CheckRevision, routerVars, Places, Reading
  <2>3. CASE ReadSettings
    BY <2>1, <2>3 DEF ReadSettings, routerVars, Places, Reading, Stores
  <2>4. CASE ReadTargets
    BY <2>1, <2>4 DEF ReadTargets, routerVars, Places, Reading, Stores
  <2>5. CASE LoadFails
    BY <2>1, <2>5 DEF LoadFails, Places, Reading, Stores
  <2> QED
    BY <2>2, <2>3, <2>4, <2>5
<1>8. ManagedTypeOK'
  BY <1>1, <1>7 DEF RInv, ManagedTypeOK, RouterTypeOK
<1> QED
  BY <1>2, <1>6, <1>8 DEF RInv

(* A reload finds nothing going on.                                        *)
LEMMA ReloadKeepsRInv ==
  ASSUME RInv, Reload
  PROVE  RInv'
<1>1. RouterTypeOK' /\ RoutingInv'
  BY ReloadKeepsRouting DEF RInv
<1>2. active = {} /\ \A k \in Keys : pending[k] = <<>>
  BY DEF RInv, ReloadInv, ReadsWhileQuiet, Reload, Reading, IsBusy
<1>3. \A k \in Keys : QueuedOn(k) = {}
  BY <1>2, EmptyQueue
<1>4. disturbed' = {}
  BY <1>2, <1>3 DEF Reload, RInv, ReloadInv, ReloadDisturbsNothing
<1>5. OneOwner(profiles)'
  <2>1. OneOwner(draft.profiles) /\ profiles' = draft.profiles
    BY DEF Reload, RInv, ReloadInv, AcceptedIsLoaded
  <2> QED
    BY <2>1 DEF OneOwner, Claimed
<1>6. ReloadInv'
  BY <1>4, <1>5 DEF Reload, ReloadInv, ReadsWhileQuiet, AcceptedIsLoaded,
                    ReloadDisturbsNothing, Reading
<1>7. ManagedTypeOK'
  BY <1>1, <1>4 DEF Reload, RInv, ManagedTypeOK, storeVars, Stores, Places
<1> QED
  BY <1>1, <1>6, <1>7 DEF RInv

(* What the router does, it does while no configuration is being read.     *)
LEMMA RouterStepsKeepRInv ==
  ASSUME RInv, RouterTypeOK', RoutingInv', loop' = "idle", profiles' = profiles,
         UNCHANGED <<stored, storedRevision, saving, settings, revision, draft, disturbed>>
  PROVE  RInv'
<1>1. OneOwner(profiles)' = OneOwner(profiles)
  BY DEF OneOwner, Claimed
<1>2. ReloadInv'
  BY <1>1 DEF RInv, ReloadInv, ReadsWhileQuiet, Reading, AcceptedIsLoaded,
              ReloadDisturbsNothing
<1>3. ManagedTypeOK'
  BY DEF RInv, ManagedTypeOK, Places
<1> QED
  BY <1>2, <1>3 DEF RInv

(* A message that is handled.                                             *)
LEMMA HandleKeepsRInv ==
  ASSUME RInv, Handle
  PROVE  RInv'
<1>1. /\ loop' = "idle"
      /\ UNCHANGED <<stored, storedRevision, saving, settings, revision, draft, disturbed>>
  BY DEF Handle, storeVars, loadedVars
<1>2. CASE UNCHANGED routerVars
  <2>1. UNCHANGED <<profiles, active, pending, decisions, probes, faults, message, sent, lost>>
    BY <1>2 DEF routerVars, routingVars, traceVars
  <2>2. RoutingInv'
    BY <2>1, OthersKeepRouting DEF RInv
  <2>3. RouterTypeOK'
    BY <2>1 DEF RInv, ManagedTypeOK, RouterTypeOK
  <2> QED
    BY <1>1, <2>1, <2>2, <2>3, RouterStepsKeepRInv
<1>3. CASE \E source \in Sources, serial \in Serials \cup {NoSerial} : Trigger(source, serial)
  <2>1. PICK source \in Sources, serial \in Serials \cup {NoSerial} : Trigger(source, serial)
    BY <1>3
  <2>2. RouterTypeOK /\ ReceivedAtMost /\ OneProbePerQueue /\ RoutingInv
    BY DEF RInv, ManagedTypeOK, RoutingInv
  <2>3. RouterTypeOK' /\ RoutingInv'
    BY <2>1, <2>2, TriggerTypes, TriggerKeepsRouting
  <2>4. profiles' = profiles
    BY <2>1 DEF Trigger, Refuse, RouteDirectly, ReuseDecision, Enqueue
  <2> QED
    BY <1>1, <2>3, <2>4, RouterStepsKeepRInv
<1> QED
  BY <1>2, <1>3 DEF Handle

(* A probe that is over, or a monitor.                                     *)
LEMMA BackgroundKeepsRInv ==
  ASSUME RInv, Background
  PROVE  RInv'
<1>1. /\ loop' = "idle"
      /\ UNCHANGED <<stored, storedRevision, saving, settings, revision, draft, disturbed>>
      /\ RouterTypeOK /\ RoutingInv
  BY DEF Background, storeVars, loadedVars, handlerVars, RInv, ManagedTypeOK
<1>2. ASSUME NEW k \in Keys, ProbeRoutes(k)
      PROVE  RInv'
  <2>1. RouterTypeOK' /\ RoutingInv' /\ profiles' = profiles
    BY <1>1, <1>2, ProbeKeepsRouting DEF ProbeRoutes
  <2> QED
    BY <1>1, <2>1, RouterStepsKeepRInv
<1>3. ASSUME NEW k \in Keys, ProbeRaises(k)
      PROVE  RInv'
  <2>1. /\ Fails(k, "probe") /\ UNCHANGED decisions
        /\ "probe" \in Reasons /\ {} \in SUBSET BySource(k[2])
    BY <1>3 DEF ProbeRaises, Reasons
  <2>2. RouterTypeOK' /\ RoutingInv' /\ profiles' = profiles
    BY <1>1, <2>1, FailureKeepsRouting DEF Fails
  <2> QED
    BY <1>1, <2>2, RouterStepsKeepRInv
<1>4. ASSUME NEW k \in Keys, JournalRefuses(k)
      PROVE  RInv'
  <2>1. PICK selected \in Selections(k) :
          Fails(k, "journal") /\ decisions' = [decisions EXCEPT ![k] = selected]
    BY <1>4 DEF JournalRefuses
  <2>2. selected \in SUBSET BySource(k[2]) /\ "journal" \in Reasons
    BY SelectionsAreCandidates DEF Reasons
  <2>3. RouterTypeOK' /\ RoutingInv' /\ profiles' = profiles
    BY <1>1, <2>1, <2>2, FailureKeepsRouting DEF Fails
  <2> QED
    BY <1>1, <2>3, RouterStepsKeepRInv
<1>5. ASSUME NEW t \in Targets, MonitorEnds(t)
      PROVE  RInv'
  <2>1. UNCHANGED <<profiles, pending, decisions, probes, faults, message, sent, lost>>
    BY <1>5 DEF MonitorEnds, traceVars
  <2>2. RouterTypeOK'
    BY <1>1, <1>5, <2>1 DEF MonitorEnds, RouterTypeOK
  <2> QED
    BY <1>1, <2>1, <2>2, OthersKeepRouting, RouterStepsKeepRInv
<1> QED
  BY <1>2, <1>3, <1>4, <1>5 DEF Background

-----------------------------------------------------------------------------
(* The invariant holds in every reachable state.                           *)
THEOREM RoutingInvariant == ManagedSpec => []RInv
<1>1. RInv /\ UNCHANGED vars => RInv'
  <2> SUFFICES ASSUME RInv, UNCHANGED vars PROVE RInv'
    OBVIOUS
  <2>1. /\ UNCHANGED <<profiles, active, pending, decisions, probes, faults, message, sent, lost>>
        /\ UNCHANGED <<stored, storedRevision, saving, settings, revision, loop, draft,
                       disturbed>>
    BY DEF vars, routerVars, routingVars, traceVars, storeVars, loadedVars, handlerVars
  <2>2. RoutingInv'
    BY <2>1, OthersKeepRouting DEF RInv
  <2>3. ManagedTypeOK'
    BY <2>1 DEF RInv, ManagedTypeOK, RouterTypeOK
  <2>4. ReloadInv'
    BY <2>1 DEF RInv, ReloadInv, ReadsWhileQuiet, AcceptedIsLoaded, ReloadDisturbsNothing,
                IsBusy, OneOwner, Claimed
  <2> QED
    BY <2>2, <2>3, <2>4 DEF RInv
<1>2. RInv /\ ManagedNext => RInv'
  BY SavingsKeepRInv, ReadsKeepRInv, ReloadKeepsRInv, HandleKeepsRInv, BackgroundKeepsRInv
  DEF ManagedNext, HandlerStep
<1> QED
  BY InitRInv, <1>1, <1>2, PTL DEF ManagedSpec

(* Every variable of the router, the store and the handler keeps its type. *)
THEOREM ManagedTypes == ManagedSpec => []ManagedTypeOK
<1>1. RInv => ManagedTypeOK
  BY DEF RInv
<1> QED
  BY <1>1, RoutingInvariant, PTL

(* A key is probed exactly while triggers of it wait, so that no trigger   *)
(* waits for a probe that is not coming (MultiTargetRouter.pending).       *)
THEOREM ProbesMatchQueues == ManagedSpec => []OneProbePerQueue
<1>1. RInv => OneProbePerQueue
  BY DEF RInv, RoutingInv
<1> QED
  BY <1>1, RoutingInvariant, PTL

(* No firewall receives a trigger twice, and a trigger some firewall       *)
(* received is neither dropped nor queued (trigger, _probe_and_dispatch).  *)
THEOREM TriggersAreRoutedOnce == ManagedSpec => []RoutedOnce
<1>1. RInv => RoutedOnce
  <2> SUFFICES ASSUME RInv, NEW m \in Messages, NEW t \in Targets
               PROVE  /\ sent[m][t] <= 1
                      /\ sent[m][t] = 1 =>
                           /\ \A why \in {"probe", "journal"} : <<m, why>> \notin lost
                           /\ \A k \in Keys : m \notin QueuedOn(k)
    BY DEF RoutedOnce
  <2> QED
    BY DEF RInv, RoutingInv, SentOnce, DroppedIsUnsent, QueuedIsUntouched, Untouched, Reasons
<1> QED
  BY <1>1, RoutingInvariant, PTL

(* A refused trigger goes nowhere, and one whose serial names nobody stays *)
(* within the firewalls of its source (_rejection_reason, trigger).        *)
THEOREM FanOutStaysWithin == ManagedSpec => []FanOutWithinAllowlist
<1>1. RInv => FanOutWithinAllowlist
  BY DEF RInv, RoutingInv
<1> QED
  BY <1>1, RoutingInvariant, PTL

(* A reload cancels no monitor and drops no queued trigger                 *)
(* (ManagedRouter._reload_if_needed).                                      *)
THEOREM ReloadsAreQuiet == ManagedSpec => []ReloadDisturbsNothing
<1>1. RInv => ReloadDisturbsNothing
  BY DEF RInv, ReloadInv
<1> QED
  BY <1>1, RoutingInvariant, PTL

(* A serial names at most one loaded firewall (Config.from_store).         *)
THEOREM LookupsAreUnambiguous == ManagedSpec => []LoadedSerialsHaveOneOwner
<1>1. RInv => LoadedSerialsHaveOneOwner
  BY DEF RInv, ReloadInv, AcceptedIsLoaded, LoadedSerialsHaveOneOwner
<1> QED
  BY <1>1, RoutingInvariant, PTL

-----------------------------------------------------------------------------
(* AlertRouting.  The triggers that wait carry no serial that names a      *)
(* firewall, and their source is registered for some.                      *)
QueuedMayReach ==
  \A k \in Keys : \A m \in QueuedOn(k) :
    message[m].named = {} /\ message[m].allowed # {}

FateNames == {"waiting", "dropped", "delivered", "refused"}

(* A function that agrees with a sequence and holds one element more.      *)
LEMMA OneMore ==
  ASSUME NEW S, NEW n \in Nat, NEW s \in [1 .. n -> S], NEW r \in [1 .. n + 1 -> S],
         \A i \in 1 .. n : r[i] = s[i]
  PROVE  r = Append(s, r[n + 1])
<1>1. s \in Seq(S) /\ Len(s) = n
  OBVIOUS
<1>2. r[n + 1] \in S
  OBVIOUS
<1>3. r \in Seq(S) /\ Len(r) = n + 1
  OBVIOUS
<1>4. /\ Append(s, r[n + 1]) \in Seq(S)
      /\ Len(Append(s, r[n + 1])) = n + 1
      /\ \A i \in 1 .. n : Append(s, r[n + 1])[i] = s[i]
      /\ Append(s, r[n + 1])[n + 1] = r[n + 1]
  BY <1>1, <1>2
<1>5. \A i \in 1 .. n + 1 : i \in 1 .. n \/ i = n + 1
  OBVIOUS
<1> QED
  BY <1>3, <1>4, <1>5

(* What is recorded of the triggers received.                              *)
LEMMA MessagesAreRecords ==
  ASSUME NEW q \in Seq([named : SUBSET Targets, allowed : SUBSET Targets])
  PROVE  /\ Len(q) \in Nat
         /\ DOMAIN q = 1 .. Len(q)
         /\ \A m \in 1 .. Len(q) :
              q[m].named \in SUBSET Targets /\ q[m].allowed \in SUBSET Targets
<1> DEFINE Alerts == [named : SUBSET Targets, allowed : SUBSET Targets]
<1>1. q \in Seq(Alerts)
  OBVIOUS
<1>2. \A a \in Alerts : a.named \in SUBSET Targets /\ a.allowed \in SUBSET Targets
  OBVIOUS
<1> HIDE DEF Alerts
<1>3. /\ Len(q) \in Nat
      /\ DOMAIN q = 1 .. Len(q)
      /\ \A m \in 1 .. Len(q) : q[m] \in Alerts
  BY <1>1
<1> QED
  BY <1>2, <1>3

(* The mapped variables are sequences as long as what was received.        *)
LEMMA MappedTypes ==
  ASSUME RouterTypeOK, ReceivedAtMost
  PROVE  /\ Len(message) \in Nat
         /\ DOMAIN message = 1 .. Len(message)
         /\ 1 .. Len(message) \subseteq Messages
         /\ Scopes \in [1 .. Len(message) -> SUBSET Targets]
         /\ Fates \in [1 .. Len(message) -> FateNames]
         /\ Deliveries \in [1 .. Len(message) -> [Targets -> Nat]]
<1>1. /\ Len(message) \in Nat
      /\ DOMAIN message = 1 .. Len(message)
      /\ 1 .. Len(message) \subseteq Messages
      /\ \A m \in 1 .. Len(message) :
           message[m].named \in SUBSET Targets /\ message[m].allowed \in SUBSET Targets
  <2>1. message \in Seq([named : SUBSET Targets, allowed : SUBSET Targets])
        /\ MaxMessages \in Nat /\ Len(message) <= MaxMessages
    BY RouterAssumption DEF RouterTypeOK, ReceivedAtMost
  <2>2. /\ Len(message) \in Nat
        /\ DOMAIN message = 1 .. Len(message)
        /\ \A m \in 1 .. Len(message) :
             message[m].named \in SUBSET Targets /\ message[m].allowed \in SUBSET Targets
    BY <2>1, MessagesAreRecords
  <2> QED
    BY <2>1, <2>2 DEF Messages
<1>2. \A m \in 1 .. Len(message) : MayReach(m) \in SUBSET Targets
  <2> SUFFICES ASSUME NEW m \in 1 .. Len(message) PROVE MayReach(m) \in SUBSET Targets
    OBVIOUS
  <2> QED
    BY <1>1 DEF MayReach
<1>3. \A m : Fate(m) \in FateNames
  BY DEF Fate, FateNames
<1>4. \A m \in 1 .. Len(message) : sent[m] \in [Targets -> Nat]
  BY <1>1 DEF RouterTypeOK
<1> QED
  BY <1>1, <1>2, <1>3, <1>4 DEF Scopes, Fates, Deliveries

(* A trigger that is received is an alert that arrives.                    *)
LEMMA ArrivalMaps ==
  ASSUME RouterTypeOK, RouterTypeOK', RoutingInv,
         NEW named \in SUBSET Targets, NEW allowed \in SUBSET Targets,
         NEW selected \in SUBSET Targets, NEW outcome \in FateNames,
         NEW new, new = Received, Fate(new)' = outcome,
         NEW may, may = IF named # {} THEN named ELSE allowed,
         Receive(named, allowed),
         \A m \in Messages : \A t \in Targets :
           sent'[m][t] = IF m = Received /\ t \in selected THEN sent[m][t] + 1
                         ELSE sent[m][t],
         UNCHANGED <<lost, faults>>,
         \A k \in Keys : QueuedOn(k)' \ {Received} = QueuedOn(k)
  PROVE  Routing!Arrives(may, outcome, selected)
<1> DEFINE n == Len(message)
<1>1. /\ Received \in Messages /\ Received = n + 1
      /\ n \in Nat /\ Len(message') = n + 1
      /\ ReceivedAtMost /\ ReceivedAtMost'
      /\ \A m \in 1 .. n : message'[m] = message[m]
      /\ message'[Received] = [named |-> named, allowed |-> allowed]
  BY ReceivedIsNext DEF RoutingInv, Received
<1>2. /\ DOMAIN message = 1 .. n
      /\ 1 .. n \subseteq Messages
      /\ Scopes \in [1 .. n -> SUBSET Targets]
      /\ Fates \in [1 .. n -> FateNames]
      /\ Deliveries \in [1 .. n -> [Targets -> Nat]]
  BY <1>1, MappedTypes
<1>3. /\ DOMAIN message' = 1 .. n + 1
      /\ Scopes' \in [1 .. n + 1 -> SUBSET Targets]
      /\ Fates' \in [1 .. n + 1 -> FateNames]
      /\ Deliveries' \in [1 .. n + 1 -> [Targets -> Nat]]
  <2>0. message' \in Seq([named : SUBSET Targets, allowed : SUBSET Targets])
    BY DEF RouterTypeOK
  <2>1. /\ DOMAIN message' = 1 .. n + 1 /\ 1 .. n + 1 \subseteq Messages
        /\ \A m \in 1 .. n + 1 :
             message'[m].named \in SUBSET Targets /\ message'[m].allowed \in SUBSET Targets
    <3>1. /\ DOMAIN message' = 1 .. Len(message')
          /\ \A m \in 1 .. Len(message') :
               message'[m].named \in SUBSET Targets /\ message'[m].allowed \in SUBSET Targets
      BY <2>0, MessagesAreRecords
    <3>2. n + 1 <= MaxMessages /\ MaxMessages \in Nat
      BY <1>1, RouterAssumption DEF ReceivedAtMost
    <3>3. 1 .. n + 1 \subseteq Messages
      BY <1>1, <3>2 DEF Messages
    <3> QED
      BY <1>1, <3>1, <3>3
  <2>2. \A m \in 1 .. n + 1 : MayReach(m)' \in SUBSET Targets
    <3> SUFFICES ASSUME NEW m \in 1 .. n + 1 PROVE MayReach(m)' \in SUBSET Targets
      OBVIOUS
    <3> QED
      BY <2>1 DEF MayReach
  <2>3. \A m : Fate(m)' \in FateNames
    BY DEF Fate, FateNames
  <2>4. \A m \in 1 .. n + 1 : sent'[m] \in [Targets -> Nat]
    BY <2>1 DEF RouterTypeOK
  <2> QED
    BY <2>1, <2>2, <2>3, <2>4 DEF Scopes, Fates, Deliveries
<1>4. Scopes' = Append(Scopes, may)
  <2>1. \A i \in 1 .. n : Scopes'[i] = Scopes[i]
    BY <1>1, <1>2, <1>3 DEF Scopes, MayReach
  <2>2. Scopes'[n + 1] = may
    BY <1>1, <1>3 DEF Scopes, MayReach
  <2> QED
    BY <1>1, <1>2, <1>3, <2>1, <2>2, OneMore
<1>5. Fates' = Append(Fates, outcome)
  <2>1. \A i \in 1 .. n : Fates'[i] = Fates[i]
    <3> SUFFICES ASSUME NEW i \in 1 .. n PROVE Fates'[i] = Fates[i]
      OBVIOUS
    <3>1. i # Received /\ i \in Messages
      BY <1>1, <1>2
    <3>2. \A k \in Keys : i \in QueuedOn(k)' <=> i \in QueuedOn(k)
      BY <3>1
    <3>3. \A t \in Targets : sent'[i][t] = sent[i][t]
      BY <3>1
    <3>4. Fate(i)' = Fate(i)
      BY <3>2, <3>3 DEF Fate
    <3>5. Fates'[i] = Fate(i)' /\ Fates[i] = Fate(i)
      BY <1>1, <1>2, <1>3 DEF Fates
    <3> QED
      BY <3>4, <3>5
  <2>2. Fates'[n + 1] = outcome
    <3>1. new = n + 1
      BY <1>1
    <3>2. Fates'[new] = Fate(new)'
      BY <1>3, <3>1 DEF Fates
    <3> QED
      BY <3>1, <3>2
  <2> QED
    BY <1>1, <1>2, <1>3, <2>1, <2>2, OneMore
<1>6. Deliveries' = Append(Deliveries, Routing!Once(selected))
  <2>1. sent' \in [Messages -> [Targets -> Nat]] /\ sent \in [Messages -> [Targets -> Nat]]
    BY DEF RouterTypeOK
  <2>2. \A i \in 1 .. n : Deliveries'[i] = Deliveries[i]
    <3> SUFFICES ASSUME NEW i \in 1 .. n PROVE Deliveries'[i] = Deliveries[i]
      OBVIOUS
    <3>1. i # Received /\ i \in Messages
      BY <1>1, <1>2
    <3>2. sent'[i] = sent[i]
      BY <2>1, <3>1
    <3> QED
      BY <1>1, <1>2, <1>3, <3>2 DEF Deliveries
  <2>3. Deliveries'[n + 1] = Routing!Once(selected)
    <3>1. \A t \in Targets : sent[Received][t] = 0
      BY <1>1 DEF RoutingInv, LaterIsUntouched, Untouched
    <3>2. sent'[Received] = [t \in Targets |-> IF t \in selected THEN 1 ELSE 0]
      BY <1>1, <2>1, <3>1
    <3> QED
      BY <1>1, <1>3, <3>2 DEF Deliveries, Routing!Once
  <2> QED
    BY <1>1, <1>2, <1>3, <2>2, <2>3, OneMore
<1> QED
  BY <1>4, <1>5, <1>6 DEF Routing!Arrives

(* Nothing has happened to the trigger being received.                     *)
LEMMA ReceivedIsFresh ==
  ASSUME RouterTypeOK, RoutingInv, Received \in Messages
  PROVE  /\ \A k \in Keys : Received \notin QueuedOn(k)
         /\ \A loss \in lost : loss[1] # Received
         /\ \A t \in Targets : sent[Received][t] = 0
<1>1. Len(message) \in Nat /\ Received = Len(message) + 1
  BY DEF RouterTypeOK, Received
<1>2. Untouched(Received)
  BY <1>1 DEF RoutingInv, LaterIsUntouched
<1>3. \A k \in Keys : Received \notin QueuedOn(k)
  <2> SUFFICES ASSUME NEW k \in Keys, Received \in QueuedOn(k) PROVE FALSE
    OBVIOUS
  <2>1. Received <= Len(message)
    BY DEF RoutingInv, QueuedWasReceived
  <2> QED
    BY <1>1, <2>1
<1>4. \A loss \in lost : loss[1] # Received
  <2> SUFFICES ASSUME NEW loss \in lost, loss[1] = Received PROVE FALSE
    OBVIOUS
  <2>1. loss = <<Received, loss[2]>> /\ loss[2] \in Reasons
    BY DEF RouterTypeOK, Reasons
  <2> QED
    BY <1>2, <2>1 DEF Untouched
<1> QED
  BY <1>2, <1>3, <1>4 DEF Untouched

(* A trigger that is routed at once, or refused.                           *)
LEMMA RoutedAtOnce ==
  ASSUME RouterTypeOK, RouterTypeOK', RoutingInv,
         NEW named \in SUBSET Targets, NEW allowed \in SUBSET Targets,
         NEW selected \in SUBSET Targets,
         NEW may, may = IF named # {} THEN named ELSE allowed,
         NEW outcome, outcome = IF selected # {} THEN "delivered" ELSE "refused",
         Receive(named, allowed),
         \A m \in Messages : \A t \in Targets :
           sent'[m][t] = IF m = Received /\ t \in selected THEN sent[m][t] + 1
                         ELSE sent[m][t],
         UNCHANGED <<pending, lost, faults>>
  PROVE  Routing!Arrives(may, outcome, selected)
<1>1. Received \in Messages
  BY ReceivedIsNext DEF RoutingInv
<1>2. \A k \in Keys : QueuedOn(k)' = QueuedOn(k)
  BY DEF QueuedOn
<1>3. \A k \in Keys : QueuedOn(k)' \ {Received} = QueuedOn(k)
  BY <1>1, <1>2, ReceivedIsFresh
<1>4. PICK new : new = Received
  OBVIOUS
<1>5. Fate(new)' = outcome
  <2>1. /\ \A k \in Keys : new \notin QueuedOn(k)'
        /\ \A loss \in lost' : loss[1] # new
    BY <1>1, <1>2, <1>4, ReceivedIsFresh
  <2>2. \A t \in Targets : sent'[new][t] > 0 <=> t \in selected
    BY <1>1, <1>4, ReceivedIsFresh
  <2>3. Fate(new)' = IF \E t \in Targets : sent'[new][t] > 0 THEN "delivered" ELSE "refused"
    BY <2>1 DEF Fate
  <2> QED
    BY <2>2, <2>3
<1>6. outcome \in FateNames
  BY DEF FateNames
<1> QED
  BY <1>3, <1>4, <1>5, <1>6, ArrivalMaps

(* A trigger that has to wait for a probe.                                 *)
LEMMA EnqueuedWaits ==
  ASSUME RouterTypeOK, RouterTypeOK', RoutingInv,
         NEW source \in Sources, NEW serial \in Serials \cup {NoSerial},
         Enqueue(source, serial)
  PROVE  /\ Routing!Wait(BySource(source))
         /\ \A k \in Keys : QueuedOn(k)' \ {Received} = QueuedOn(k)
<1> DEFINE key == PendingKey(source, serial)
<1>1. /\ Receive({}, BySource(source))
      /\ pending' = [pending EXCEPT ![key] = Append(@, Received)]
      /\ UNCHANGED <<sent, lost, faults>>
      /\ BySource(source) # {}
  BY DEF Enqueue, Rejected
<1>2. key \in Keys /\ BySource(source) \in SUBSET Targets
  BY DEF PendingKey, Keys, BySource
<1>3. Received \in Messages
  BY <1>1, <1>2, ReceivedIsNext DEF RoutingInv
<1>4. \A k \in Keys : QueuedOn(k)' = IF k = key THEN QueuedOn(k) \cup {Received}
                                     ELSE QueuedOn(k)
  <2>1. /\ \A k \in Keys : pending[k] \in Seq(Messages)
        /\ \A k \in Keys : pending'[k] = IF k = key THEN Append(pending[k], Received)
                                         ELSE pending[k]
    BY <1>1 DEF RouterTypeOK
  <2>2. {Append(pending[key], Received)[i] : i \in 1 .. Len(Append(pending[key], Received))}
          = QueuedOn(key) \cup {Received}
    <3>1. pending[key] \in Seq(Messages)
      BY <1>2, <2>1
    <3> QED
      BY <1>3, <3>1, AppendedTrigger DEF QueuedOn
  <2> QED
    BY <2>1, <2>2 DEF QueuedOn
<1>5. \A k \in Keys : QueuedOn(k)' \ {Received} = QueuedOn(k)
  BY <1>3, <1>4, ReceivedIsFresh
<1>6. PICK new : new = Received
  OBVIOUS
<1>7. Fate(new)' = "waiting"
  BY <1>2, <1>4, <1>6 DEF Fate
<1>8. Routing!Arrives(BySource(source), "waiting", {})
  <2>1. "waiting" \in FateNames /\ {} \in SUBSET Targets
    BY DEF FateNames
  <2>2. \A m \in Messages : \A t \in Targets :
          sent'[m][t] = IF m = Received /\ t \in {} THEN sent[m][t] + 1 ELSE sent[m][t]
    BY <1>1
  <2> QED
    BY <1>1, <1>2, <1>5, <1>6, <1>7, <2>1, <2>2, ArrivalMaps
<1> QED
  BY <1>1, <1>5, <1>8 DEF Routing!Wait

(* Every trigger received is an alert that arrives.                        *)
LEMMA TriggersArrive ==
  ASSUME RouterTypeOK, RouterTypeOK', RoutingInv,
         NEW source \in Sources, NEW serial \in Serials \cup {NoSerial},
         Trigger(source, serial)
  PROVE  Routing!Next
<1>0. BySource(source) \in SUBSET Targets /\ BySerial(serial) \in SUBSET Targets
  BY DEF BySource, BySerial
<1>1. CASE Refuse(source, serial)
  <2>1. /\ Receive({}, {})
        /\ UNCHANGED <<pending, lost, faults>>
        /\ \A m \in Messages : \A t \in Targets :
             sent'[m][t] = IF m = Received /\ t \in {} THEN sent[m][t] + 1 ELSE sent[m][t]
    BY <1>1 DEF Refuse, routingVars
  <2>2. Routing!Arrives({}, "refused", {})
    BY <2>1, RoutedAtOnce
  <2> QED
    BY <2>2 DEF Routing!Next, Routing!Refuse
<1>2. CASE RouteDirectly(source, serial)
  <2> DEFINE may == IF BySerial(serial) # {} THEN BySerial(serial) ELSE BySource(source)
  <2>1. /\ Named(source, serial) \in SUBSET may
        /\ Named(source, serial) # {}
        /\ may \in SUBSET Targets
    <3>1. Named(source, serial) # {}
      BY <1>2 DEF RouteDirectly
    <3>2. Named(source, serial) \in SUBSET may
      BY DEF Named
    <3> QED
      BY <1>0, <3>1, <3>2
  <2>2. /\ Receive(BySerial(serial), BySource(source))
        /\ Dispatch({Received}, Named(source, serial))
        /\ UNCHANGED <<pending, lost, faults>>
    BY <1>2 DEF RouteDirectly
  <2>3. \A m \in Messages : \A t \in Targets :
          sent'[m][t] = IF m = Received /\ t \in Named(source, serial)
                        THEN sent[m][t] + 1 ELSE sent[m][t]
    BY <2>1, <2>2, DispatchReaches
  <2>4. Routing!Arrives(may, "delivered", Named(source, serial))
    <3>1. PICK chosen \in SUBSET Targets : chosen = Named(source, serial)
      BY <2>1
    <3>2. \A m \in Messages : \A t \in Targets :
            sent'[m][t] = IF m = Received /\ t \in chosen THEN sent[m][t] + 1 ELSE sent[m][t]
      BY <2>3, <3>1
    <3>3. "delivered" = IF chosen # {} THEN "delivered" ELSE "refused"
      BY <2>1, <3>1
    <3>4. Routing!Arrives(may, "delivered", chosen)
      BY <1>0, <2>2, <3>2, <3>3, RoutedAtOnce
    <3> QED
      BY <3>1, <3>4
  <2>5. Routing!Route(may)
    BY <2>1, <2>4 DEF Routing!Route
  <2> QED
    BY <2>1, <2>5 DEF Routing!Next
<1>3. CASE ReuseDecision(source, serial)
  <2> DEFINE key == PendingKey(source, serial)
  <2>1. key \in Keys /\ key[2] = source
    BY DEF PendingKey, Keys
  <2>2. StillActive(key) \in SUBSET BySource(source) /\ StillActive(key) # {}
    <3>1. StillActive(key) # {}
      BY <1>3 DEF ReuseDecision
    <3>2. StillActive(key) \in SUBSET BySource(source)
      BY <2>1 DEF StillActive, RoutingInv, DecisionsWithinSource
    <3> QED
      BY <3>1, <3>2
  <2>3. /\ Receive({}, BySource(source))
        /\ Dispatch({Received}, StillActive(key))
        /\ UNCHANGED <<pending, lost, faults>>
    BY <1>3 DEF ReuseDecision, PendingAfterReuse
  <2>4. \A m \in Messages : \A t \in Targets :
          sent'[m][t] = IF m = Received /\ t \in StillActive(key)
                        THEN sent[m][t] + 1 ELSE sent[m][t]
    BY <1>0, <2>2, <2>3, DispatchReaches
  <2>5. Routing!Arrives(BySource(source), "delivered", StillActive(key))
    <3>1. PICK chosen \in SUBSET Targets : chosen = StillActive(key)
      BY <1>0, <2>2
    <3>2. \A m \in Messages : \A t \in Targets :
            sent'[m][t] = IF m = Received /\ t \in chosen THEN sent[m][t] + 1 ELSE sent[m][t]
      BY <2>4, <3>1
    <3>3. "delivered" = IF chosen # {} THEN "delivered" ELSE "refused"
      BY <2>2, <3>1
    <3>4. Routing!Arrives(BySource(source), "delivered", chosen)
      BY <1>0, <2>3, <3>2, <3>3, RoutedAtOnce
    <3> QED
      BY <3>1, <3>4
  <2>6. Routing!Route(BySource(source))
    BY <2>2, <2>5 DEF Routing!Route
  <2> QED
    BY <1>0, <2>6 DEF Routing!Next
<1>4. CASE Enqueue(source, serial)
  BY <1>0, <1>4, EnqueuedWaits DEF Routing!Next
<1> QED
  BY <1>1, <1>2, <1>3, <1>4 DEF Trigger

(* The triggers of a queue that is gone are alerts whose waiting is over.  *)
LEMMA SettlementMaps ==
  ASSUME RouterTypeOK, RouterTypeOK', RoutingInv, NEW key \in Keys,
         NEW selected \in SUBSET Targets, NEW outcome \in FateNames,
         message' = message,
         \A m \in Messages : \A t \in Targets :
           sent'[m][t] = IF m \in QueuedOn(key) /\ t \in selected THEN sent[m][t] + 1
                         ELSE sent[m][t],
         \A m \in Messages :
           Fate(m)' = IF m \in QueuedOn(key) THEN outcome ELSE Fate(m)
  PROVE  /\ QueuedOn(key) \in SUBSET Routing!Waiting
         /\ Routing!Settle(QueuedOn(key), outcome, selected)
<1> DEFINE n == Len(message)
<1>1. /\ n \in Nat
      /\ DOMAIN message = 1 .. n
      /\ 1 .. n \subseteq Messages
      /\ Scopes \in [1 .. n -> SUBSET Targets]
      /\ Fates \in [1 .. n -> FateNames]
      /\ Deliveries \in [1 .. n -> [Targets -> Nat]]
  BY MappedTypes DEF RoutingInv
<1>2. QueuedOn(key) \subseteq 1 .. n
  BY QueuedAreMessages DEF RoutingInv
<1>3. QueuedOn(key) \in SUBSET Routing!Waiting
  <2>1. \A m \in QueuedOn(key) : Fate(m) = "waiting"
    BY DEF Fate
  <2>2. \A m \in QueuedOn(key) : m \in DOMAIN Fates /\ Fates[m] = "waiting"
    BY <1>1, <1>2, <2>1 DEF Fates
  <2> QED
    BY <2>2 DEF Routing!Waiting
<1>4. Scopes' = Scopes
  BY DEF Scopes, MayReach
<1>5. Fates' = [m \in DOMAIN Fates |-> IF m \in QueuedOn(key) THEN outcome ELSE Fates[m]]
  <2>1. Fates' = [m \in 1 .. n |-> Fate(m)']
    BY <1>1 DEF Fates
  <2>2. \A m \in 1 .. n : Fates[m] = Fate(m)
    BY <1>1 DEF Fates
  <2>3. \A m \in 1 .. n : Fate(m)' = IF m \in QueuedOn(key) THEN outcome ELSE Fates[m]
    BY <1>1, <2>2
  <2>4. DOMAIN Fates = 1 .. n
    BY <1>1
  <2> QED
    BY <2>1, <2>3, <2>4
<1>6. Deliveries' = [m \in DOMAIN Deliveries |->
                       IF m \in QueuedOn(key) THEN Routing!Once(selected) ELSE Deliveries[m]]
  <2>1. sent' \in [Messages -> [Targets -> Nat]] /\ sent \in [Messages -> [Targets -> Nat]]
    BY DEF RouterTypeOK
  <2>2. \A m \in 1 .. n : sent'[m] = IF m \in QueuedOn(key) THEN Routing!Once(selected)
                                    ELSE sent[m]
    <3> SUFFICES ASSUME NEW m \in 1 .. n
                 PROVE  sent'[m] = IF m \in QueuedOn(key) THEN Routing!Once(selected)
                                   ELSE sent[m]
      OBVIOUS
    <3>1. m \in Messages
      BY <1>1
    <3>2. CASE m \in QueuedOn(key)
      <4>1. \A t \in Targets : sent[m][t] = 0
        BY <3>2 DEF RoutingInv, QueuedIsUntouched, Untouched
      <4>2. sent'[m] = [t \in Targets |-> IF t \in selected THEN 1 ELSE 0]
        BY <2>1, <3>1, <3>2, <4>1
      <4> QED
        BY <3>2, <4>2 DEF Routing!Once
    <3>3. CASE m \notin QueuedOn(key)
      BY <2>1, <3>1, <3>3
    <3> QED
      BY <3>2, <3>3
  <2>3. DOMAIN Deliveries = 1 .. n /\ \A m \in 1 .. n : Deliveries[m] = sent[m]
    BY <1>1 DEF Deliveries
  <2>4. Deliveries' = [m \in 1 .. n |-> sent'[m]]
    BY <1>1 DEF Deliveries
  <2> QED
    BY <2>2, <2>3, <2>4
<1> QED
  BY <1>3, <1>4, <1>5, <1>6 DEF Routing!Settle

(* A probe that is over leaves none of its triggers in any queue.          *)
LEMMA PoppedWaitNoMore ==
  ASSUME RouterTypeOK, RoutingInv, NEW key \in Keys, probes[key] > 0,
         ProbeOver(key), pending' = Popped(key)
  PROVE  \A m : (\E k \in Keys : m \in QueuedOn(k)')
                  <=> m \notin QueuedOn(key) /\ \E k \in Keys : m \in QueuedOn(k)
<1>1. \A k \in Keys : QueuedOn(k)' = IF k = key THEN {} ELSE QueuedOn(k)
  BY ProbeOverTypes DEF RoutingInv
<1>2. \A k \in Keys : \A m \in QueuedOn(k) : m \in QueuedOn(key) => k = key
  BY DEF RoutingInv, QueuedOnce
<1> QED
  BY <1>1, <1>2

(* A trigger that waits was not dropped.                                   *)
LEMMA QueuedIsNotLost ==
  ASSUME RouterTypeOK, RoutingInv, NEW key \in Keys, NEW m \in QueuedOn(key)
  PROVE  \A loss \in lost : loss[1] # m
<1> SUFFICES ASSUME NEW loss \in lost, loss[1] = m PROVE FALSE
  OBVIOUS
<1>1. loss = <<m, loss[2]>> /\ loss[2] \in Reasons
  BY DEF RouterTypeOK, Reasons
<1>2. Untouched(m)
  BY DEF RoutingInv, QueuedIsUntouched
<1> QED
  BY <1>1, <1>2 DEF Untouched

(* What a probe selects is not empty where it has candidates.              *)
LEMMA SomeoneIsSelected ==
  ASSUME NEW k \in Keys, NEW selected \in Selections(k), BySource(k[2]) # {}
  PROVE  selected # {}
<1>1. PICK probe \in [BySource(k[2]) -> Probed] : selected = Selected(probe)
  BY DEF Selections
<1>2. DOMAIN probe # {}
  BY <1>1
<1> QED
  BY <1>1, <1>2 DEF Selected

(* An answered probe delivers what waited for it.                          *)
LEMMA ProbesDeliver ==
  ASSUME RouterTypeOK, RouterTypeOK', RoutingInv, QueuedMayReach,
         NEW key \in Keys, ProbeRoutes(key)
  PROVE  Routing!Next
<1>1. PICK selected \in Selections(key) :
        /\ probes[key] > 0
        /\ ProbeOver(key)
        /\ pending' = Popped(key)
        /\ Dispatch(QueuedOn(key), selected)
        /\ UNCHANGED <<faults, message, lost>>
  BY DEF ProbeRoutes
<1>2. selected \subseteq BySource(key[2]) /\ selected \in SUBSET Targets
  BY SelectionsAreCandidates
<1>3. \A m \in Messages : \A t \in Targets :
        sent'[m][t] = IF m \in QueuedOn(key) /\ t \in selected THEN sent[m][t] + 1
                      ELSE sent[m][t]
  BY <1>1, <1>2, DispatchReaches
<1>4. \A m \in QueuedOn(key) : message[m].named = {} /\ message[m].allowed = BySource(key[2])
  BY DEF QueuedMayReach, RoutingInv, QueuedBySource
<1>5. selected # {}
  <2>1. pending[key] # <<>> /\ pending[key] \in Seq(Messages)
    BY <1>1 DEF RoutingInv, OneProbePerQueue, RouterTypeOK
  <2>2. 1 \in 1 .. Len(pending[key])
    BY <2>1
  <2>3. pending[key][1] \in QueuedOn(key)
    BY <2>2 DEF QueuedOn
  <2>4. BySource(key[2]) # {}
    BY <1>4, <2>3 DEF QueuedMayReach
  <2> QED
    BY <2>4, SomeoneIsSelected
<1>6. \A m \in Messages : Fate(m)' = IF m \in QueuedOn(key) THEN "delivered" ELSE Fate(m)
  <2> SUFFICES ASSUME NEW m \in Messages
               PROVE  Fate(m)' = IF m \in QueuedOn(key) THEN "delivered" ELSE Fate(m)
    OBVIOUS
  <2>1. CASE m \in QueuedOn(key)
    <3>1. ~\E k \in Keys : m \in QueuedOn(k)'
      BY <1>1, <2>1, PoppedWaitNoMore
    <3>2. ~\E loss \in lost' : loss[1] = m
      BY <1>1, <2>1, QueuedIsNotLost
    <3>3. \E t \in Targets : sent'[m][t] > 0
      <4>1. PICK t \in Targets : t \in selected
        BY <1>2, <1>5
      <4>2. sent[m][t] \in Nat
        BY DEF RouterTypeOK
      <4> QED
        BY <1>3, <2>1, <4>1, <4>2
    <3> QED
      BY <2>1, <3>1, <3>2, <3>3 DEF Fate
  <2>2. CASE m \notin QueuedOn(key)
    <3>1. (\E k \in Keys : m \in QueuedOn(k)') <=> \E k \in Keys : m \in QueuedOn(k)
      BY <1>1, <2>2, PoppedWaitNoMore
    <3>2. \A t \in Targets : sent'[m][t] = sent[m][t]
      BY <1>3, <2>2
    <3> QED
      BY <1>1, <2>2, <3>1, <3>2 DEF Fate
  <2> QED
    BY <2>1, <2>2
<1>7. /\ QueuedOn(key) \in SUBSET Routing!Waiting
      /\ Routing!Settle(QueuedOn(key), "delivered", selected)
  <2>1. "delivered" \in FateNames
    BY DEF FateNames
  <2> QED
    BY <1>1, <1>2, <1>3, <1>6, <2>1, SettlementMaps
<1>8. \A m \in QueuedOn(key) : selected \subseteq Scopes[m]
  <2> SUFFICES ASSUME NEW m \in QueuedOn(key) PROVE selected \subseteq Scopes[m]
    OBVIOUS
  <2>1. m \in DOMAIN message
    BY QueuedAreMessages, MappedTypes DEF RoutingInv
  <2>2. Scopes[m] = MayReach(m)
    BY <2>1 DEF Scopes
  <2> QED
    BY <1>2, <1>4, <2>2 DEF MayReach
<1>9. Routing!Deliver(QueuedOn(key))
  BY <1>1, <1>2, <1>5, <1>7, <1>8 DEF Routing!Deliver
<1> QED
  BY <1>7, <1>9 DEF Routing!Next

(* A probe that failed drops what waited for it.                           *)
LEMMA FailuresDrop ==
  ASSUME RouterTypeOK, RouterTypeOK', RoutingInv,
         NEW key \in Keys, NEW why \in Reasons, Fails(key, why)
  PROVE  Routing!Next
<1>1. /\ probes[key] > 0
      /\ faults' = faults + 1
      /\ ProbeOver(key)
      /\ pending' = Popped(key)
      /\ lost' = lost \cup QueuedOn(key) \X {why}
      /\ UNCHANGED <<message, sent>>
  BY DEF Fails, PendingAfterFailure
<1>2. \A m \in Messages : Fate(m)' = IF m \in QueuedOn(key) THEN "dropped" ELSE Fate(m)
  <2> SUFFICES ASSUME NEW m \in Messages
               PROVE  Fate(m)' = IF m \in QueuedOn(key) THEN "dropped" ELSE Fate(m)
    OBVIOUS
  <2>1. CASE m \in QueuedOn(key)
    <3>1. ~\E k \in Keys : m \in QueuedOn(k)'
      BY <1>1, <2>1, PoppedWaitNoMore
    <3>2. <<m, why>> \in lost' /\ <<m, why>>[1] = m
      BY <1>1, <2>1
    <3> QED
      BY <2>1, <3>1, <3>2 DEF Fate
  <2>2. CASE m \notin QueuedOn(key)
    <3>1. (\E k \in Keys : m \in QueuedOn(k)') <=> \E k \in Keys : m \in QueuedOn(k)
      BY <1>1, <2>2, PoppedWaitNoMore
    <3>2. (\E loss \in lost' : loss[1] = m) <=> \E loss \in lost : loss[1] = m
      BY <1>1, <2>2
    <3> QED
      BY <1>1, <2>2, <3>1, <3>2 DEF Fate
  <2> QED
    BY <2>1, <2>2
<1>3. /\ QueuedOn(key) \in SUBSET Routing!Waiting
      /\ Routing!Settle(QueuedOn(key), "dropped", {})
  <2>1. "dropped" \in FateNames /\ {} \in SUBSET Targets
    BY DEF FateNames
  <2>2. \A m \in Messages : \A t \in Targets :
          sent'[m][t] = IF m \in QueuedOn(key) /\ t \in {} THEN sent[m][t] + 1
                        ELSE sent[m][t]
    BY <1>1
  <2> QED
    BY <1>1, <1>2, <2>1, <2>2, SettlementMaps
<1>4. Routing!Drop(QueuedOn(key))
  BY <1>1, <1>3 DEF Routing!Drop
<1> QED
  BY <1>3, <1>4 DEF Routing!Next

(* Steps that touch neither queues nor histories change no alert.          *)
LEMMA AlertsAreKept ==
  ASSUME UNCHANGED <<message, pending, lost, sent>>
  PROVE  UNCHANGED <<Scopes, Fates, Deliveries>>
<1>1. \A k : QueuedOn(k)' = QueuedOn(k)
  BY DEF QueuedOn
<1>2. \A m : Fate(m)' = Fate(m) /\ MayReach(m)' = MayReach(m)
  BY <1>1 DEF Fate, MayReach
<1> QED
  BY <1>2 DEF Scopes, Fates, Deliveries

(* A failed load of a configuration drops no alert.                        *)
LEMMA FailedLoadsDropNothing ==
  ASSUME RouterTypeOK, RoutingInv, LoadFails
  PROVE  Routing!Next
<1>1. faults' = faults + 1 /\ UNCHANGED <<message, pending, lost, sent>>
  BY DEF LoadFails, routingVars, traceVars
<1>2. UNCHANGED <<Scopes, Fates, Deliveries>>
  BY <1>1, AlertsAreKept
<1>3. Routing!Settle({}, "dropped", {})
  <2>1. /\ Fates = [m \in DOMAIN Fates |-> Fates[m]]
        /\ Deliveries = [m \in DOMAIN Deliveries |-> Deliveries[m]]
    BY DEF Fates, Deliveries
  <2> QED
    BY <1>2, <2>1 DEF Routing!Settle
<1>4. Routing!Drop({})
  BY <1>1, <1>3 DEF Routing!Drop
<1> QED
  BY <1>4 DEF Routing!Next

(* A reload finds the queues empty and leaves them so.                     *)
LEMMA ReloadsChangeNoQueue ==
  ASSUME RInv, Reload
  PROVE  UNCHANGED <<message, pending, lost, sent, faults>>
<1>1. \A k \in Keys : pending[k] = <<>>
  BY DEF RInv, ReloadInv, ReadsWhileQuiet, Reload, Reading, IsBusy
<1>2. pending \in [Keys -> Seq(Messages)]
  BY DEF RInv, ManagedTypeOK, RouterTypeOK
<1>3. pending' = pending
  BY <1>1, <1>2 DEF Reload
<1> QED
  BY <1>3 DEF Reload, traceVars

(* The triggers that wait may still reach some firewall, whatever is       *)
(* received and whichever probes end.                                      *)
LEMMA TriggersKeepMayReach ==
  ASSUME RouterTypeOK, RouterTypeOK', RoutingInv, QueuedMayReach,
         NEW source \in Sources, NEW serial \in Serials \cup {NoSerial},
         Trigger(source, serial)
  PROVE  QueuedMayReach'
<1>0. /\ BySource(source) \in SUBSET Targets
      /\ BySerial(serial) \in SUBSET Targets
      /\ {} \in SUBSET Targets
  BY DEF BySource, BySerial
<1>1. CASE Enqueue(source, serial)
  <2>1. Receive({}, BySource(source)) /\ BySource(source) # {}
    BY <1>1 DEF Enqueue, Rejected
  <2>2. /\ \A m \in 1 .. Len(message) : message'[m] = message[m]
        /\ message'[Received] = [named |-> {}, allowed |-> BySource(source)]
    BY <1>0, <2>1, ReceivedIsNext DEF RoutingInv
  <2>3. \A k \in Keys : \A m \in QueuedOn(k)' : m = Received \/ m \in QueuedOn(k)
    BY <1>1, EnqueuedWaits
  <2>4. \A k \in Keys : QueuedOn(k) \subseteq 1 .. Len(message)
    BY QueuedAreMessages DEF RoutingInv
  <2> SUFFICES ASSUME NEW k \in Keys, NEW m, m \in QueuedOn(k)'
               PROVE  message'[m].named = {} /\ message'[m].allowed # {}
    BY DEF QueuedMayReach
  <2>5. CASE m = Received
    BY <2>1, <2>2, <2>5
  <2>6. CASE m \in QueuedOn(k)
    <3>1. message'[m] = message[m]
      BY <2>2, <2>4, <2>6
    <3> QED
      BY <2>6, <3>1 DEF QueuedMayReach
  <2> QED
    BY <2>3, <2>5, <2>6
<1>2. CASE Refuse(source, serial) \/ RouteDirectly(source, serial) \/ ReuseDecision(source, serial)
  <2>1. pending' = pending
    BY <1>2 DEF Refuse, RouteDirectly, ReuseDecision, routingVars, PendingAfterReuse
  <2>2. \A m \in 1 .. Len(message) : message'[m] = message[m]
    <3>1. PICK named \in SUBSET Targets, allowed \in SUBSET Targets : Receive(named, allowed)
      BY <1>0, <1>2 DEF Refuse, RouteDirectly, ReuseDecision
    <3> QED
      BY <3>1, ReceivedIsNext DEF RoutingInv
  <2>3. \A k \in Keys : QueuedOn(k)' = QueuedOn(k) /\ QueuedOn(k) \subseteq 1 .. Len(message)
    BY <2>1, QueuedAreMessages DEF QueuedOn, RoutingInv
  <2> SUFFICES ASSUME NEW k \in Keys, NEW m, m \in QueuedOn(k)'
               PROVE  message'[m].named = {} /\ message'[m].allowed # {}
    BY DEF QueuedMayReach
  <2>4. m \in QueuedOn(k) /\ message'[m] = message[m]
    BY <2>2, <2>3
  <2> QED
    BY <2>4 DEF QueuedMayReach
<1> QED
  BY <1>1, <1>2 DEF Trigger

LEMMA ShorterQueuesKeepMayReach ==
  ASSUME QueuedMayReach, message' = message,
         \A k \in Keys : QueuedOn(k)' \subseteq QueuedOn(k)
  PROVE  QueuedMayReach'
<1> SUFFICES ASSUME NEW k \in Keys, NEW m, m \in QueuedOn(k)'
             PROVE  message'[m].named = {} /\ message'[m].allowed # {}
  BY DEF QueuedMayReach
<1>1. m \in QueuedOn(k)
  OBVIOUS
<1> QED
  BY <1>1 DEF QueuedMayReach

(* The abstract step that a step is, or none.                              *)
AlertStep == Routing!Next \/ UNCHANGED <<Scopes, Fates, Deliveries, faults>>

(* Every step of the router keeps the invariant and is one of routing.     *)
LEMMA RoutingSteps ==
  ASSUME RInv, RInv', QueuedMayReach, ManagedNext \/ UNCHANGED vars
  PROVE  QueuedMayReach' /\ AlertStep
<1>0. RouterTypeOK /\ RouterTypeOK' /\ RoutingInv
  BY DEF RInv, ManagedTypeOK
<1>1. ASSUME UNCHANGED <<message, pending, lost, sent>>
      PROVE  QueuedMayReach' /\ UNCHANGED <<Scopes, Fates, Deliveries>>
  <2>1. \A k \in Keys : QueuedOn(k)' = QueuedOn(k)
    BY <1>1 DEF QueuedOn
  <2> QED
    BY <1>1, <2>1, AlertsAreKept, ShorterQueuesKeepMayReach
<1>2. CASE LoadFails
  <2>1. UNCHANGED <<message, pending, lost, sent>>
    BY <1>2 DEF LoadFails, routingVars, traceVars
  <2> QED
    BY <1>0, <1>1, <1>2, <2>1, FailedLoadsDropNothing DEF AlertStep
<1>3. CASE \/ SaveSettings \/ CheckSerials \/ WriteTarget \/ CheckRevision \/ ReadSettings
           \/ ReadTargets \/ Reload \/ UNCHANGED vars
  <2>1. CASE Reload
    BY <1>1, <2>1, ReloadsChangeNoQueue DEF AlertStep
  <2>2. CASE ~Reload
    <3>1. UNCHANGED <<message, pending, lost, sent, faults>>
      BY <1>3, <2>2 DEF SaveSettings, CheckSerials, WriteTarget, CheckRevision, ReadSettings,
         ReadTargets, vars, routerVars, routingVars, traceVars
    <3> QED
      BY <1>1, <3>1 DEF AlertStep
  <2> QED
    BY <2>1, <2>2
<1>4. CASE Handle
  <2>1. CASE UNCHANGED routerVars
    <3>1. UNCHANGED <<message, pending, lost, sent, faults>>
      BY <2>1 DEF routerVars, routingVars, traceVars
    <3> QED
      BY <1>1, <3>1 DEF AlertStep
  <2>2. CASE \E source \in Sources, serial \in Serials \cup {NoSerial} : Trigger(source, serial)
    BY <1>0, <2>2, TriggersArrive, TriggersKeepMayReach DEF AlertStep
  <2> QED
    BY <1>4, <2>1, <2>2 DEF Handle
<1>5. CASE Background
  <2>1. ASSUME NEW t \in Targets, MonitorEnds(t)
        PROVE  QueuedMayReach' /\ AlertStep
    <3>1. UNCHANGED <<message, pending, lost, sent, faults>>
      BY <2>1 DEF MonitorEnds, traceVars
    <3> QED
      BY <1>1, <3>1 DEF AlertStep
  <2>2. ASSUME NEW k \in Keys, ProbeRoutes(k) \/ ProbeRaises(k) \/ JournalRefuses(k)
        PROVE  QueuedMayReach' /\ AlertStep
    <3>1. /\ message' = message /\ probes[k] > 0
          /\ ProbeOver(k) /\ pending' = Popped(k)
      <4>1. CASE ProbeRoutes(k)
        BY <4>1 DEF ProbeRoutes
      <4>2. CASE ProbeRaises(k)
        BY <4>2 DEF ProbeRaises, Fails, PendingAfterFailure
      <4>3. CASE JournalRefuses(k)
        BY <4>3 DEF JournalRefuses, Fails, PendingAfterFailure
      <4> QED
        BY <2>2, <4>1, <4>2, <4>3
    <3>2. \A l \in Keys : QueuedOn(l)' \subseteq QueuedOn(l)
      BY <1>0, <3>1, ProbeOverTypes DEF RoutingInv
    <3>3. QueuedMayReach'
      BY <3>1, <3>2, ShorterQueuesKeepMayReach
    <3>4. CASE ProbeRoutes(k)
      BY <1>0, <3>3, <3>4, ProbesDeliver DEF AlertStep
    <3>5. CASE ProbeRaises(k) \/ JournalRefuses(k)
      <4>1. \E why \in Reasons : Fails(k, why)
        <5>1. CASE ProbeRaises(k)
          BY <5>1 DEF ProbeRaises, Reasons
        <5>2. CASE JournalRefuses(k)
          <6>1. Fails(k, "journal")
            BY <5>2 DEF JournalRefuses
          <6> QED
            BY <6>1 DEF Reasons
        <5> QED
          BY <3>5, <5>1, <5>2
      <4> QED
        BY <1>0, <3>3, <4>1, FailuresDrop DEF AlertStep
    <3> QED
      BY <2>2, <3>4, <3>5
  <2> QED
    BY <1>5, <2>1, <2>2 DEF Background
<1> QED
  BY <1>2, <1>3, <1>4, <1>5 DEF ManagedNext, HandlerStep

(* The managed router implements AlertRouting: an accepted alert is never  *)
(* lost without a failure, and it is routed in one step, to at least one   *)
(* of the firewalls it may reach, and never again (trigger,                *)
(* _probe_and_dispatch).                                                   *)
THEOREM RouterImplementsRouting == ManagedSpec => ImplementsAlertRouting
<1>1. ManagedInit => Routing!Init /\ QueuedMayReach
  <2> SUFFICES ASSUME ManagedInit PROVE Routing!Init /\ QueuedMayReach
    OBVIOUS
  <2>1. message = <<>> /\ faults = 0 /\ \A k \in Keys : pending[k] = <<>>
    BY DEF ManagedInit, RouterInit
  <2>2. QueuedMayReach
    BY <2>1, EmptyQueue DEF QueuedMayReach
  <2>3. Scopes = <<>> /\ Fates = <<>> /\ Deliveries = <<>>
    BY <2>1 DEF Scopes, Fates, Deliveries
  <2> QED
    BY <2>1, <2>2, <2>3 DEF Routing!Init
<1>2. RInv /\ RInv' /\ QueuedMayReach /\ [ManagedNext]_vars
        => QueuedMayReach' /\ [Routing!Next]_<<Scopes, Fates, Deliveries, faults>>
  BY RoutingSteps DEF AlertStep
<1> QED
  BY <1>1, <1>2, RoutingInvariant, PTL DEF ManagedSpec, ImplementsAlertRouting, Routing!Spec

=============================================================================
