------------------------ MODULE IntelDeliveryProofs ------------------------
(***************************************************************************)
(* Safety of intel-deliveries for any number of deliveries, channels,     *)
(* entries, groups and sessions.                                           *)
(***************************************************************************)
EXTENDS IntelDelivery, SequenceTheorems, FiniteSetTheorems, TLAPS

AnyStatus == ActiveStatus \cup EndedStatus

\* At most one of the attempts xs is active.
SingleActive(xs) == \A m, n \in 1..Len(xs) : (Active(xs[m]) /\ Active(xs[n])) => m = n

\* No attempt is forgotten, none comes back.
NoneRevived(xs, ys) ==
    /\ Len(xs) <= Len(ys)
    /\ \A n \in 1..Len(xs) : Active(ys[n]) => Active(xs[n])

\* A delivery goes from state ds with attempts xs to state es with attempts ys in an orderly way.
Orderly(ds, xs, es, ys) ==
    /\ NoneRevived(xs, ys)
    /\ SingleActive(xs) => SingleActive(ys)
    /\ (ds # "active" => ~HasActive(xs)) => (es # "active" => ~HasActive(ys))

-----------------------------------------------------------------------------
(* Single attempts and their sequences.                                    *)

\* The status update keeps the channel of an attempt.
LEMMA AnnounceAttempt ==
  ASSUME NEW a \in Attempt, NEW st \in AnyStatus
  PROVE  /\ Announce(a, st) \in Attempt
         /\ Announce(a, st).status = st /\ Announce(a, st).channel = a.channel
  BY DEF Announce, Attempt, AnyStatus

\* A new attempt is an active one.
LEMMA NewAttemptType ==
  ASSUME NEW c \in Channels PROVE NewAttempt(c) \in Attempt /\ Active(NewAttempt(c))
  BY DEF NewAttempt, Attempt, Active, ActiveStatus

\* Active and ended are different.
LEMMA EndedIsNotActive ==
  ASSUME NEW a, a.status \in EndedStatus \cup {"deleted"} PROVE ~Active(a)
  BY DEF Active, ActiveStatus, EndedStatus

\* A function on the numbers of the attempts is a sequence of the same length.
LEMMA SameLength ==
  ASSUME NEW xs \in Seq(Attempt), NEW ys \in [1..Len(xs) -> Attempt]
  PROVE  ys \in Seq(Attempt) /\ Len(ys) = Len(xs)
  <1>1. Len(xs) \in Nat
    BY LenProperties
  <1>2. ys \in Seq(Attempt)
    BY <1>1, SeqDef
  <1>3. DOMAIN ys = 1..Len(xs) /\ DOMAIN ys = 1..Len(ys) /\ Len(ys) \in Nat
    BY <1>2, LenProperties
  <1> QED
    BY ONLY <1>1, <1>2, <1>3

\* Attempts that are only moved on, with none revived, stay in order.
LEMMA OrderlyUpdate ==
  ASSUME NEW xs \in Seq(Attempt), NEW ys \in Seq(Attempt), NEW ds, NEW es,
         Len(ys) = Len(xs),
         \A n \in 1..Len(xs) : Active(ys[n]) => Active(xs[n]),
         es # "active" => (ds # "active" \/ ~HasActive(ys))
  PROVE  Orderly(ds, xs, es, ys)
  <1>1. Len(xs) \in Nat
    BY LenProperties
  <1>2. Len(xs) <= Len(ys)
    BY <1>1
  <1>2a. NoneRevived(xs, ys)
    BY <1>2 DEF NoneRevived
  <1>3. SingleActive(xs) => SingleActive(ys)
    BY DEF SingleActive
  <1>4. HasActive(ys) => HasActive(xs)
    BY DEF HasActive
  <1> QED
    BY <1>2a, <1>3, <1>4 DEF Orderly

\* So do attempts to which a first active one is added.
LEMMA OrderlyAppend ==
  ASSUME NEW xs \in Seq(Attempt), NEW c \in Channels, NEW ds, ~HasActive(xs)
  PROVE  /\ Append(xs, NewAttempt(c)) \in Seq(Attempt)
         /\ Orderly(ds, xs, "active", Append(xs, NewAttempt(c)))
  <1> DEFINE ys == Append(xs, NewAttempt(c))
  <1>0. NewAttempt(c) \in Attempt
    BY NewAttemptType
  <1>1. /\ ys \in Seq(Attempt) /\ Len(ys) = Len(xs) + 1
        /\ \A n \in 1..Len(xs) : ys[n] = xs[n]
    BY ONLY <1>0, xs \in Seq(Attempt), AppendProperties
  <1>1a. Len(xs) \in Nat
    BY LenProperties
  <1>2. \A n \in 1..Len(xs) : ~Active(ys[n])
    BY <1>1 DEF HasActive
  <1> HIDE DEF ys
  <1>2a. Len(xs) <= Len(ys)
    BY <1>1, <1>1a
  <1>3. NoneRevived(xs, ys)
    BY <1>2, <1>2a DEF NoneRevived
  <1>4. SingleActive(ys)
    <2>1. ASSUME NEW n \in 1..Len(ys), Active(ys[n]) PROVE n = Len(ys)
      <3>1. n \notin 1..Len(xs)
        BY <1>2, <2>1
      <3> QED
        BY ONLY <3>1, <1>1, <1>1a, n \in 1..Len(ys)
    <2> QED
      BY <2>1 DEF SingleActive
  <1>5. Orderly(ds, xs, "active", ys)
    BY <1>3, <1>4 DEF Orderly
  <1> QED
    BY <1>1, <1>5 DEF ys

\* Two orderly steps are one.
LEMMA OrderlyTwice ==
  ASSUME NEW xs \in Seq(Attempt), NEW ys \in Seq(Attempt), NEW zs \in Seq(Attempt), NEW d1, NEW d2, NEW d3,
         Orderly(d1, xs, d2, ys), Orderly(d2, ys, d3, zs)
  PROVE  Orderly(d1, xs, d3, zs)
  <1>1. Len(xs) \in Nat /\ Len(ys) \in Nat /\ Len(zs) \in Nat
    BY LenProperties
  <1>2. NoneRevived(xs, zs)
    <2>1. Len(xs) <= Len(ys) /\ Len(ys) <= Len(zs)
      BY DEF Orderly, NoneRevived
    <2>2. Len(xs) <= Len(zs) /\ \A n \in 1..Len(xs) : n \in 1..Len(ys)
      BY ONLY <1>1, <2>1
    <2> QED
      BY <2>2 DEF Orderly, NoneRevived
  <1> QED
    BY <1>2 DEF Orderly

\* Changing one attempt to status st, and the delivery's other attempts not at all.
LEMMA UpdateOne ==
  ASSUME NEW xs \in Seq(Attempt), NEW n \in 1..Len(xs), NEW a \in Attempt, Active(a) => Active(xs[n]),
         NEW ds
  PROVE  /\ [xs EXCEPT ![n] = a] \in Seq(Attempt)
         /\ Orderly(ds, xs, ds, [xs EXCEPT ![n] = a])
  <1> DEFINE ys == [xs EXCEPT ![n] = a]
  <1>1. /\ ys \in Seq(Attempt) /\ Len(ys) = Len(xs)
        /\ \A j \in 1..Len(xs) : ys[j] = IF j = n THEN a ELSE xs[j]
    BY ONLY xs \in Seq(Attempt), n \in 1..Len(xs), a \in Attempt, ExceptSeq
  <1> HIDE DEF ys
  <1>2. \A j \in 1..Len(xs) : Active(ys[j]) => Active(xs[j])
    BY <1>1
  <1>3. ds # "active" => (ds # "active" \/ ~HasActive(ys))
    OBVIOUS
  <1>4. Orderly(ds, xs, ds, ys)
    BY <1>1, <1>2, <1>3, OrderlyUpdate
  <1> QED
    BY <1>1, <1>4 DEF ys

-----------------------------------------------------------------------------
(* Looking after deliveries.                                               *)

\* handleTimedOutDeliveryAttempts ends attempts and starts none.
LEMMA TimeOutOrderly ==
  ASSUME NEW xs \in Seq(Attempt), NEW ds
  PROVE  TimeOut(xs) \in Seq(Attempt) /\ Orderly(ds, xs, ds, TimeOut(xs))
  <1> DEFINE ys == TimeOut(xs)
  <1>1. Len(xs) \in Nat /\ \A n \in 1..Len(xs) : xs[n] \in Attempt
    BY LenProperties, ElementOfSeq
  <1>2. \A n \in 1..Len(xs) : ys[n] = xs[n] \/ ys[n] = Announce(xs[n], "timeout")
    BY DEF TimeOut
  <1>3. \A n \in 1..Len(xs) : ys[n] \in Attempt
    BY <1>1, <1>2, AnnounceAttempt DEF AnyStatus, EndedStatus
  <1>4. ys \in [1..Len(xs) -> Attempt]
    BY <1>3 DEF TimeOut
  <1>5. ys \in Seq(Attempt) /\ Len(ys) = Len(xs)
    BY <1>4, SameLength
  <1>6. \A n \in 1..Len(xs) : Active(ys[n]) => Active(xs[n])
    <2> SUFFICES ASSUME NEW n \in 1..Len(xs), ys[n] = Announce(xs[n], "timeout")
                 PROVE  ~Active(ys[n])
      BY <1>2
    <2>1. ys[n].status = "timeout"
      BY <1>1, AnnounceAttempt DEF AnyStatus, EndedStatus
    <2> QED
      BY <2>1, EndedIsNotActive DEF EndedStatus
  <1> HIDE DEF ys
  <1>7. ds # "active" => (ds # "active" \/ ~HasActive(ys))
    OBVIOUS
  <1>8. Orderly(ds, xs, ds, ys)
    BY <1>5, <1>6, <1>7, OrderlyUpdate
  <1> QED
    BY <1>5, <1>8 DEF ys

\* A delivery without an active attempt may be closed.
LEMMA OrderlyClose ==
  ASSUME NEW xs \in Seq(Attempt), NEW ds, NEW es, ~HasActive(xs)
  PROVE  Orderly(ds, xs, es, xs)
  <1>1. es # "active" => (ds # "active" \/ ~HasActive(xs))
    OBVIOUS
  <1> QED
    BY <1>1, OrderlyUpdate

\* lookAfterDelivery, for any set of deliveries and whatever else its transaction has changed.
LEMMA LookAfterOrderly ==
  ASSUME IntelDeliveryAssumption, NEW D \in SUBSET Deliveries,
         NEW ds \in [Deliveries -> DeliveryState], NEW xs \in [Deliveries -> Seq(Attempt)],
         NEW zs, LookAfter(D, ds, xs, zs)
  PROVE  /\ deliveries' \in [Deliveries -> DeliveryState]
         /\ attempts' \in [Deliveries -> Seq(Attempt)]
         /\ \A d \in Deliveries : Orderly(ds[d], xs[d], deliveries'[d], attempts'[d])
  <1> DEFINE timed == [d \in Deliveries |-> IF d \in D /\ ds[d] = "active" THEN TimeOut(xs[d]) ELSE xs[d]]
             waiting == { d \in D : ds[d] = "active" /\ ~HasActive(timed[d]) /\ To[d] \in auto }
             failing == { d \in waiting : NextChannels(d, timed[d], zs) = {} }
  <1>1. deliveries' = [d \in Deliveries |-> IF d \in failing THEN "failed" ELSE ds[d]]
    BY DEF LookAfter
  <1>2. PICK next \in [waiting \ failing -> Channels] :
           attempts' = [d \in Deliveries |->
                IF d \in waiting \ failing THEN Append(timed[d], NewAttempt(next[d])) ELSE timed[d]]
    BY DEF LookAfter
  <1>3. \A d \in Deliveries : timed[d] \in Seq(Attempt) /\ Orderly(ds[d], xs[d], ds[d], timed[d])
    <2> SUFFICES ASSUME NEW d \in Deliveries
                 PROVE  timed[d] \in Seq(Attempt) /\ Orderly(ds[d], xs[d], ds[d], timed[d])
      OBVIOUS
    <2>1. CASE d \in D /\ ds[d] = "active"
      BY <2>1, TimeOutOrderly
    <2>2. CASE ~(d \in D /\ ds[d] = "active")
      <3>1. timed[d] = xs[d] /\ xs[d] \in Seq(Attempt)
        BY <2>2
      <3>2. Orderly(ds[d], xs[d], ds[d], xs[d])
        <4>1. ds[d] # "active" => (ds[d] # "active" \/ ~HasActive(xs[d]))
          OBVIOUS
        <4> HIDE DEF timed
        <4> QED
          BY <3>1, <4>1, OrderlyUpdate
      <3> QED
        BY <3>1, <3>2
    <2> QED
      BY <2>1, <2>2
  <1>4. \A d \in waiting : ds[d] = "active" /\ ~HasActive(timed[d])
    OBVIOUS
  <1>5. failing \subseteq waiting /\ waiting \subseteq Deliveries
    OBVIOUS
  <1> HIDE DEF timed, waiting, failing
  <1>6. deliveries' \in [Deliveries -> DeliveryState]
    BY <1>1 DEF DeliveryState
  <1>7. \A d \in Deliveries : attempts'[d] \in Seq(Attempt) /\ Orderly(ds[d], timed[d], deliveries'[d], attempts'[d])
    <2> SUFFICES ASSUME NEW d \in Deliveries
                 PROVE  attempts'[d] \in Seq(Attempt) /\ Orderly(ds[d], timed[d], deliveries'[d], attempts'[d])
      OBVIOUS
    <2>0. timed[d] \in Seq(Attempt)
      BY <1>3
    <2>1. CASE d \in failing
      <3>1. attempts'[d] = timed[d] /\ ~HasActive(timed[d])
        BY <2>1, <1>2, <1>4, <1>5
      <3> QED
        BY <3>1, <2>0, OrderlyClose
    <2>2. CASE d \in waiting \ failing
      <3>1. /\ attempts'[d] = Append(timed[d], NewAttempt(next[d])) /\ next[d] \in Channels
            /\ deliveries'[d] = "active" /\ ~HasActive(timed[d])
        BY <2>2, <1>1, <1>2, <1>4, <1>5
      <3> QED
        BY <3>1, <2>0, OrderlyAppend
    <2>3. CASE d \notin waiting
      <3>1. attempts'[d] = timed[d] /\ deliveries'[d] = ds[d]
        BY <2>3, <1>1, <1>2, <1>5
      <3>2. ds[d] # "active" => (ds[d] # "active" \/ ~HasActive(timed[d]))
        OBVIOUS
      <3>3. Orderly(ds[d], timed[d], ds[d], timed[d])
        BY <2>0, <3>2, OrderlyUpdate
      <3> QED
        BY <3>1, <3>3, <2>0
    <2> QED
      BY <2>1, <2>2, <2>3
  <1>8. attempts' \in [Deliveries -> Seq(Attempt)]
    BY <1>2, <1>7
  <1>9. ASSUME NEW d \in Deliveries PROVE Orderly(ds[d], xs[d], deliveries'[d], attempts'[d])
    <2>1. xs[d] \in Seq(Attempt) /\ timed[d] \in Seq(Attempt) /\ attempts'[d] \in Seq(Attempt)
      BY <1>3, <1>7
    <2> QED
      BY <2>1, <1>3, <1>7, OrderlyTwice
  <1> QED
    BY <1>6, <1>8, <1>9

-----------------------------------------------------------------------------
(* The operations.                                                         *)

\* What every step does to the deliveries and their attempts.
OrderlyStep ==
    /\ deliveries' \in [Deliveries -> DeliveryState]
    /\ attempts' \in [Deliveries -> Seq(Attempt)]
    /\ \A d \in Deliveries : Orderly(deliveries[d], attempts[d], deliveries'[d], attempts'[d])

\* Nothing happens to a delivery.
LEMMA OrderlyStutter ==
  ASSUME NEW xs \in Seq(Attempt), NEW ds PROVE Orderly(ds, xs, ds, xs)
  <1>1. ds # "active" => (ds # "active" \/ ~HasActive(xs))
    OBVIOUS
  <1> QED
    BY <1>1, OrderlyUpdate

\* An operation on the attempts of one delivery, which stays in its state.
LEMMA OneDelivery ==
  ASSUME DeliveryTypeOK, NEW d \in Deliveries, NEW ys \in Seq(Attempt), NEW st \in DeliveryState,
         Orderly(deliveries[d], attempts[d], st, ys),
         deliveries' = [deliveries EXCEPT ![d] = st], attempts' = [attempts EXCEPT ![d] = ys]
  PROVE  OrderlyStep
  <1>1. deliveries' \in [Deliveries -> DeliveryState] /\ attempts' \in [Deliveries -> Seq(Attempt)]
    BY DEF DeliveryTypeOK
  <1>2. ASSUME NEW c \in Deliveries
        PROVE  Orderly(deliveries[c], attempts[c], deliveries'[c], attempts'[c])
    <2>0. attempts[c] \in Seq(Attempt)
      BY DEF DeliveryTypeOK
    <2>1. CASE c = d
      <3>1. deliveries'[c] = st /\ attempts'[c] = ys
        BY <2>1 DEF DeliveryTypeOK
      <3> QED
        BY <2>1, <3>1
    <2>2. CASE c # d
      <3>1. deliveries'[c] = deliveries[c] /\ attempts'[c] = attempts[c]
        BY <2>2 DEF DeliveryTypeOK
      <3> QED
        BY <2>0, <3>1, OrderlyStutter
    <2> QED
      BY <2>1, <2>2
  <1> QED
    BY <1>1, <1>2 DEF OrderlyStep

\* An operation that changes deliveries or attempts and looks after some of them at the end.
LEMMA ThenLookAfter ==
  ASSUME IntelDeliveryAssumption, DeliveryTypeOK, NEW D \in SUBSET Deliveries,
         NEW ds \in [Deliveries -> DeliveryState], NEW xs \in [Deliveries -> Seq(Attempt)], NEW zs,
         \A d \in Deliveries : Orderly(deliveries[d], attempts[d], ds[d], xs[d]),
         LookAfter(D, ds, xs, zs)
  PROVE  OrderlyStep
  <1>1. /\ deliveries' \in [Deliveries -> DeliveryState]
        /\ attempts' \in [Deliveries -> Seq(Attempt)]
        /\ \A d \in Deliveries : Orderly(ds[d], xs[d], deliveries'[d], attempts'[d])
    BY LookAfterOrderly
  <1>2. ASSUME NEW d \in Deliveries
        PROVE  Orderly(deliveries[d], attempts[d], deliveries'[d], attempts'[d])
    <2>1. attempts[d] \in Seq(Attempt) /\ xs[d] \in Seq(Attempt) /\ attempts'[d] \in Seq(Attempt)
      BY <1>1 DEF DeliveryTypeOK
    <2> QED
      BY <1>1, <2>1, OrderlyTwice
  <1> QED
    BY <1>1, <1>2 DEF OrderlyStep

LEMMA OrderlyCreateIntel ==
  ASSUME IntelDeliveryAssumption, DeliveryTypeOK, NEW i \in Intels, CreateIntel(i) PROVE OrderlyStep
  <1> DEFINE new == { d \in Deliveries : IntelOf[d] = i }
             ds == [d \in Deliveries |-> IF d \in new THEN "active" ELSE deliveries[d]]
  <1>1. LookAfter(new, ds, attempts, channels) /\ new \in SUBSET Deliveries
    BY DEF CreateIntel
  <1>2. ds \in [Deliveries -> DeliveryState] /\ attempts \in [Deliveries -> Seq(Attempt)]
    BY DEF DeliveryTypeOK, DeliveryState
  <1>3. ASSUME NEW d \in Deliveries PROVE Orderly(deliveries[d], attempts[d], ds[d], attempts[d])
    <2>1. attempts[d] \in Seq(Attempt) /\ (ds[d] # "active" => deliveries[d] # "active")
      BY DEF DeliveryTypeOK
    <2> HIDE DEF ds
    <2> QED
      BY <2>1, OrderlyUpdate
  <1> HIDE DEF ds, new
  <1> QED
    BY <1>1, <1>2, <1>3, ThenLookAfter

LEMMA OrderlyPeriodicCheck ==
  ASSUME IntelDeliveryAssumption, DeliveryTypeOK, PeriodicCheck PROVE OrderlyStep
  <1> DEFINE D == { d \in Deliveries : deliveries[d] = "active" /\ Unlocked(d) }
  <1>1. LookAfter(D, deliveries, attempts, channels) /\ D \in SUBSET Deliveries
    BY DEF PeriodicCheck
  <1>2. deliveries \in [Deliveries -> DeliveryState] /\ attempts \in [Deliveries -> Seq(Attempt)]
    BY DEF DeliveryTypeOK
  <1>3. \A d \in Deliveries : Orderly(deliveries[d], attempts[d], deliveries[d], attempts[d])
    BY <1>2, OrderlyStutter
  <1> HIDE DEF D
  <1> QED
    BY <1>1, <1>2, <1>3, ThenLookAfter

LEMMA OrderlyCreateAttempt ==
  ASSUME DeliveryTypeOK, NEW d \in Deliveries, NEW c \in Channels, CreateIntelDeliveryAttempt(d, c)
  PROVE  OrderlyStep
  <1> DEFINE ys == Append(attempts[d], NewAttempt(c))
  <1>1. /\ ~HasActive(attempts[d]) /\ deliveries[d] = "active"
        /\ attempts' = [attempts EXCEPT ![d] = ys] /\ UNCHANGED deliveries
    BY DEF CreateIntelDeliveryAttempt
  <1>2. attempts[d] \in Seq(Attempt) /\ deliveries' = [deliveries EXCEPT ![d] = "active"]
    BY <1>1 DEF DeliveryTypeOK
  <1>3. ys \in Seq(Attempt) /\ Orderly(deliveries[d], attempts[d], "active", ys)
    BY <1>1, <1>2, OrderlyAppend
  <1> HIDE DEF ys
  <1> QED
    BY <1>1, <1>2, <1>3, OneDelivery DEF DeliveryState

LEMMA OrderlyReport ==
  ASSUME DeliveryTypeOK, NEW d \in Deliveries, NEW n \in Numbers(d),
         UpdateIntelDeliveryAttemptStatusForActive(d, n) \/ TimeoutPasses(d, n)
  PROVE  OrderlyStep
  <1>1. /\ attempts[d] \in Seq(Attempt) /\ n \in 1..Len(attempts[d]) /\ attempts[d][n] \in Attempt
        /\ deliveries[d] \in DeliveryState /\ attempts \in [Deliveries -> Seq(Attempt)]
        /\ deliveries \in [Deliveries -> DeliveryState]
    BY ElementOfSeq DEF DeliveryTypeOK, Numbers
  <1>2. PICK a \in Attempt : attempts' = [attempts EXCEPT ![d] = [attempts[d] EXCEPT ![n] = a]]
    <2>1. CASE UpdateIntelDeliveryAttemptStatusForActive(d, n)
      <3>1. Announce(attempts[d][n], "underway") \in Attempt
        BY <1>1, AnnounceAttempt DEF AnyStatus, ActiveStatus
      <3> QED
        BY <2>1, <3>1, <1>1 DEF UpdateIntelDeliveryAttemptStatusForActive
    <2>2. CASE TimeoutPasses(d, n)
      <3>1. [attempts[d][n] EXCEPT !.due = TRUE] \in Attempt
        BY <1>1 DEF Attempt
      <3> QED
        BY <2>2, <3>1, <1>1 DEF TimeoutPasses
    <2> QED
      BY <2>1, <2>2
  <1>3. Active(attempts[d][n]) /\ UNCHANGED deliveries
    BY DEF UpdateIntelDeliveryAttemptStatusForActive, TimeoutPasses
  <1>4. deliveries' = [deliveries EXCEPT ![d] = deliveries[d]]
    BY <1>1, <1>3
  <1>5. /\ [attempts[d] EXCEPT ![n] = a] \in Seq(Attempt)
        /\ Orderly(deliveries[d], attempts[d], deliveries[d], [attempts[d] EXCEPT ![n] = a])
    BY <1>1, <1>3, UpdateOne
  <1> QED
    BY <1>1, <1>2, <1>4, <1>5, OneDelivery

\* An ended attempt is an attempt that is not active.
LEMMA Ending ==
  ASSUME NEW a \in Attempt, NEW e \in EndedStatus
  PROVE  Announce(a, e) \in Attempt /\ ~Active(Announce(a, e))
  <1>1. e \in AnyStatus
    BY DEF AnyStatus
  <1> QED
    BY <1>1, AnnounceAttempt, EndedIsNotActive

\* Confirming and canceling a delivery end all of its attempts.
LEMMA EndAll ==
  ASSUME DeliveryTypeOK, NEW d \in Deliveries, NEW st \in DeliveryState,
         NEW ys \in [Numbers(d) -> Attempt], \A m \in Numbers(d) : ~Active(ys[m]),
         deliveries' = [deliveries EXCEPT ![d] = st], attempts' = [attempts EXCEPT ![d] = ys]
  PROVE  OrderlyStep
  <1>1. attempts[d] \in Seq(Attempt) /\ ys \in [1..Len(attempts[d]) -> Attempt]
    BY DEF DeliveryTypeOK, Numbers
  <1>2. ys \in Seq(Attempt) /\ Len(ys) = Len(attempts[d])
    BY <1>1, SameLength
  <1>3. ~HasActive(ys) /\ \A n \in 1..Len(attempts[d]) : Active(ys[n]) => Active(attempts[d][n])
    BY <1>2 DEF HasActive, Numbers
  <1>4. Orderly(deliveries[d], attempts[d], st, ys)
    BY <1>1, <1>2, <1>3, OrderlyUpdate
  <1> QED
    BY <1>2, <1>4, OneDelivery

LEMMA OrderlyDelivered ==
  ASSUME DeliveryTypeOK, NEW d \in Deliveries, NEW n, NEW by,
         MarkIntelDeliveryAndAttemptAsDelivered(d, n, by)
  PROVE  OrderlyStep
  <1> DEFINE ys == [m \in Numbers(d) |->
                IF Active(attempts[d][m])
                THEN Announce(attempts[d][m], IF m = n THEN "delivered" ELSE "canceled") ELSE attempts[d][m]]
  <1>1. attempts' = [attempts EXCEPT ![d] = ys] /\ deliveries' = [deliveries EXCEPT ![d] = "delivered"]
    BY DEF MarkIntelDeliveryAndAttemptAsDelivered, DeliveryTypeOK
  <1>2. \A m \in Numbers(d) : attempts[d][m] \in Attempt
    BY ElementOfSeq DEF DeliveryTypeOK, Numbers
  <1>3. \A m \in Numbers(d) : ys[m] \in Attempt /\ ~Active(ys[m])
    BY <1>2, Ending DEF EndedStatus
  <1>4. ys \in [Numbers(d) -> Attempt] /\ "delivered" \in DeliveryState
    BY <1>3 DEF DeliveryState
  <1> HIDE DEF ys
  <1> QED
    BY <1>1, <1>3, <1>4, EndAll

LEMMA OrderlyCancel ==
  ASSUME DeliveryTypeOK, NEW d \in Deliveries, NEW success \in BOOLEAN,
         CancelIntelDeliveryByID(d, success)
  PROVE  OrderlyStep
  <1> DEFINE ys == [m \in Numbers(d) |->
                IF Active(attempts[d][m]) THEN Announce(attempts[d][m], "canceled") ELSE attempts[d][m]]
             st == IF success THEN "delivered" ELSE "canceled"
  <1>1. attempts' = [attempts EXCEPT ![d] = ys] /\ deliveries' = [deliveries EXCEPT ![d] = st]
    BY DEF CancelIntelDeliveryByID, DeliveryTypeOK
  <1>2. \A m \in Numbers(d) : attempts[d][m] \in Attempt
    BY ElementOfSeq DEF DeliveryTypeOK, Numbers
  <1>3. \A m \in Numbers(d) : ys[m] \in Attempt /\ ~Active(ys[m])
    BY <1>2, Ending DEF EndedStatus
  <1>4. ys \in [Numbers(d) -> Attempt] /\ st \in DeliveryState
    BY <1>3 DEF DeliveryState
  <1> HIDE DEF ys, st
  <1> QED
    BY <1>1, <1>3, <1>4, EndAll

LEMMA OrderlyFailed ==
  ASSUME IntelDeliveryAssumption, DeliveryTypeOK, NEW d \in Deliveries, NEW n \in Numbers(d),
         MarkIntelDeliveryAttemptAsFailed(d, n)
  PROVE  OrderlyStep
  <1> DEFINE a == Announce(attempts[d][n], "failed")
             ys == [attempts[d] EXCEPT ![n] = a]
             xs == [attempts EXCEPT ![d] = ys]
  <1>1. /\ attempts[d] \in Seq(Attempt) /\ n \in 1..Len(attempts[d]) /\ attempts[d][n] \in Attempt
        /\ attempts \in [Deliveries -> Seq(Attempt)] /\ deliveries \in [Deliveries -> DeliveryState]
    BY ElementOfSeq DEF DeliveryTypeOK, Numbers
  <1>2. a \in Attempt /\ Active(attempts[d][n])
    BY <1>1, AnnounceAttempt DEF AnyStatus, EndedStatus, MarkIntelDeliveryAttemptAsFailed
  <1>3. xs = [attempts EXCEPT ![d][n] = Announce(@, "failed")]
    BY <1>1
  <1>4. LookAfter({d}, deliveries, xs, channels)
    BY <1>3 DEF MarkIntelDeliveryAttemptAsFailed
  <1> HIDE DEF a
  <1>5. ys \in Seq(Attempt) /\ Orderly(deliveries[d], attempts[d], deliveries[d], ys)
    BY <1>1, <1>2, UpdateOne
  <1> HIDE DEF ys
  <1>6. ASSUME NEW c \in Deliveries
        PROVE  xs[c] \in Seq(Attempt) /\ Orderly(deliveries[c], attempts[c], deliveries[c], xs[c])
    <2>1. attempts[c] \in Seq(Attempt) /\ (c = d => xs[c] = ys) /\ (c # d => xs[c] = attempts[c])
      BY <1>1
    <2> HIDE DEF xs
    <2> QED
      BY <2>1, <1>5, OrderlyStutter
  <1>7. xs \in [Deliveries -> Seq(Attempt)]
    BY <1>1, <1>5
  <1> HIDE DEF xs
  <1> QED
    BY <1>1, <1>4, <1>6, <1>7, ThenLookAfter

\* Attempts on deleted channels end.
LEMMA DeletedOrderly ==
  ASSUME DeliveryTypeOK, NEW s \in Sessions
  PROVE  /\ AttemptsDeleted(s) \in [Deliveries -> Seq(Attempt)]
         /\ \A d \in Deliveries : Orderly(deliveries[d], attempts[d], deliveries[d], AttemptsDeleted(s)[d])
  <1> SUFFICES ASSUME NEW d \in Deliveries
               PROVE  /\ AttemptsDeleted(s)[d] \in Seq(Attempt)
                      /\ Orderly(deliveries[d], attempts[d], deliveries[d], AttemptsDeleted(s)[d])
    BY DEF AttemptsDeleted
  <1> DEFINE ys == AttemptsDeleted(s)[d]
  <1>1. attempts[d] \in Seq(Attempt) /\ \A n \in Numbers(d) : attempts[d][n] \in Attempt
    BY ElementOfSeq DEF DeliveryTypeOK, Numbers
  <1>2. \A n \in Numbers(d) :
            \/ ys[n] = attempts[d][n]
            \/ ys[n] = [attempts[d][n] EXCEPT !.status = "deleted"]
            \/ ys[n] = [Announce(attempts[d][n], "canceled") EXCEPT !.status = "deleted"]
    BY DEF AttemptsDeleted
  <1>3. ASSUME NEW n \in Numbers(d)
        PROVE  ys[n] \in Attempt /\ (Active(ys[n]) => Active(attempts[d][n]))
    <2>0. attempts[d][n] \in Attempt /\ Announce(attempts[d][n], "canceled") \in Attempt
      BY <1>1, AnnounceAttempt DEF AnyStatus, EndedStatus
    <2> HIDE DEF ys
    <2>1. CASE ys[n] = attempts[d][n]
      BY <2>0, <2>1
    <2>2. CASE ys[n] # attempts[d][n]
      <3>1. PICK a \in Attempt : ys[n] = [a EXCEPT !.status = "deleted"]
        BY <1>2, <2>0, <2>2
      <3>2. ys[n] \in Attempt /\ ys[n].status = "deleted"
        BY <3>1 DEF Attempt
      <3> QED
        BY <3>2, EndedIsNotActive
    <2> QED
      BY <2>1, <2>2
  <1>4. ys \in [1..Len(attempts[d]) -> Attempt]
    BY <1>3 DEF AttemptsDeleted, Numbers
  <1> HIDE DEF ys
  <1>5. ys \in Seq(Attempt) /\ Len(ys) = Len(attempts[d])
    BY <1>1, <1>4, SameLength
  <1>6. deliveries[d] # "active" => (deliveries[d] # "active" \/ ~HasActive(ys))
    OBVIOUS
  <1>7. Orderly(deliveries[d], attempts[d], deliveries[d], ys)
    BY <1>1, <1>3, <1>5, <1>6, OrderlyUpdate DEF Numbers
  <1> QED
    BY <1>5, <1>7 DEF ys

LEMMA OrderlyUpdateChannels ==
  ASSUME IntelDeliveryAssumption, DeliveryTypeOK, NEW s \in Sessions, NEW new \in SUBSET Channels,
         UpdateChannelsByEntry(s, new)
  PROVE  OrderlyStep
  <1>1. LookAfter(sessions[s].affected, deliveries, AttemptsDeleted(s), channels')
    BY DEF UpdateChannelsByEntry
  <1>2. sessions[s].affected \in SUBSET Deliveries /\ deliveries \in [Deliveries -> DeliveryState]
    BY DEF DeliveryTypeOK, Session
  <1> QED
    BY <1>1, <1>2, DeletedOrderly, ThenLookAfter

LEMMA OrderlyDelete ==
  ASSUME DeliveryTypeOK, NEW s \in Sessions, DeleteAddressBookEntry(s) PROVE OrderlyStep
  <1> DEFINE E == ClosedTo(sessions[s].entry)
  <1>1. /\ deliveries' = [d \in Deliveries |-> IF d \in E THEN "deleted" ELSE deliveries[d]]
        /\ UNCHANGED attempts
    BY DEF DeleteAddressBookEntry
  <1>2. \A d \in E : deliveries[d] # "active"
    BY DEF ClosedTo, ClosedState
  <1> HIDE DEF E
  <1>3. ASSUME NEW d \in Deliveries
        PROVE  Orderly(deliveries[d], attempts[d], deliveries'[d], attempts'[d])
    <2>1. /\ attempts[d] \in Seq(Attempt) /\ attempts'[d] = attempts[d]
          /\ deliveries'[d] # "active" => deliveries[d] # "active"
      BY <1>1, <1>2 DEF DeliveryTypeOK
    <2> QED
      BY <2>1, OrderlyUpdate
  <1>4. deliveries' \in [Deliveries -> DeliveryState] /\ attempts' \in [Deliveries -> Seq(Attempt)]
    BY <1>1 DEF DeliveryTypeOK, DeliveryState
  <1> QED
    BY <1>3, <1>4 DEF OrderlyStep

\* Everything else leaves deliveries and attempts alone.
LEMMA OrderlyUnchanged ==
  ASSUME DeliveryTypeOK, UNCHANGED <<deliveries, attempts>> PROVE OrderlyStep
  <1>1. deliveries \in [Deliveries -> DeliveryState] /\ attempts \in [Deliveries -> Seq(Attempt)]
    BY DEF DeliveryTypeOK
  <1>2. \A d \in Deliveries : Orderly(deliveries[d], attempts[d], deliveries'[d], attempts'[d])
    BY <1>1, OrderlyStutter
  <1> QED
    BY <1>1, <1>2 DEF OrderlyStep

-----------------------------------------------------------------------------
(* The other tables.                                                       *)

OtherTypes ==
    /\ channels \in [Channels -> {"fresh", "live", "gone"}]
    /\ entries \subseteq Entries /\ groups \subseteq Groups /\ auto \subseteq Entries
    /\ sessions \in [Sessions -> Session]
    /\ faults \in 0..MaxFaults

LEMMA SessionReset == IntelDeliveryAssumption => NoSession \in Session
  BY DEF IntelDeliveryAssumption, NoSession, Session

LEMMA OtherUnchanged ==
  ASSUME DeliveryTypeOK, UNCHANGED <<channels, entries, groups, auto, sessions, faults>>
  PROVE  OtherTypes'
  BY DEF DeliveryTypeOK, OtherTypes

LEMMA OtherSetList ==
  ASSUME DeliveryTypeOK, NEW E \in SUBSET Entries, SetAddressBookEntriesWithAutoDeliveryEnabled(E)
  PROVE  OtherTypes' /\ OrderlyStep
  <1>1. OtherTypes'
    BY DEF DeliveryTypeOK, OtherTypes, SetAddressBookEntriesWithAutoDeliveryEnabled
  <1>2. UNCHANGED <<deliveries, attempts>>
    BY DEF SetAddressBookEntriesWithAutoDeliveryEnabled
  <1> QED
    BY <1>1, <1>2, OrderlyUnchanged

LEMMA OtherBegin ==
  ASSUME DeliveryTypeOK, NEW s \in Sessions, NEW e \in Entries, NEW step \in {"lock", "delete"},
         NEW old \in SUBSET Channels, Begin(s, e, step, old)
  PROVE  OtherTypes' /\ OrderlyStep
  <1>1. [step |-> step, entry |-> e, old |-> old, affected |-> {}] \in Session
    BY DEF Session
  <1>2. sessions' \in [Sessions -> Session]
    BY <1>1 DEF DeliveryTypeOK, Begin
  <1>3. OtherTypes' /\ UNCHANGED <<deliveries, attempts>>
    BY <1>2 DEF DeliveryTypeOK, OtherTypes, Begin
  <1> QED
    BY <1>3, OrderlyUnchanged

LEMMA OtherRetrieve ==
  ASSUME DeliveryTypeOK, NEW s \in Sessions, NEW e \in Entries,
         RetrieveOldChannels(s, e) \/ CheckNoActiveDeliveries(s, e)
  PROVE  OtherTypes' /\ OrderlyStep
  <1>1. CASE RetrieveOldChannels(s, e)
    <2>1. ChannelsOf(e) \in SUBSET Channels /\ Begin(s, e, "lock", ChannelsOf(e))
      BY <1>1 DEF RetrieveOldChannels, ChannelsOf
    <2> QED
      BY <2>1, OtherBegin
  <1>2. CASE CheckNoActiveDeliveries(s, e)
    <2>1. {} \in SUBSET Channels /\ Begin(s, e, "delete", {})
      BY <1>2 DEF CheckNoActiveDeliveries
    <2> QED
      BY <2>1, OtherBegin
  <1> QED
    BY <1>1, <1>2

LEMMA OtherLock ==
  ASSUME DeliveryTypeOK, NEW s \in Sessions, LockActiveAttempts(s) PROVE OtherTypes' /\ OrderlyStep
  <1>1. ActiveOnOldChannel(s) \in SUBSET Deliveries
    BY DEF ActiveOnOldChannel
  <1>2. [sessions[s] EXCEPT !.step = "update", !.affected = ActiveOnOldChannel(s)] \in Session
    BY <1>1 DEF DeliveryTypeOK, Session
  <1>3. sessions' \in [Sessions -> Session]
    BY <1>2 DEF DeliveryTypeOK, LockActiveAttempts
  <1>4. OtherTypes' /\ UNCHANGED <<deliveries, attempts>>
    BY <1>3 DEF DeliveryTypeOK, OtherTypes, LockActiveAttempts
  <1> QED
    BY <1>4, OrderlyUnchanged

LEMMA OtherRollback ==
  ASSUME IntelDeliveryAssumption, DeliveryTypeOK, NEW s \in Sessions, RollbackSession(s)
  PROVE  OtherTypes' /\ OrderlyStep
  <1>1. sessions' \in [Sessions -> Session]
    BY SessionReset DEF DeliveryTypeOK, RollbackSession
  <1>2. faults' \in 0..MaxFaults
    BY DEF IntelDeliveryAssumption, DeliveryTypeOK, RollbackSession
  <1>3. UNCHANGED <<deliveries, attempts, channels, entries, groups, auto>>
    BY DEF RollbackSession
  <1>4. OtherTypes'
    BY <1>1, <1>2, <1>3 DEF DeliveryTypeOK, OtherTypes
  <1> QED
    BY <1>3, <1>4, OrderlyUnchanged

LEMMA OtherUpdateChannels ==
  ASSUME IntelDeliveryAssumption, DeliveryTypeOK, NEW s \in Sessions, NEW new \in SUBSET Channels,
         UpdateChannelsByEntry(s, new)
  PROVE  OtherTypes'
  <1>1. sessions' \in [Sessions -> Session]
    BY SessionReset DEF DeliveryTypeOK, UpdateChannelsByEntry
  <1>2. channels' \in [Channels -> {"fresh", "live", "gone"}]
    BY DEF DeliveryTypeOK, UpdateChannelsByEntry, ChannelsReplaced
  <1>3. UNCHANGED <<entries, groups, auto, faults>>
    BY DEF UpdateChannelsByEntry
  <1> QED
    BY <1>1, <1>2, <1>3 DEF DeliveryTypeOK, OtherTypes

LEMMA OtherDelete ==
  ASSUME IntelDeliveryAssumption, DeliveryTypeOK, NEW s \in Sessions, DeleteAddressBookEntry(s)
  PROVE  OtherTypes'
  <1>1. sessions' \in [Sessions -> Session]
    BY SessionReset DEF DeliveryTypeOK, DeleteAddressBookEntry
  <1>2. channels' \in [Channels -> {"fresh", "live", "gone"}]
    BY DEF DeliveryTypeOK, DeleteAddressBookEntry
  <1>3. entries' \subseteq Entries /\ auto' \subseteq Entries /\ UNCHANGED <<groups, faults>>
    BY DEF DeliveryTypeOK, DeleteAddressBookEntry
  <1> QED
    BY <1>1, <1>2, <1>3 DEF DeliveryTypeOK, OtherTypes

LEMMA OtherDeleteGroup ==
  ASSUME DeliveryTypeOK, NEW g \in Groups, DeleteGroupByID(g) PROVE OtherTypes' /\ OrderlyStep
  <1>1. channels' \in [Channels -> {"fresh", "live", "gone"}]
    BY DEF DeliveryTypeOK, DeleteGroupByID
  <1>2. groups' \subseteq Groups /\ UNCHANGED <<deliveries, attempts, entries, auto, sessions, faults>>
    BY DEF DeliveryTypeOK, DeleteGroupByID
  <1>3. OtherTypes'
    BY <1>1, <1>2 DEF DeliveryTypeOK, OtherTypes
  <1> QED
    BY <1>2, <1>3, OrderlyUnchanged

\* Every step is orderly.
LEMMA NextOrderly ==
  ASSUME IntelDeliveryAssumption, DeliveryTypeOK, DeliveryNext PROVE OtherTypes' /\ OrderlyStep
  <1>1. CASE \E i \in Intels : CreateIntel(i)
    BY <1>1, OrderlyCreateIntel, OtherUnchanged DEF CreateIntel
  <1>2. CASE PeriodicCheck
    BY <1>2, OrderlyPeriodicCheck, OtherUnchanged DEF PeriodicCheck
  <1>3. CASE \E d \in Deliveries, c \in Channels : CreateIntelDeliveryAttempt(d, c)
    BY <1>3, OrderlyCreateAttempt, OtherUnchanged DEF CreateIntelDeliveryAttempt
  <1>4. CASE \E d \in Deliveries, success \in BOOLEAN : CancelIntelDeliveryByID(d, success)
    BY <1>4, OrderlyCancel, OtherUnchanged DEF CancelIntelDeliveryByID
  <1>5. CASE \E d \in Deliveries : \E n \in Numbers(d) :
                UpdateIntelDeliveryAttemptStatusForActive(d, n) \/ TimeoutPasses(d, n)
    BY <1>5, OrderlyReport, OtherUnchanged DEF UpdateIntelDeliveryAttemptStatusForActive, TimeoutPasses
  <1>6. CASE \E d \in Deliveries : \E n \in Numbers(d) : MarkIntelDeliveryAttemptAsFailed(d, n)
    BY <1>6, OrderlyFailed, OtherUnchanged DEF MarkIntelDeliveryAttemptAsFailed
  <1>7. CASE \E d \in Deliveries : \E n \in Numbers(d) \cup {0}, by \in Users \cup {NoUser} :
                MarkIntelDeliveryAndAttemptAsDelivered(d, n, by)
    BY <1>7, OrderlyDelivered, OtherUnchanged DEF MarkIntelDeliveryAndAttemptAsDelivered
  <1>8. CASE \E E \in SUBSET Entries : SetAddressBookEntriesWithAutoDeliveryEnabled(E)
    BY <1>8, OtherSetList
  <1>9. CASE \E s \in Sessions, e \in Entries : RetrieveOldChannels(s, e) \/ CheckNoActiveDeliveries(s, e)
    BY <1>9, OtherRetrieve
  <1>10. CASE \E s \in Sessions : SessionNext(s)
    <2>1. PICK s \in Sessions : SessionNext(s)
      BY <1>10
    <2>2. CASE LockActiveAttempts(s)
      BY <2>2, OtherLock
    <2>3. CASE \E new \in SUBSET Channels : UpdateChannelsByEntry(s, new)
      BY <2>3, OtherUpdateChannels, OrderlyUpdateChannels
    <2>4. CASE DeleteAddressBookEntry(s)
      BY <2>4, OtherDelete, OrderlyDelete
    <2>5. CASE RollbackSession(s)
      BY <2>5, OtherRollback
    <2> QED
      BY <2>1, <2>2, <2>3, <2>4, <2>5 DEF SessionNext
  <1>11. CASE \E g \in Groups : DeleteGroupByID(g)
    BY <1>11, OtherDeleteGroup
  <1> QED
    BY <1>1, <1>2, <1>3, <1>4, <1>5, <1>6, <1>7, <1>8, <1>9, <1>10, <1>11 DEF DeliveryNext

LEMMA StepOrderly ==
  ASSUME IntelDeliveryAssumption, DeliveryTypeOK, [DeliveryNext]_deliveryVars
  PROVE  OtherTypes' /\ OrderlyStep
  <1>1. CASE UNCHANGED deliveryVars
    BY <1>1, OrderlyUnchanged, OtherUnchanged DEF deliveryVars
  <1> QED
    BY <1>1, NextOrderly
-----------------------------------------------------------------------------
(* Theorems.                                                               *)

\* Deliveries, attempts, channels and sessions stay well typed.
THEOREM DeliveryTypeCorrect == DeliverySpec => []DeliveryTypeOK
  <1>1. DeliveryInit => DeliveryTypeOK
    <2> SUFFICES ASSUME DeliveryInit PROVE DeliveryTypeOK
      OBVIOUS
    <2>1. deliveries \in [Deliveries -> DeliveryState] /\ attempts \in [Deliveries -> Seq(Attempt)]
      BY EmptySeq DEF DeliveryInit, DeliveryState
    <2>2. sessions \in [Sessions -> Session] /\ faults \in 0..MaxFaults
      BY IntelDeliveryAssumption, SessionReset DEF DeliveryInit, IntelDeliveryAssumption
    <2> QED
      BY <2>1, <2>2 DEF DeliveryInit, DeliveryTypeOK
  <1>2. DeliveryTypeOK /\ [DeliveryNext]_deliveryVars => DeliveryTypeOK'
    <2> SUFFICES ASSUME DeliveryTypeOK, [DeliveryNext]_deliveryVars PROVE DeliveryTypeOK'
      OBVIOUS
    <2>1. OtherTypes' /\ OrderlyStep
      BY IntelDeliveryAssumption, StepOrderly
    <2> QED
      BY <2>1 DEF DeliveryTypeOK, OtherTypes, OrderlyStep
  <1> QED
    BY <1>1, <1>2, PTL DEF DeliverySpec

\* Attempts of one delivery never run in parallel, whoever creates them.
THEOREM OneActiveAttemptCorrect == DeliverySpec => []OneActiveAttempt
  <1> DEFINE Inv == \A d \in Deliveries : SingleActive(attempts[d])
  <1>1. Inv <=> OneActiveAttempt
    BY DEF OneActiveAttempt, SingleActive, Numbers
  <1>2. DeliveryInit => Inv
    BY DEF DeliveryInit, SingleActive
  <1>3. DeliveryTypeOK /\ Inv /\ [DeliveryNext]_deliveryVars => Inv'
    <2> SUFFICES ASSUME DeliveryTypeOK, Inv, [DeliveryNext]_deliveryVars,
                        NEW d \in Deliveries
                 PROVE  SingleActive(attempts'[d])
      BY DEF SingleActive
    <2>1. Orderly(deliveries[d], attempts[d], deliveries'[d], attempts'[d])
      BY IntelDeliveryAssumption, StepOrderly DEF OrderlyStep
    <2> QED
      BY <2>1 DEF Orderly
  <1> HIDE DEF Inv
  <1> QED
    BY <1>1, <1>2, <1>3, DeliveryTypeCorrect, PTL DEF DeliverySpec

\* No attempt is active for a delivery that has ended.
THEOREM ClosedDeliveryCorrect == DeliverySpec => []ClosedDeliveryHasNoActiveAttempt
  <1>1. DeliveryInit => ClosedDeliveryHasNoActiveAttempt
    BY DEF DeliveryInit, ClosedDeliveryHasNoActiveAttempt, HasActive
  <1>2. DeliveryTypeOK /\ ClosedDeliveryHasNoActiveAttempt /\ [DeliveryNext]_deliveryVars
          => ClosedDeliveryHasNoActiveAttempt'
    <2> SUFFICES ASSUME DeliveryTypeOK, ClosedDeliveryHasNoActiveAttempt, [DeliveryNext]_deliveryVars,
                        NEW d \in Deliveries, deliveries'[d] # "active"
                 PROVE  ~HasActive(attempts'[d])
      BY DEF ClosedDeliveryHasNoActiveAttempt
    <2>1. Orderly(deliveries[d], attempts[d], deliveries'[d], attempts'[d])
      BY IntelDeliveryAssumption, StepOrderly DEF OrderlyStep
    <2> QED
      BY <2>1 DEF Orderly, ClosedDeliveryHasNoActiveAttempt
  <1> QED
    BY <1>1, <1>2, DeliveryTypeCorrect, PTL DEF DeliverySpec

\* Late reports do not revive an attempt that has ended.
THEOREM EndedAttemptsCorrect == DeliverySpec => EndedAttemptsStayEnded
  <1>1. DeliveryTypeOK /\ [DeliveryNext]_deliveryVars
          => [\A d \in Deliveries : \A n \in Numbers(d) :
                 ~Active(attempts[d][n]) => ~Active(attempts'[d][n])]_deliveryVars
    <2> SUFFICES ASSUME DeliveryTypeOK, [DeliveryNext]_deliveryVars,
                        NEW d \in Deliveries, NEW n \in Numbers(d), ~Active(attempts[d][n])
                 PROVE  ~Active(attempts'[d][n])
      OBVIOUS
    <2>1. Orderly(deliveries[d], attempts[d], deliveries'[d], attempts'[d])
      BY IntelDeliveryAssumption, StepOrderly DEF OrderlyStep
    <2> QED
      BY <2>1 DEF Orderly, NoneRevived, Numbers
  <1> QED
    BY <1>1, DeliveryTypeCorrect, PTL DEF DeliverySpec, EndedAttemptsStayEnded

-----------------------------------------------------------------------------
(* What looking after a delivery leads to.                                 *)

\* Among finitely many channels, there is one with the highest priority.
LEMMA HighestPriority ==
  ASSUME IsFiniteSet(Channels), Priority \in [Channels -> Nat], NEW T \in SUBSET Channels, T # {}
  PROVE  \E c \in T : \A o \in T : Priority[o] <= Priority[c]
  <1> DEFINE Higher(c) == { o \in T : Priority[o] > Priority[c] }
             H == { Higher(c) : c \in T }
  <1>1. H \subseteq FiniteSubsetsOf(Channels) /\ H # {}
    <2>1. H \subseteq SUBSET Channels /\ H # {}
      BY ZenonT(60)
    <2> QED
      BY <2>1, FS_FiniteSubsetsOfFinite
  <1> HIDE DEF H
  <1>2. PICK h \in H : \A g \in H : <<g, h>> \notin StrictSubsetOrdering(Channels)
    BY <1>1, FS_StrictSubsetOrderingWellFounded, WFMin
  <1>3. PICK c \in T : h = Higher(c)
    BY <1>2 DEF H
  <1>4. ASSUME NEW o \in T PROVE Priority[o] <= Priority[c]
    <2>0. \A e \in T : Priority[e] \in Nat
      OBVIOUS
    <2> SUFFICES ASSUME Priority[o] > Priority[c] PROVE FALSE
      BY <2>0
    <2>1. Higher(o) \subseteq Higher(c) /\ o \in Higher(c) /\ o \notin Higher(o)
      BY <2>0
    <2>2. Higher(o) \in H /\ Higher(o) \subseteq Channels /\ Higher(c) \subseteq Channels
      BY DEF H
    <2> HIDE DEF Higher
    <2> QED
      BY <1>2, <1>3, <2>1, <2>2 DEF StrictSubsetOrdering
  <1> QED
    BY <1>4

\* NextChannelForDeliveryAttempt finds a channel if there is one left.
LEMMA NextChannelFound ==
  ASSUME IntelDeliveryAssumption, IsFiniteSet(Channels), NEW d \in Deliveries, NEW xs, NEW zs,
         NextChannels(d, xs, zs) = {}
  PROVE  UntriedChannels(d, xs, zs) = {}
  <1> DEFINE T == UntriedChannels(d, xs, zs)
  <1>1. T \in SUBSET Channels /\ Priority \in [Channels -> Nat]
    BY DEF IntelDeliveryAssumption, UntriedChannels
  <1>2. ~ \E c \in T : \A o \in T : Priority[o] <= Priority[c]
    BY DEF NextChannels
  <1> HIDE DEF T
  <1>3. T = {}
    BY <1>1, <1>2, HighestPriority
  <1> QED
    BY <1>3 DEF T

\* Every delivery a step gives up, from the states ds, has no channel left.
GivenUpAreExhausted(ds) ==
  \A d \in Deliveries : (deliveries'[d] = "failed" /\ ds[d] # "failed")
                         => UntriedChannels(d, attempts'[d], channels') = {}

\* A delivery that is looked after is given up only if no channel is left.
LEMMA LookAfterGivesUp ==
  ASSUME IntelDeliveryAssumption, IsFiniteSet(Channels), NEW D \in SUBSET Deliveries,
         NEW ds \in [Deliveries -> DeliveryState], NEW xs \in [Deliveries -> Seq(Attempt)],
         LookAfter(D, ds, xs, channels')
  PROVE  GivenUpAreExhausted(ds)
  <1> SUFFICES ASSUME NEW d \in Deliveries, deliveries'[d] = "failed", ds[d] # "failed"
               PROVE  UntriedChannels(d, attempts'[d], channels') = {}
    BY DEF GivenUpAreExhausted
  <1> DEFINE timed == [e \in Deliveries |-> IF e \in D /\ ds[e] = "active" THEN TimeOut(xs[e]) ELSE xs[e]]
             waiting == { e \in D : ds[e] = "active" /\ ~HasActive(timed[e]) /\ To[e] \in auto }
             failing == { e \in waiting : NextChannels(e, timed[e], channels') = {} }
  <1>1. deliveries' = [e \in Deliveries |-> IF e \in failing THEN "failed" ELSE ds[e]]
    BY DEF LookAfter
  <1>2. PICK next \in [waiting \ failing -> Channels] :
           attempts' = [e \in Deliveries |->
                IF e \in waiting \ failing THEN Append(timed[e], NewAttempt(next[e])) ELSE timed[e]]
    BY DEF LookAfter
  <1>3. /\ d \in waiting <=> d \in D /\ ds[d] = "active" /\ ~HasActive(timed[d]) /\ To[d] \in auto
        /\ d \in failing => d \in waiting /\ NextChannels(d, timed[d], channels') = {}
        /\ d \notin D => timed[d] = xs[d]
    OBVIOUS
  <1>4. timed[d] \in Seq(Attempt)
    <2>1. xs[d] \in Seq(Attempt)
      OBVIOUS
    <2> QED
      BY <2>1, TimeOutOrderly
  <1> HIDE DEF timed, waiting, failing
  <1>5. CASE d \in failing
    <2>1. attempts'[d] = timed[d] /\ deliveries'[d] = "failed" /\ d \in D
      BY <1>1, <1>2, <1>3, <1>5
    <2> QED
      BY <1>3, <1>5, <2>1, NextChannelFound
  <1>6. CASE d \notin failing
    BY <1>1, <1>6
  <1> QED
    BY <1>5, <1>6

\* The transaction of every step that closes a delivery for want of a channel.
LEMMA FailsInLookAfter ==
  ASSUME IntelDeliveryAssumption, DeliveryTypeOK, DeliveryNext, NEW d \in Deliveries,
         deliveries[d] # "failed", deliveries'[d] = "failed"
  PROVE  \E D \in SUBSET Deliveries, ds \in [Deliveries -> DeliveryState], xs \in [Deliveries -> Seq(Attempt)] :
            LookAfter(D, ds, xs, channels') /\ ds[d] # "failed"
  <1>0. deliveries \in [Deliveries -> DeliveryState] /\ attempts \in [Deliveries -> Seq(Attempt)]
    BY DEF DeliveryTypeOK
  <1>1. ASSUME NEW i \in Intels, CreateIntel(i)
        PROVE  \E D \in SUBSET Deliveries, ds \in [Deliveries -> DeliveryState], xs \in [Deliveries -> Seq(Attempt)] :
                  LookAfter(D, ds, xs, channels') /\ ds[d] # "failed"
    <2> DEFINE new == { c \in Deliveries : IntelOf[c] = i }
               ds == [c \in Deliveries |-> IF c \in new THEN "active" ELSE deliveries[c]]
    <2>1. LookAfter(new, ds, attempts, channels) /\ channels' = channels /\ new \in SUBSET Deliveries
      BY <1>1 DEF CreateIntel
    <2>2. ds \in [Deliveries -> DeliveryState] /\ ds[d] # "failed"
      BY <1>0 DEF DeliveryState
    <2> HIDE DEF new, ds
    <2> QED
      BY <1>0, <2>1, <2>2
  <1>2. CASE PeriodicCheck
    <2> DEFINE D == { c \in Deliveries : deliveries[c] = "active" /\ Unlocked(c) }
    <2>1. LookAfter(D, deliveries, attempts, channels') /\ D \in SUBSET Deliveries
      BY <1>2 DEF PeriodicCheck
    <2> HIDE DEF D
    <2> QED
      BY <1>0, <2>1
  <1>3. ASSUME NEW e \in Deliveries, NEW n \in Numbers(e), MarkIntelDeliveryAttemptAsFailed(e, n)
        PROVE  \E D \in SUBSET Deliveries, ds \in [Deliveries -> DeliveryState], xs \in [Deliveries -> Seq(Attempt)] :
                  LookAfter(D, ds, xs, channels') /\ ds[d] # "failed"
    <2> DEFINE ys == [attempts[e] EXCEPT ![n] = Announce(attempts[e][n], "failed")]
               xs == [attempts EXCEPT ![e] = ys]
    <2>1. attempts[e] \in Seq(Attempt) /\ n \in 1..Len(attempts[e]) /\ attempts[e][n] \in Attempt
      BY <1>0, <1>3, ElementOfSeq DEF Numbers
    <2>2. Announce(attempts[e][n], "failed") \in Attempt
      BY <2>1, AnnounceAttempt DEF AnyStatus, EndedStatus
    <2>3. ys \in Seq(Attempt)
      BY <2>1, <2>2, ExceptSeq
    <2>4. LookAfter({e}, deliveries, xs, channels')
      BY <1>0, <1>3 DEF MarkIntelDeliveryAttemptAsFailed
    <2> HIDE DEF ys
    <2>5. xs \in [Deliveries -> Seq(Attempt)]
      BY <1>0, <2>3
    <2> HIDE DEF xs
    <2> QED
      BY <1>0, <2>4, <2>5
  <1>4. ASSUME NEW s \in Sessions, NEW new \in SUBSET Channels, UpdateChannelsByEntry(s, new)
        PROVE  \E D \in SUBSET Deliveries, ds \in [Deliveries -> DeliveryState], xs \in [Deliveries -> Seq(Attempt)] :
                  LookAfter(D, ds, xs, channels') /\ ds[d] # "failed"
    <2>1. LookAfter(sessions[s].affected, deliveries, AttemptsDeleted(s), channels')
      BY <1>4 DEF UpdateChannelsByEntry
    <2>2. sessions[s].affected \in SUBSET Deliveries
      BY DEF DeliveryTypeOK, Session
    <2> QED
      BY <1>0, <2>1, <2>2, DeletedOrderly
  <1>5. ASSUME deliveries' = deliveries PROVE FALSE
    BY <1>5
  <1>6. ASSUME NEW e \in Deliveries, NEW c \in Channels, CreateIntelDeliveryAttempt(e, c) PROVE FALSE
    BY <1>5, <1>6 DEF CreateIntelDeliveryAttempt
  <1>7. ASSUME NEW e \in Deliveries, NEW success \in BOOLEAN, CancelIntelDeliveryByID(e, success) PROVE FALSE
    BY <1>0, <1>7 DEF CancelIntelDeliveryByID
  <1>8. ASSUME NEW e \in Deliveries, NEW n \in Numbers(e),
               UpdateIntelDeliveryAttemptStatusForActive(e, n) \/ TimeoutPasses(e, n)
        PROVE  FALSE
    BY <1>5, <1>8 DEF UpdateIntelDeliveryAttemptStatusForActive, TimeoutPasses
  <1>9. ASSUME NEW e \in Deliveries, NEW n, NEW by, MarkIntelDeliveryAndAttemptAsDelivered(e, n, by) PROVE FALSE
    BY <1>0, <1>9 DEF MarkIntelDeliveryAndAttemptAsDelivered
  <1>10. ASSUME NEW E \in SUBSET Entries, SetAddressBookEntriesWithAutoDeliveryEnabled(E) PROVE FALSE
    BY <1>5, <1>10 DEF SetAddressBookEntriesWithAutoDeliveryEnabled
  <1>11. ASSUME NEW s \in Sessions, NEW e \in Entries, RetrieveOldChannels(s, e) \/ CheckNoActiveDeliveries(s, e)
         PROVE  FALSE
    BY <1>5, <1>11 DEF RetrieveOldChannels, CheckNoActiveDeliveries, Begin
  <1>12. ASSUME NEW s \in Sessions, LockActiveAttempts(s) \/ RollbackSession(s) PROVE FALSE
    BY <1>5, <1>12 DEF LockActiveAttempts, RollbackSession
  <1>13. ASSUME NEW s \in Sessions, DeleteAddressBookEntry(s) PROVE FALSE
    BY <1>0, <1>13 DEF DeleteAddressBookEntry
  <1>14. ASSUME NEW g \in Groups, DeleteGroupByID(g) PROVE FALSE
    BY <1>5, <1>14 DEF DeleteGroupByID
  <1> QED
    BY <1>1, <1>2, <1>3, <1>4, <1>6, <1>7, <1>8, <1>9, <1>10, <1>11, <1>12, <1>13, <1>14
       DEF DeliveryNext, SessionNext

\* A delivery is given up only if no channel is left, also among those just created.
THEOREM FailsOnlyWithoutChannelCorrect ==
  ASSUME IsFiniteSet(Channels) PROVE DeliverySpec => FailsOnlyWithoutChannel
  <1>1. DeliveryTypeOK /\ [DeliveryNext]_deliveryVars
          => [\A d \in Deliveries : (deliveries[d] # "failed" /\ deliveries'[d] = "failed") =>
                 UntriedChannels(d, attempts'[d], channels') = {}]_deliveryVars
    <2> SUFFICES ASSUME DeliveryTypeOK, DeliveryNext,
                        NEW d \in Deliveries, deliveries[d] # "failed", deliveries'[d] = "failed"
                 PROVE  UntriedChannels(d, attempts'[d], channels') = {}
      OBVIOUS
    <2>1. PICK D \in SUBSET Deliveries, ds \in [Deliveries -> DeliveryState], xs \in [Deliveries -> Seq(Attempt)] :
             LookAfter(D, ds, xs, channels') /\ ds[d] # "failed"
      BY IntelDeliveryAssumption, FailsInLookAfter
    <2>2. IsFiniteSet(Channels) /\ LookAfter(D, ds, xs, channels') /\ ds[d] # "failed"
      BY <2>1
    <2>3. GivenUpAreExhausted(ds)
      BY <2>2, IntelDeliveryAssumption, LookAfterGivesUp
    <2> QED
      BY <2>2, <2>3 DEF GivenUpAreExhausted
  <1> QED
    BY <1>1, DeliveryTypeCorrect, PTL DEF DeliverySpec, FailsOnlyWithoutChannel
-----------------------------------------------------------------------------
(* Deliveries that a session has locked.                                   *)

\* A session holds deliveries only between locking their attempts and replacing the channels; each of them has
\* an active attempt until then, and no two sessions hold the same.
HeldInv ==
    /\ \A s \in Sessions : sessions[s].affected # {} => sessions[s].step = "update"
    /\ \A s \in Sessions : \A d \in sessions[s].affected : HasActive(attempts[d])
    /\ \A s, t \in Sessions : s # t => sessions[s].affected \cap sessions[t].affected = {}

\* What lookAfterDelivery does to a delivery: nothing if it was not asked to, and if it leaves it active with
\* auto-delivery on, there is an active attempt.
LEMMA LookAfterActive ==
  ASSUME IntelDeliveryAssumption, NEW D \in SUBSET Deliveries,
         NEW ds \in [Deliveries -> DeliveryState], NEW xs \in [Deliveries -> Seq(Attempt)],
         NEW zs, LookAfter(D, ds, xs, zs), NEW d \in Deliveries
  PROVE  /\ d \notin D => attempts'[d] = xs[d]
         /\ d \in D /\ deliveries'[d] = "active" /\ To[d] \in auto => HasActive(attempts'[d])
  <1> DEFINE timed == [e \in Deliveries |-> IF e \in D /\ ds[e] = "active" THEN TimeOut(xs[e]) ELSE xs[e]]
             waiting == { e \in D : ds[e] = "active" /\ ~HasActive(timed[e]) /\ To[e] \in auto }
             failing == { e \in waiting : NextChannels(e, timed[e], zs) = {} }
  <1>1. deliveries' = [e \in Deliveries |-> IF e \in failing THEN "failed" ELSE ds[e]]
    BY DEF LookAfter
  <1>2. PICK next \in [waiting \ failing -> Channels] :
           attempts' = [e \in Deliveries |->
                IF e \in waiting \ failing THEN Append(timed[e], NewAttempt(next[e])) ELSE timed[e]]
    BY DEF LookAfter
  <1>3. timed[d] \in Seq(Attempt)
    BY TimeOutOrderly
  <1>4. d \notin D => timed[d] = xs[d] /\ d \notin waiting
    OBVIOUS
  <1>5. d \in D /\ ds[d] = "active" /\ To[d] \in auto /\ ~HasActive(timed[d]) => d \in waiting
    OBVIOUS
  <1> HIDE DEF timed, waiting, failing
  <1>6. d \notin D => attempts'[d] = xs[d]
    BY <1>2, <1>4
  <1>7. ASSUME d \in D, deliveries'[d] = "active", To[d] \in auto PROVE HasActive(attempts'[d])
    <2>1. d \notin failing /\ ds[d] = "active"
      BY <1>1, <1>7
    <2>2. CASE d \in waiting
      <3>1. attempts'[d] = Append(timed[d], NewAttempt(next[d])) /\ next[d] \in Channels
        BY <1>2, <2>1, <2>2
      <3>2. NewAttempt(next[d]) \in Attempt /\ Active(NewAttempt(next[d]))
        BY <3>1, NewAttemptType
      <3>3. PICK k \in Nat : k = Len(timed[d])
        BY <1>3, LenProperties
      <3>4. Len(attempts'[d]) = k + 1 /\ attempts'[d][k + 1] = NewAttempt(next[d])
        BY <1>3, <3>1, <3>2, <3>3, AppendProperties
      <3>5. k + 1 \in 1..Len(attempts'[d]) /\ Active(attempts'[d][k + 1])
        BY <3>2, <3>3, <3>4
      <3> QED
        BY <3>5 DEF HasActive
    <2>3. CASE d \notin waiting
      BY <1>2, <1>5, <1>7, <2>1, <2>3
    <2> QED
      BY <2>2, <2>3
  <1> QED
    BY <1>6, <1>7

\* It leaves other deliveries' attempts as they were given to it.
LEMMA LookAfterOthers ==
  ASSUME IntelDeliveryAssumption
  PROVE  \A D \in SUBSET Deliveries : \A ds \in [Deliveries -> DeliveryState] :
         \A xs \in [Deliveries -> Seq(Attempt)] : \A zs : LookAfter(D, ds, xs, zs) =>
            \A d \in Deliveries : d \notin D => attempts'[d] = xs[d]
  BY LookAfterActive

\* Another session deletes no active attempt of a delivery that is held.
LEMMA HeldIsNotDeleted ==
  ASSUME DeliveryTypeOK, HeldInv, NEW s \in Sessions, NEW t \in Sessions, s # t, NEW d \in sessions[s].affected,
         \A e \in ActiveOnOldChannel(t) \ sessions[t].affected : Unlocked(e)
  PROVE  HasActive(AttemptsDeleted(t)[d])
  <1>1. d \in Deliveries /\ d \notin sessions[t].affected /\ ~Unlocked(d)
    BY DEF HeldInv, DeliveryTypeOK, Session, Unlocked
  <1>2. PICK n \in Numbers(d) : Active(attempts[d][n])
    BY DEF HeldInv, HasActive, Numbers
  <1>3. ~OnOldChannel(t, attempts[d][n])
    BY <1>1, <1>2 DEF ActiveOnOldChannel
  <1>4. AttemptsDeleted(t)[d] \in [Numbers(d) -> Attempt] /\ AttemptsDeleted(t)[d][n] = attempts[d][n]
    <2>1. AttemptsDeleted(t)[d][n] = attempts[d][n]
      BY <1>1, <1>3 DEF AttemptsDeleted
    <2>2. AttemptsDeleted(t)[d] \in Seq(Attempt) /\ DOMAIN AttemptsDeleted(t)[d] = Numbers(d)
      BY <1>1, DeletedOrderly DEF AttemptsDeleted
    <2>3. PICK zs \in Seq(Attempt) : zs = AttemptsDeleted(t)[d]
      BY <2>2
    <2>4. zs \in [1..Len(zs) -> Attempt]
      BY <2>3, ElementOfSeq
    <2>5. zs \in [Numbers(d) -> Attempt]
      BY <2>2, <2>3, <2>4
    <2> QED
      BY <2>1, <2>3, <2>5
  <1>5. attempts[d] \in Seq(Attempt)
    BY <1>1 DEF DeliveryTypeOK
  <1>6. Len(AttemptsDeleted(t)[d]) = Len(attempts[d])
    BY <1>4, <1>5, SameLength DEF Numbers
  <1> QED
    BY <1>2, <1>4, <1>6 DEF HasActive, Numbers

\* Who else but its session takes a step: a held delivery keeps an active attempt.  Its session gives it up only
\* when it has another one, or none is wanted any more.
LEMMA HeldIsLookedAfter ==
  ASSUME IntelDeliveryAssumption, DeliveryTypeOK, ClosedDeliveryHasNoActiveAttempt, HeldInv, DeliveryNext,
         NEW s \in Sessions, NEW d \in sessions[s].affected
  PROVE  \/ HasActive(attempts'[d])
         \/ d \notin sessions'[s].affected /\ ~(deliveries'[d] = "active" /\ To[d] \in auto)
  <1>1. /\ d \in Deliveries /\ ~Unlocked(d) /\ HasActive(attempts[d]) /\ attempts[d] \in Seq(Attempt)
        /\ deliveries \in [Deliveries -> DeliveryState] /\ attempts \in [Deliveries -> Seq(Attempt)]
    BY DEF HeldInv, DeliveryTypeOK, Session, Unlocked
  <1>2. deliveries[d] = "active"
    BY <1>1 DEF ClosedDeliveryHasNoActiveAttempt
  <1>3. ASSUME attempts'[d] = attempts[d] PROVE HasActive(attempts'[d])
    BY <1>1, <1>3
  <1>4. ASSUME NEW i \in Intels, CreateIntel(i) PROVE HasActive(attempts'[d])
    <2> DEFINE new == { e \in Deliveries : IntelOf[e] = i }
               ds == [e \in Deliveries |-> IF e \in new THEN "active" ELSE deliveries[e]]
    <2>1. LookAfter(new, ds, attempts, channels) /\ d \notin new /\ new \in SUBSET Deliveries
      BY <1>2, <1>4 DEF CreateIntel
    <2>2. ds \in [Deliveries -> DeliveryState]
      BY <1>1 DEF DeliveryState
    <2> HIDE DEF new, ds
    <2>3. attempts'[d] = attempts[d]
      BY <1>1, <2>1, <2>2, IntelDeliveryAssumption, LookAfterOthers
    <2> QED
      BY <1>3, <2>3
  <1>5. CASE PeriodicCheck
    <2> DEFINE D == { e \in Deliveries : deliveries[e] = "active" /\ Unlocked(e) }
    <2>1. LookAfter(D, deliveries, attempts, channels) /\ d \notin D /\ D \in SUBSET Deliveries
      BY <1>1, <1>5 DEF PeriodicCheck
    <2> HIDE DEF D
    <2>2. attempts'[d] = attempts[d]
      BY <1>1, <2>1, IntelDeliveryAssumption, LookAfterOthers
    <2> QED
      BY <1>3, <2>2
  <1>6. ASSUME NEW e \in Deliveries, NEW n \in Numbers(e), MarkIntelDeliveryAttemptAsFailed(e, n)
        PROVE  HasActive(attempts'[d])
    <2> DEFINE ys == [attempts[e] EXCEPT ![n] = Announce(attempts[e][n], "failed")]
               xs == [attempts EXCEPT ![e] = ys]
    <2>1. attempts[e] \in Seq(Attempt) /\ n \in 1..Len(attempts[e]) /\ attempts[e][n] \in Attempt
      BY <1>1, ElementOfSeq DEF Numbers
    <2>2. Announce(attempts[e][n], "failed") \in Attempt
      BY <2>1, AnnounceAttempt DEF AnyStatus, EndedStatus
    <2>3. ys \in Seq(Attempt)
      BY <2>1, <2>2, ExceptSeq
    <2>4. LookAfter({e}, deliveries, xs, channels) /\ e # d
      BY <1>1, <1>6 DEF MarkIntelDeliveryAttemptAsFailed
    <2> HIDE DEF ys
    <2>5. xs \in [Deliveries -> Seq(Attempt)] /\ xs[d] = attempts[d]
      BY <1>1, <2>3, <2>4
    <2> HIDE DEF xs
    <2>6. PICK D \in SUBSET Deliveries : D = {e}
      OBVIOUS
    <2>7. LookAfter(D, deliveries, xs, channels) /\ d \notin D
      BY <2>4, <2>6
    <2>8. attempts'[d] = xs[d]
      BY <1>1, <2>5, <2>7, IntelDeliveryAssumption, LookAfterOthers
    <2> QED
      BY <1>3, <2>5, <2>8
  <1>7. ASSUME NEW e \in Deliveries, NEW n \in Numbers(e), TimeoutPasses(e, n) PROVE HasActive(attempts'[d])
    <2>1. CASE e # d
      BY <1>1, <1>3, <1>7, <2>1 DEF TimeoutPasses
    <2>2. CASE e = d
      <3>1. PICK m \in 1..Len(attempts[d]) : Active(attempts[d][m])
        BY <1>1 DEF HasActive
      <3>2. /\ attempts'[d] = [attempts[d] EXCEPT ![n].due = TRUE]
            /\ n \in 1..Len(attempts[d]) /\ attempts[d][n] \in Attempt
        BY <1>1, <1>7, <2>2, ElementOfSeq DEF TimeoutPasses, Numbers
      <3>3. [attempts[d][n] EXCEPT !.due = TRUE] \in Attempt
        BY <3>2 DEF Attempt
      <3>4. attempts'[d] \in [1..Len(attempts[d]) -> Attempt]
        BY <1>1, <3>2, <3>3, ElementOfSeq
      <3>5. Len(attempts'[d]) = Len(attempts[d])
        BY <1>1, <3>4, SameLength
      <3>6. attempts'[d][m].status = attempts[d][m].status
        BY <1>1, <3>1, <3>2, ElementOfSeq DEF Attempt
      <3> QED
        BY <3>1, <3>5, <3>6 DEF HasActive, Active
    <2> QED
      BY <2>1, <2>2
  <1>8. ASSUME NEW e \in Deliveries, e # d \/ ~Unlocked(e),
               \/ \E c \in Channels : CreateIntelDeliveryAttempt(e, c)
               \/ \E success \in BOOLEAN : CancelIntelDeliveryByID(e, success)
               \/ \E n \in Numbers(e) : UpdateIntelDeliveryAttemptStatusForActive(e, n)
               \/ \E n \in Numbers(e) \cup {0}, by \in Users \cup {NoUser} : MarkIntelDeliveryAndAttemptAsDelivered(e, n, by)
        PROVE  HasActive(attempts'[d])
    <2>1. Unlocked(e) /\ \E ys : attempts' = [attempts EXCEPT ![e] = ys]
      BY <1>8 DEF CreateIntelDeliveryAttempt, CancelIntelDeliveryByID, UpdateIntelDeliveryAttemptStatusForActive,
                  MarkIntelDeliveryAndAttemptAsDelivered
    <2> QED
      BY <1>1, <1>3, <1>8, <2>1
  <1>9. ASSUME NEW t \in Sessions, NEW new \in SUBSET Channels, UpdateChannelsByEntry(t, new)
        PROVE  \/ HasActive(attempts'[d])
               \/ d \notin sessions'[s].affected /\ ~(deliveries'[d] = "active" /\ To[d] \in auto)
    <2>1. /\ LookAfter(sessions[t].affected, deliveries, AttemptsDeleted(t), channels')
          /\ \A e \in ActiveOnOldChannel(t) \ sessions[t].affected : Unlocked(e)
          /\ sessions' = [sessions EXCEPT ![t] = NoSession]
      BY <1>9 DEF UpdateChannelsByEntry
    <2>2. sessions[t].affected \in SUBSET Deliveries /\ AttemptsDeleted(t) \in [Deliveries -> Seq(Attempt)]
      BY DeletedOrderly DEF DeliveryTypeOK, Session
    <2>3. CASE t = s
      <3>1. d \notin sessions'[s].affected
        BY <2>1, <2>3 DEF DeliveryTypeOK, NoSession
      <3> QED
        BY <1>1, <2>1, <2>2, <2>3, <3>1, LookAfterActive
    <2>4. CASE t # s
      <3>1. d \notin sessions[t].affected
        BY <2>4 DEF HeldInv
      <3>2. HasActive(AttemptsDeleted(t)[d])
        BY <2>1, <2>4, HeldIsNotDeleted
      <3>3. PICK xs \in [Deliveries -> Seq(Attempt)] : xs = AttemptsDeleted(t)
        BY <2>2
      <3>4. PICK zs : zs = channels'
        OBVIOUS
      <3>5. PICK D \in SUBSET Deliveries : D = sessions[t].affected
        BY <2>2
      <3>6. LookAfter(D, deliveries, xs, zs) /\ d \notin D
        BY <2>1, <3>1, <3>3, <3>4, <3>5
      <3>7. attempts'[d] = xs[d]
        BY <1>1, <3>6, IntelDeliveryAssumption, LookAfterOthers
      <3> QED
        BY <3>2, <3>3, <3>7
    <2> QED
      BY <2>3, <2>4
  <1>10. CASE UNCHANGED attempts
    BY <1>3, <1>10
  <1>11. ASSUME NEW t \in Sessions, LockActiveAttempts(t) \/ DeleteAddressBookEntry(t) \/ RollbackSession(t)
         PROVE  UNCHANGED attempts
    BY <1>11 DEF LockActiveAttempts, DeleteAddressBookEntry, RollbackSession
  <1>12. ASSUME \/ \E E \in SUBSET Entries : SetAddressBookEntriesWithAutoDeliveryEnabled(E)
                \/ \E t \in Sessions, e \in Entries : RetrieveOldChannels(t, e) \/ CheckNoActiveDeliveries(t, e)
                \/ \E g \in Groups : DeleteGroupByID(g)
         PROVE  UNCHANGED attempts
    BY <1>12 DEF SetAddressBookEntriesWithAutoDeliveryEnabled, RetrieveOldChannels, CheckNoActiveDeliveries, Begin, DeleteGroupByID
  <1>13. ASSUME NEW e \in Deliveries PROVE e # d \/ ~Unlocked(e)
    BY <1>1
  <1> QED
    BY <1>4, <1>5, <1>6, <1>7, <1>8, <1>9, <1>10, <1>11, <1>12, <1>13 DEF DeliveryNext, SessionNext

\* What a step does to what sessions hold.
LEMMA SessionsHold ==
  ASSUME IntelDeliveryAssumption, DeliveryTypeOK, DeliveryNext, HeldInv
  PROVE  \/ sessions' = sessions
         \/ \E t \in Sessions :
               \/ sessions'[t].affected = {} /\ \A s \in Sessions : s # t => sessions'[s] = sessions[s]
               \/ /\ sessions[t].affected = {} /\ sessions'[t].affected = ActiveOnOldChannel(t)
                  /\ sessions'[t].step = "update" /\ UNCHANGED attempts
                  /\ \A d \in ActiveOnOldChannel(t) : Unlocked(d)
                  /\ \A s \in Sessions : s # t => sessions'[s] = sessions[s]
  <1>1. ASSUME NEW t \in Sessions, LockActiveAttempts(t)
        PROVE  /\ sessions[t].affected = {} /\ sessions'[t].affected = ActiveOnOldChannel(t)
               /\ sessions'[t].step = "update" /\ UNCHANGED attempts
               /\ \A d \in ActiveOnOldChannel(t) : Unlocked(d)
               /\ \A s \in Sessions : s # t => sessions'[s] = sessions[s]
    BY <1>1 DEF LockActiveAttempts, HeldInv, DeliveryTypeOK, Session
  <1>2. ASSUME NEW t \in Sessions, sessions' = [sessions EXCEPT ![t] = NoSession]
        PROVE  sessions'[t].affected = {} /\ \A s \in Sessions : s # t => sessions'[s] = sessions[s]
    BY <1>2 DEF DeliveryTypeOK, NoSession
  <1>3. ASSUME NEW t \in Sessions,
               \/ \E new \in SUBSET Channels : UpdateChannelsByEntry(t, new)
               \/ DeleteAddressBookEntry(t) \/ RollbackSession(t)
        PROVE  sessions' = [sessions EXCEPT ![t] = NoSession]
    BY <1>3 DEF UpdateChannelsByEntry, DeleteAddressBookEntry, RollbackSession
  <1>4. ASSUME NEW t \in Sessions, NEW e \in Entries, RetrieveOldChannels(t, e) \/ CheckNoActiveDeliveries(t, e)
        PROVE  sessions'[t].affected = {} /\ \A s \in Sessions : s # t => sessions'[s] = sessions[s]
    BY <1>4 DEF RetrieveOldChannels, CheckNoActiveDeliveries, Begin, DeliveryTypeOK
  <1>5. ASSUME \/ \E i \in Intels : CreateIntel(i)
               \/ PeriodicCheck
               \/ \E E \in SUBSET Entries : SetAddressBookEntriesWithAutoDeliveryEnabled(E)
               \/ \E g \in Groups : DeleteGroupByID(g)
        PROVE  sessions' = sessions
    BY <1>5 DEF CreateIntel, PeriodicCheck, SetAddressBookEntriesWithAutoDeliveryEnabled, DeleteGroupByID
  <1>6. ASSUME NEW d \in Deliveries,
               \/ \E c \in Channels : CreateIntelDeliveryAttempt(d, c)
               \/ \E success \in BOOLEAN : CancelIntelDeliveryByID(d, success)
               \/ \E n \in Numbers(d) : \/ UpdateIntelDeliveryAttemptStatusForActive(d, n)
                                        \/ MarkIntelDeliveryAttemptAsFailed(d, n) \/ TimeoutPasses(d, n)
               \/ \E n \in Numbers(d) \cup {0}, by \in Users \cup {NoUser} : MarkIntelDeliveryAndAttemptAsDelivered(d, n, by)
        PROVE  sessions' = sessions
    BY <1>6 DEF CreateIntelDeliveryAttempt, CancelIntelDeliveryByID, UpdateIntelDeliveryAttemptStatusForActive,
                MarkIntelDeliveryAttemptAsFailed, TimeoutPasses, MarkIntelDeliveryAndAttemptAsDelivered
  <1> QED
    BY <1>1, <1>2, <1>3, <1>4, <1>5, <1>6 DEF DeliveryNext, SessionNext

\* Every step preserves HeldInv.
LEMMA HeldNext ==
  ASSUME DeliveryTypeOK, ClosedDeliveryHasNoActiveAttempt, HeldInv, [DeliveryNext]_deliveryVars
  PROVE  HeldInv'
  <1>1. CASE UNCHANGED deliveryVars
    BY <1>1 DEF deliveryVars, HeldInv, HasActive
  <1>2. CASE DeliveryNext
    <2> USE IntelDeliveryAssumption
    <2>1. \A s \in Sessions : \A d \in sessions[s].affected : d \in sessions'[s].affected => HasActive(attempts'[d])
      BY <1>2, HeldIsLookedAfter
    <2>2. CASE sessions' = sessions
      BY <2>1, <2>2 DEF HeldInv
    <2>3. ASSUME NEW t \in Sessions, sessions'[t].affected = {}, \A s \in Sessions : s # t => sessions'[s] = sessions[s]
          PROVE  HeldInv'
      BY <2>1, <2>3 DEF HeldInv
    <2>4. ASSUME NEW t \in Sessions, sessions'[t].affected = ActiveOnOldChannel(t),
                 sessions'[t].step = "update", UNCHANGED attempts,
                 \A d \in ActiveOnOldChannel(t) : Unlocked(d), \A s \in Sessions : s # t => sessions'[s] = sessions[s]
          PROVE  HeldInv'
      <3>1. \A d \in ActiveOnOldChannel(t) : HasActive(attempts'[d])
        BY <2>4 DEF ActiveOnOldChannel, HasActive, Numbers
      <3>2. \A s \in Sessions : s # t => sessions'[s].affected \cap ActiveOnOldChannel(t) = {}
        BY <2>4 DEF Unlocked
      <3>3. /\ \A s \in Sessions : sessions'[s].affected # {} => sessions'[s].step = "update"
            /\ \A s \in Sessions : \A d \in sessions'[s].affected : HasActive(attempts'[d])
        BY <2>4, <3>1 DEF HeldInv
      <3>4. \A s, u \in Sessions : s # u => sessions'[s].affected \cap sessions'[u].affected = {}
        BY <2>4, <3>2 DEF HeldInv
      <3> QED
        BY <3>3, <3>4 DEF HeldInv
    <2> QED
      BY <1>2, <2>2, <2>3, <2>4, SessionsHold
  <1> QED
    BY <1>1, <1>2

\* Whoever deletes the channels of active attempts, tries the next channel or gives the delivery up in the same
\* transaction: a delivery leaves the hands of a session with an active attempt, unless it is not to be
\* delivered any more.
THEOREM AffectedAreLookedAfterCorrect == DeliverySpec => AffectedAreLookedAfter
  <1>1. DeliveryInit => HeldInv
    BY DEF DeliveryInit, HeldInv, NoSession
  <1>2. DeliveryTypeOK /\ ClosedDeliveryHasNoActiveAttempt /\ HeldInv /\ [DeliveryNext]_deliveryVars => HeldInv'
    BY HeldNext
  <1>3. DeliveryTypeOK /\ ClosedDeliveryHasNoActiveAttempt /\ HeldInv /\ [DeliveryNext]_deliveryVars
          => [\A s \in Sessions : \A d \in sessions[s].affected :
                 (d \notin sessions'[s].affected /\ deliveries'[d] = "active" /\ To[d] \in auto)
                     => HasActive(attempts'[d])]_deliveryVars
    BY IntelDeliveryAssumption, HeldIsLookedAfter
  <1> QED
    BY <1>1, <1>2, <1>3, DeliveryTypeCorrect, ClosedDeliveryCorrect, PTL DEF DeliverySpec, AffectedAreLookedAfter
=============================================================================
