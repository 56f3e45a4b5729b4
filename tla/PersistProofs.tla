----------------------------- MODULE PersistProofs -----------------------------
(***************************************************************************)
(* What holds of Persist.tla for every limit, every Retry-After and any    *)
(* number of attempts.                                                     *)
(***************************************************************************)
EXTENDS Persist, FiniteSetTheorems, TLAPS

(* An attempt made after exit_event was set is the last one: persist() is in
   it, or on its way out through a wait that returns TRUE. *)
LateInv ==
  \/ lateStarts = 0
  \/ lateStarts = 1 /\ exitSet /\ at # "connect"

\* LateInv holds in every reachable state.
LEMMA LateInvariant == Spec => []LateInv
<1>1. Init => LateInv
  BY DEF Init, LateInv
<1>2. LateInv /\ [Next]_vars => LateInv'
  <2> SUFFICES ASSUME LateInv, [Next]_vars PROVE LateInv'
    OBVIOUS
  <2> USE DEF LateInv
  <2>1. CASE Connect
    BY <2>1 DEF Connect
  <2>2. CASE ConnectionStep
    BY <2>2 DEF ConnectionStep, OnReady, OnRejected, OnOtherEvent
  <2>3. CASE BackOff
    BY <2>3 DEF BackOff
  <2>4. CASE Wait
    BY <2>4 DEF Wait
  <2>5. CASE SetExit
    BY <2>5 DEF SetExit
  <2>6. CASE UNCHANGED vars
    BY <2>6 DEF vars
  <2> QED
    BY <2>1, <2>2, <2>3, <2>4, <2>5, <2>6 DEF Next, Terminated
<1> QED
  BY <1>1, <1>2, PTL DEF Spec

\* Once exit_event is set, at most one more attempt is made.
THEOREM ExitIsFinal == Spec => []ExitStopsRetries
<1>1. LateInv => ExitStopsRetries
  BY DEF LateInv, ExitStopsRetries
<1> QED
  BY <1>1, LateInvariant, PTL

-----------------------------------------------------------------------------
(* Types *)

\* A step of the connection keeps its type, whatever persist() makes of it.
LEMMA ConnectionTyped ==
  Connection!TypeOK /\ Connection!Next => Connection!TypeOK'
BY DEF Connection!TypeOK, Connection!Next, Connection!Connecting,
       Connection!Connected, Connection!Ready, Connection!Rejected,
       Connection!Message, Connection!Closing, Connection!Closed,
       Connection!ProtocolError, Connection!Poll, Connection!Unresponsive,
       Connection!ConnectFail, Connection!Disconnected, Connection!ClientCloses,
       Connection!Ends, Connection!Stages, Connection!Messages,
       Connection!Housekeeping, Connection!Final

\* A Retry-After that does not raise is never taken for less than nothing.
LEMMA RetryAfterTyped ==
  ASSUME NEW v \in RetryAfters \cup {NoValue}, v # BadDate
  PROVE  RetryAfter(v) \in Nat \cup {NaN, NoValue}
BY PersistAssumption DEF RetryAfter

\* The random part of a wait only adds to min_wait.
LEMMA WaitTyped == ASSUME NEW r \in {0} \cup 0..(Spread - 1) PROVE MinWait + r \in Nat
<1>1. r \in Nat
  OBVIOUS
<1> QED
  BY <1>1, PersistAssumption

\* Every wait is a natural number of seconds or not a number, never less than
\* nothing, and every other variable keeps its type, for all limits and every
\* Retry-After: numbers of any size, "nan" and dates that cannot be converted
\* (persist.py, _parse_retry_after and the wait before the BackOff event).
THEOREM WaitsTyped == Spec => []PersistTypeOK
<1>1. Init => PersistTypeOK
  <2> SUFFICES ASSUME Init PROVE PersistTypeOK
    OBVIOUS
  <2>1. Connection!TypeOK
    BY DEF Init, Connection!Init, Connection!TypeOK, Connection!Stages
  <2>2. /\ at \in {"connect", "events", "wait", "over", "raised"}
        /\ retries \in Nat /\ delay \in Nat \cup {NaN} /\ lateStarts \in Nat
    BY DEF Init
  <2>3. retryAfter \in Nat \cup {NaN, NoValue} /\ exitSet \in BOOLEAN
    BY DEF Init
  <2> QED
    BY <2>1, <2>2, <2>3 DEF PersistTypeOK
<1>2. PersistTypeOK /\ [Next]_vars => PersistTypeOK'
  <2> SUFFICES ASSUME PersistTypeOK, [Next]_vars PROVE PersistTypeOK'
    OBVIOUS
  <2> USE DEF PersistTypeOK
  <2>1. CASE Connect
    <3>1. Connection!TypeOK'
      BY <2>1 DEF Connect, Connection!TypeOK, Connection!Stages
    <3>2. retryAfter' \in Nat \cup {NaN, NoValue} /\ lateStarts' \in Nat
      BY <2>1 DEF Connect
    <3> QED
      BY <2>1, <3>1, <3>2 DEF Connect
  <2>2. CASE ConnectionStep
    <3>1. Connection!TypeOK'
      BY <2>2, ConnectionTyped DEF ConnectionStep
    <3>2. retries' \in Nat /\ retryAfter' \in Nat \cup {NaN, NoValue}
      BY <2>2, RetryAfterTyped
         DEF ConnectionStep, OnReady, OnRejected, OnOtherEvent
    <3>3. at' \in {"connect", "events", "wait", "over", "raised"}
      BY <2>2 DEF ConnectionStep, OnReady, OnRejected, OnOtherEvent
    <3> QED
      BY <2>2, <3>1, <3>2, <3>3 DEF ConnectionStep
  <2>3. CASE BackOff
    <3>1. delay' \in Nat \cup {NaN}
      BY <2>3, WaitTyped DEF BackOff
    <3> QED
      BY <2>3, <3>1 DEF BackOff, streamVars, Connection!TypeOK
  <2>4. CASE Wait
    BY <2>4 DEF Wait, streamVars, Connection!TypeOK
  <2>5. CASE SetExit
    BY <2>5 DEF SetExit, streamVars, Connection!TypeOK
  <2>6. CASE UNCHANGED vars
    BY <2>6 DEF vars, Connection!TypeOK
  <2> QED
    BY <2>1, <2>2, <2>3, <2>4, <2>5, <2>6 DEF Next, Terminated
<1> QED
  BY <1>1, <1>2, PTL DEF Spec
-----------------------------------------------------------------------------
(* The waits *)

\* A power of two is the size of a powerset, and a powerset has a member.
LEMMA PowerOfTwo == ASSUME NEW n \in Nat PROVE 2 ^ n \in Nat \ {0}
<1>1. IsFiniteSet(1..n) /\ Cardinality(1..n) = n
  BY FS_Interval
<1>2. IsFiniteSet(SUBSET (1..n)) /\ Cardinality(SUBSET (1..n)) = 2 ^ n
  BY <1>1, FS_SUBSET
<1>3. SUBSET (1..n) # {}
  OBVIOUS
<1> QED
  BY <1>2, <1>3, FS_CardinalityType, FS_EmptySet

Outcome == [kind : {"failed", "ready", "rejected"}, wait : Int \cup {NoValue, NaN, BadDate}]
Accepted(s) == {i \in DOMAIN s : s[i].kind = "ready"}
LastOutcome == outcomes[Len(outcomes)]

\* n attempts of s come after the last one that was accepted.
MissedIn(s, n) ==
  \/ Accepted(s) = {} /\ n = Len(s)
  \/ \E m \in Accepted(s) : (\A i \in Accepted(s) : i <= m) /\ n = Len(s) - m

(* retries counts the attempts missed, and retryAfter is that of the attempt
   under way: a rejection is the last thing that happens to an attempt, and an
   attempt that was accepted is not rejected any more. *)
WaitInv ==
  /\ outcomes \in Seq(Outcome)
  /\ MissedIn(outcomes, retries)
  /\ at \in {"events", "wait"} =>
       /\ outcomes # <<>>
       /\ retryAfter = IF RespectRetryAfter THEN RetryAfter(LastOutcome.wait) ELSE NoValue
       /\ RespectRetryAfter => LastOutcome.wait # BadDate
       /\ LastOutcome.kind = "ready" => upgraded
       /\ LastOutcome.kind = "rejected" => stage \in {"ending", "over"}
       /\ LastOutcome.kind # "rejected" => LastOutcome.wait = NoValue
  /\ WaitFollowsOutcomes

\* The count that MissedIn speaks of is the one of the property.
LEMMA MissedIsMissed ==
  ASSUME NEW n, MissedIn(outcomes, n)
  PROVE  Missed = n
<1>1. Accepted(outcomes) = {i \in DOMAIN outcomes : outcomes[i].kind = "ready"}
  BY DEF Accepted
<1>2. CASE Accepted(outcomes) = {} /\ n = Len(outcomes)
  BY <1>1, <1>2 DEF Missed
<1>3. CASE \E m \in Accepted(outcomes) :
             (\A i \in Accepted(outcomes) : i <= m) /\ n = Len(outcomes) - m
  BY <1>1, <1>3 DEF Missed
<1> QED
  BY <1>2, <1>3 DEF MissedIn

\* One more attempt, not accepted so far, is one more missed.
LEMMA OneMoreMissed ==
  ASSUME NEW s \in Seq(Outcome), NEW n, MissedIn(s, n), NEW o \in Outcome, o.kind # "ready"
  PROVE  MissedIn(Append(s, o), n + 1)
<1>1. Accepted(Append(s, o)) = Accepted(s)
  BY DEF Accepted
<1>2. Len(Append(s, o)) = Len(s) + 1 /\ Len(s) \in Nat
  OBVIOUS
<1>3. \A i \in Accepted(s) : i \in Int
  BY DEF Accepted
<1> QED
  BY <1>1, <1>2, <1>3 DEF MissedIn

\* t is s, in which n were missed, after its last outcome became o.
BecameLast(s, t, o, n) ==
  /\ t \in Seq(Outcome) /\ t # <<>> /\ Len(t) = Len(s) /\ t[Len(t)] = o
  /\ o.kind = "ready" => MissedIn(t, 0)
  /\ o.kind # "ready" /\ s[Len(s)].kind # "ready" => MissedIn(t, n)

\* What becomes of the last attempt: accepted, none is missed; else nothing changes.
LEMMA LastChanges ==
  ASSUME NEW s \in Seq(Outcome), s # <<>>, NEW n, MissedIn(s, n), NEW o \in Outcome,
         NEW t, t = [s EXCEPT ![Len(s)] = o]
  PROVE  BecameLast(s, t, o, n)
<1>1. Len(s) \in Nat \ {0} /\ DOMAIN s = 1..Len(s)
  OBVIOUS
<1>2. /\ t \in Seq(Outcome) /\ t # <<>> /\ Len(t) = Len(s) /\ t[Len(t)] = o
      /\ \A i \in 1..Len(s) : i # Len(s) => t[i] = s[i]
  <2>1. DOMAIN t = 1..Len(s) /\ \A i \in 1..Len(s) : t[i] = IF i = Len(s) THEN o ELSE s[i]
    BY <1>1
  <2>2. t \in Seq(Outcome) /\ Len(t) = Len(s)
    BY <1>1, <2>1
  <2>3. t # <<>>
    BY <1>1, <2>1
  <2>4. t[Len(t)] = o /\ \A i \in 1..Len(s) : i # Len(s) => t[i] = s[i]
    <3>1. Len(s) \in 1..Len(s)
      BY <1>1
    <3> QED
      BY <2>1, <2>2, <3>1
  <2> QED
    BY <2>2, <2>3, <2>4
<1>3. ASSUME o.kind = "ready" PROVE MissedIn(t, 0)
  <2>0. DOMAIN t = 1..Len(t) /\ Len(t) \in Nat \ {0}
    BY <1>1, <1>2
  <2>1. Accepted(t) \subseteq 1..Len(t) /\ Len(t) \in Accepted(t)
    <3>1. Len(t) \in 1..Len(t)
      BY <2>0
    <3> QED
      BY <1>2, <1>3, <2>0, <3>1 DEF Accepted
  <2>2. \A i \in Accepted(t) : i <= Len(t)
    <3> SUFFICES ASSUME NEW i \in Accepted(t) PROVE i <= Len(t)
      OBVIOUS
    <3>1. i \in 1..Len(t)
      BY <2>1
    <3> QED
      BY <2>0, <3>1
  <2>3. 0 = Len(t) - Len(t)
    BY <2>0
  <2> QED
    BY <2>1, <2>2, <2>3 DEF MissedIn
<1>4. ASSUME o.kind # "ready", s[Len(s)].kind # "ready" PROVE MissedIn(t, n)
  <2>1. Accepted(t) = Accepted(s)
    BY <1>1, <1>2, <1>4 DEF Accepted
  <2> QED
    BY <1>2, <2>1 DEF MissedIn
<1> QED
  BY <1>2, <1>3, <1>4 DEF BecameLast

\* What a step of a connection cannot undo, and what Ready and Rejected say of it.
LEMMA ConnectionMonotone ==
  ASSUME Connection!Next
  PROVE  /\ stage \in {"ending", "over"} => stage' \in {"ending", "over"}
         /\ upgraded => upgraded'
         /\ event' = "ready" /\ event # "ready" => upgraded' /\ stage = "open"
         /\ event' = "rejected" /\ event # "rejected" => ~upgraded /\ stage' = "ending"
<1> USE DEF Connection!Messages
<1>1. CASE Connection!Connecting \/ Connection!Connected
  BY <1>1 DEF Connection!Connecting, Connection!Connected
<1>2. CASE Connection!Ready
  BY <1>2 DEF Connection!Ready
<1>3. CASE Connection!Rejected
  BY <1>3 DEF Connection!Rejected
<1>4. CASE Connection!Message \/ Connection!Closing \/ Connection!Closed
  BY <1>4 DEF Connection!Message, Connection!Closing, Connection!Closed
<1>5. CASE Connection!ProtocolError \/ Connection!Poll \/ Connection!Unresponsive
  BY <1>5 DEF Connection!ProtocolError, Connection!Poll, Connection!Unresponsive
<1>6. CASE Connection!ConnectFail \/ Connection!Disconnected
  BY <1>6 DEF Connection!ConnectFail, Connection!Disconnected
<1>7. CASE Connection!ClientCloses
  BY <1>7 DEF Connection!ClientCloses
<1>8. CASE Connection!Ends
  BY <1>8 DEF Connection!Ends
<1> QED
  BY <1>1, <1>2, <1>3, <1>4, <1>5, <1>6, <1>7, <1>8 DEF Connection!Next

\* A step of the connection keeps WaitInv.
LEMMA WaitEvents ==
  ASSUME PersistTypeOK, WaitInv, ConnectionStep
  PROVE  WaitInv'
<1>0. /\ at = "events" /\ outcomes \in Seq(Outcome) /\ outcomes # <<>>
      /\ MissedIn(outcomes, retries)
  BY DEF ConnectionStep, WaitInv
<1>1. /\ stage \in {"ending", "over"} => stage' \in {"ending", "over"}
      /\ upgraded => upgraded'
  BY ConnectionMonotone DEF ConnectionStep
<1>2. at' = "events" => WaitFollowsOutcomes'
  BY DEF WaitFollowsOutcomes
<1>3. CASE OnReady
  <2>1. upgraded' /\ stage = "open"
    BY <1>3, ConnectionMonotone DEF OnReady, ConnectionStep
  <2> DEFINE o == [kind |-> "ready", wait |-> NoValue]
  <2>2. o \in Outcome /\ outcomes' = [outcomes EXCEPT ![Len(outcomes)] = o]
    BY <1>3 DEF OnReady, Goes, Outcome
  <2>3. /\ outcomes' \in Seq(Outcome) /\ outcomes' # <<>> /\ LastOutcome' = o
        /\ MissedIn(outcomes', 0)
    <3>1. o.kind = "ready"
      OBVIOUS
    <3> HIDE DEF o
    <3>2. BecameLast(outcomes, outcomes', o, retries)
      BY <1>0, <2>2, LastChanges
    <3> QED
      BY <3>1, <3>2 DEF BecameLast, LastOutcome
  <2>4. LastOutcome.wait = NoValue /\ UNCHANGED retryAfter
    BY <1>0, <1>3, <2>1 DEF WaitInv, OnReady
  <2>5. retryAfter' = IF RespectRetryAfter THEN RetryAfter(LastOutcome'.wait) ELSE NoValue
    BY <1>0, <2>3, <2>4 DEF WaitInv
  <2>6. retries' = 0 /\ at' = "events"
    BY <1>0, <1>3 DEF OnReady
  <2> QED
    BY <1>2, <2>1, <2>3, <2>5, <2>6, PersistAssumption DEF WaitInv
<1>4. CASE OnRejected
  <2>1. ~upgraded /\ stage' = "ending"
    BY <1>4, ConnectionMonotone DEF OnRejected, ConnectionStep
  <2>2. PICK v \in RetryAfters \cup {NoValue} :
          /\ Goes("rejected", v)
          /\ \/ RespectRetryAfter /\ v = BadDate /\ at' = "raised"
             \/ RespectRetryAfter /\ v # BadDate /\ retryAfter' = RetryAfter(v) /\ UNCHANGED at
             \/ ~RespectRetryAfter /\ UNCHANGED <<at, retryAfter>>
    BY <1>4 DEF OnRejected
  <2> DEFINE o == [kind |-> "rejected", wait |-> v]
  <2>3. o \in Outcome /\ outcomes' = [outcomes EXCEPT ![Len(outcomes)] = o]
    BY <2>2, PersistAssumption DEF Goes, Outcome
  <2>4. LastOutcome.kind # "ready"
    BY <1>0, <2>1 DEF WaitInv
  <2>5. /\ outcomes' \in Seq(Outcome) /\ outcomes' # <<>> /\ LastOutcome' = o
        /\ MissedIn(outcomes', retries)
    <3>1. o.kind # "ready" /\ outcomes[Len(outcomes)].kind # "ready"
      BY <2>4 DEF LastOutcome
    <3> HIDE DEF o
    <3>2. /\ outcomes' \in Seq(Outcome) /\ outcomes' # <<>>
          /\ outcomes'[Len(outcomes')] = o /\ MissedIn(outcomes', retries)
      <4>1. BecameLast(outcomes, outcomes', o, retries)
        BY <1>0, <2>3, LastChanges
      <4> QED
        BY <3>1, <4>1 DEF BecameLast
    <3> QED
      BY <3>2 DEF LastOutcome
  <2>6. UNCHANGED retries
    BY <1>4 DEF OnRejected
  <2>7. CASE RespectRetryAfter /\ v = BadDate /\ at' = "raised"
    <3>1. WaitFollowsOutcomes'
      BY <2>5, <2>7, PersistAssumption DEF WaitFollowsOutcomes, LastOutcome
    <3> QED
      BY <2>5, <2>6, <2>7, <3>1 DEF WaitInv
  <2>8. CASE RespectRetryAfter /\ v # BadDate /\ retryAfter' = RetryAfter(v) /\ UNCHANGED at
    BY <1>0, <1>2, <2>1, <2>5, <2>6, <2>8 DEF WaitInv
  <2>9. CASE ~RespectRetryAfter /\ UNCHANGED <<at, retryAfter>>
    BY <1>0, <1>2, <2>1, <2>5, <2>6, <2>9 DEF WaitInv
  <2> QED
    BY <2>2, <2>7, <2>8, <2>9
<1>5. CASE OnOtherEvent
  BY <1>0, <1>1, <1>2, <1>5 DEF OnOtherEvent, WaitInv, LastOutcome
<1> QED
  BY <1>3, <1>4, <1>5 DEF ConnectionStep

\* The wait that BackOff chooses is the one that the outcomes ask for.
LEMMA WaitChosen ==
  ASSUME PersistTypeOK, WaitInv, BackOff
  PROVE  WaitInv'
<1>0. /\ at = "events" /\ UNCHANGED <<streamVars, retries, retryAfter, outcomes>>
      /\ retries \in Nat /\ outcomes \in Seq(Outcome) /\ outcomes # <<>>
      /\ Missed = retries
  BY MissedIsMissed DEF BackOff, PersistTypeOK, WaitInv
<1>1. LastOutcome.wait \in Int \cup {NoValue, NaN, BadDate}
  <2>1. Len(outcomes) \in DOMAIN outcomes
    BY <1>0
  <2>2. LastOutcome \in Outcome
    BY <1>0, <2>1 DEF LastOutcome
  <2> QED
    BY <2>2 DEF Outcome
<1>2. CASE retryAfter # NoValue /\ delay' = retryAfter
  <2>1. RespectRetryAfter /\ retryAfter = RetryAfter(LastOutcome.wait)
    BY <1>0, <1>2 DEF WaitInv
  <2>2. /\ LastOutcome.wait # NoValue
        /\ delay' = IF LastOutcome.wait \in Int /\ LastOutcome.wait < 0 THEN 0 ELSE LastOutcome.wait
    BY <1>1, <1>2, <2>1, PersistAssumption DEF RetryAfter
  <2>3. at' = "wait"
    BY DEF BackOff
  <2>4. WaitFollowsOutcomes'
    BY <1>0, <2>1, <2>2, <2>3 DEF WaitFollowsOutcomes, LastOutcome
  <2> QED
    BY <1>0, <2>3, <2>4 DEF WaitInv, streamVars, LastOutcome
<1>3. ASSUME retryAfter = NoValue, NEW r \in {0} \cup 0..(Spread - 1), delay' = MinWait + r
      PROVE  WaitInv'
  <2>0. at' = "wait"
    BY DEF BackOff
  <2>1. ~RespectRetryAfter \/ LastOutcome.wait = NoValue
    BY <1>0, <1>1, <1>3, PersistAssumption DEF WaitInv, RetryAfter
  <2>2. 2 ^ retries \in Nat \ {0}
    BY <1>0, PowerOfTwo
  <2>3. Spread \in Nat /\ Spread <= MaxWait - MinWait /\ Spread <= 2 ^ retries
    BY <2>2, PersistAssumption DEF Spread, Least
  <2>4. r \in Nat /\ r <= MaxWait - MinWait /\ r < 2 ^ retries
    BY <2>2, <2>3, PersistAssumption
  <2>5. delay' \in MinWait..MaxWait /\ delay' - MinWait = r
    BY <1>3, <2>4, PersistAssumption
  <2>6. Missed' = retries
    BY <1>0 DEF Missed
  <2>7. WaitFollowsOutcomes'
    BY <1>0, <2>0, <2>1, <2>4, <2>5, <2>6 DEF WaitFollowsOutcomes, LastOutcome
  <2> QED
    BY <1>0, <2>0, <2>7 DEF WaitInv, streamVars, LastOutcome
<1> QED
  BY <1>2, <1>3 DEF BackOff

\* A wait that exit_event.wait() refuses is one that the outcomes asked for.
LEMMA WaitTaken ==
  ASSUME PersistTypeOK, WaitInv, Wait
  PROVE  WaitInv'
<1>0. /\ at = "wait" /\ UNCHANGED <<streamVars, retries, retryAfter, delay, outcomes>>
      /\ at' \in {"over", "connect", "raised"}
  BY DEF Wait
<1>1. CASE at' # "raised"
  BY <1>0, <1>1 DEF WaitInv, WaitFollowsOutcomes
<1>2. CASE at' = "raised"
  <2>1. delay \in Nat /\ delay > LongestWait
    BY <1>0, <1>2, PersistAssumption DEF Wait, Waits, PersistTypeOK
  <2> DEFINE asked == outcomes[Len(outcomes)].wait
  <2>2. CASE RespectRetryAfter /\ asked # NoValue
    <3>1. delay = IF asked \in Int /\ asked < 0 THEN 0 ELSE asked
      BY <1>0, <2>2 DEF WaitInv, WaitFollowsOutcomes
    <3>2. asked \in Int /\ asked > LongestWait
      BY <2>1, <3>1, PersistAssumption
    <3>3. WaitFollowsOutcomes'
      BY <1>0, <1>2, <2>2, <3>2 DEF WaitFollowsOutcomes
    <3> QED
      BY <1>0, <1>2, <3>3 DEF WaitInv
  <2>3. CASE ~(RespectRetryAfter /\ asked # NoValue)
    <3>1. delay \in MinWait..MaxWait
      BY <1>0, <2>3 DEF WaitInv, WaitFollowsOutcomes
    <3>2. MaxWait > LongestWait
      BY <2>1, <3>1, PersistAssumption
    <3>3. WaitFollowsOutcomes'
      BY <1>0, <1>2, <2>3, <3>2 DEF WaitFollowsOutcomes
    <3> QED
      BY <1>0, <1>2, <3>3 DEF WaitInv
  <2> QED
    BY <2>2, <2>3
<1> QED
  BY <1>1, <1>2

\* A wait is what the server asked for in this attempt, else between the limits
\* and doubled with every attempt missed, and nothing but a date out of range or a
\* wait that is too long makes persist() raise, for all limits and every
\* Retry-After (persist.py, persist).
THEOREM WaitsAsAsked == Spec => []WaitFollowsOutcomes
<1>1. Init => WaitInv
  BY DEF Init, WaitInv, MissedIn, Accepted, WaitFollowsOutcomes
<1>2. PersistTypeOK /\ WaitInv /\ [Next]_vars => WaitInv'
  <2> SUFFICES ASSUME PersistTypeOK, WaitInv, [Next]_vars PROVE WaitInv'
    OBVIOUS
  <2>1. CASE Connect
    <3> DEFINE o == [kind |-> "failed", wait |-> NoValue]
    <3>1. o \in Outcome /\ outcomes' = Append(outcomes, o) /\ outcomes \in Seq(Outcome)
      BY <2>1 DEF Connect, Outcome, WaitInv
    <3>2. MissedIn(outcomes', retries')
      BY <2>1, <3>1, OneMoreMissed DEF Connect, WaitInv
    <3>3. outcomes' \in Seq(Outcome) /\ outcomes' # <<>> /\ LastOutcome' = o
      BY <3>1 DEF LastOutcome
    <3>4. retryAfter' = NoValue /\ at' = "events"
      BY <2>1 DEF Connect
    <3>5. RetryAfter(NoValue) = NoValue /\ NoValue # BadDate
      BY PersistAssumption DEF RetryAfter
    <3> QED
      BY <3>2, <3>3, <3>4, <3>5 DEF WaitInv, WaitFollowsOutcomes
  <2>2. CASE ConnectionStep
    BY <2>2, WaitEvents
  <2>3. CASE BackOff
    BY <2>3, WaitChosen
  <2>4. CASE Wait
    BY <2>4, WaitTaken
  <2>5. CASE SetExit
    BY <2>5 DEF SetExit, streamVars, WaitInv, WaitFollowsOutcomes, LastOutcome, Missed
  <2>6. CASE UNCHANGED vars
    BY <2>6 DEF vars, WaitInv, WaitFollowsOutcomes, LastOutcome, Missed
  <2> QED
    BY <2>1, <2>2, <2>3, <2>4, <2>5, <2>6 DEF Next, Terminated
<1>3. WaitInv => WaitFollowsOutcomes
  BY DEF WaitInv
<1> QED
  BY <1>1, <1>2, <1>3, WaitsTyped, PTL DEF Spec
=============================================================================
