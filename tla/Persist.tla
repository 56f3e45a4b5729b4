-------------------------------- MODULE Persist --------------------------------
(***************************************************************************)
(* The generator persist() of persist.py: it iterates over one connection  *)
(* after another, and waits between two of them.                           *)
(*                                                                         *)
(* A connection is anything EventStream.tla allows: persist() sees nothing *)
(* of it but its events.  connect() makes a new one from the start.        *)
(* Waiting times are whole seconds; the random part of a wait is any of    *)
(* them under its bound.  A Retry-After header is any text: float() takes  *)
(* "nan" and "inf" for numbers, and a date may be one that mktime_tz()     *)
(* cannot convert.                                                         *)
(***************************************************************************)
EXTENDS Integers, Sequences

CONSTANTS
  MinWait, MaxWait,   \* arguments of persist()
  RespectRetryAfter,  \* BOOLEAN: the argument respect_retry_after
  RetryAfters,        \* the Retry-After values a server may answer with: seconds
                      \* from now (a date may be in the past), NaN or BadDate
  NoValue,            \* None: no Retry-After header, or one that does not parse
  NaN,                \* "nan", the number that is neither less nor more than any
  BadDate,            \* a date out of range: mktime_tz() raises
  LongestWait,        \* threading.TIMEOUT_MAX: wait() raises OverflowError for a
                      \* longer one, such as "inf"
  MaxAttempts         \* bound: connections made

ASSUME PersistAssumption ==
  /\ MinWait \in Nat /\ MaxWait \in Nat /\ MinWait <= MaxWait
  /\ RespectRetryAfter \in BOOLEAN
  /\ RetryAfters \subseteq Int \cup {NaN, BadDate}
  /\ NoValue \notin Int /\ NaN \notin Int /\ BadDate \notin Int
  /\ NoValue # NaN /\ NoValue # BadDate /\ NaN # BadDate
  /\ LongestWait \in Nat
  /\ MaxAttempts \in Nat

VARIABLES
  event, stage, upgraded, handshake,  \* the connection, see EventStream.tla
  at,          \* where persist() is: "connect", "events" or "wait"; "over" when
               \* it has returned, "raised" when an exception has ended it
  retries,     \* attempts since the server last accepted one
  retryAfter,  \* what a rejection asked to wait: seconds, NaN or NoValue
  delay,       \* the wait of the last BackOff event
  exitSet,     \* exit_event is set
  outcomes,    \* how each attempt went: "ready", "failed" or Retry-After
  lateStarts   \* attempts made after exit_event was set

streamVars == <<event, stage, upgraded, handshake>>
vars == <<event, stage, upgraded, handshake, at, retries, retryAfter, delay,
          exitSet, outcomes, lateStarts>>

Connection == INSTANCE EventStream

PersistTypeOK ==
  /\ Connection!TypeOK
  /\ at \in {"connect", "events", "wait", "over", "raised"}
  /\ retries \in Nat
  /\ retryAfter \in Nat \cup {NaN, NoValue}
  /\ delay \in Nat \cup {NaN}
  /\ exitSet \in BOOLEAN
  /\ lateStarts \in Nat

Init ==
  /\ Connection!Init
  /\ at = "connect"
  /\ retries = 0
  /\ retryAfter = NoValue
  /\ delay = 0
  /\ exitSet = FALSE
  /\ outcomes = <<>>
  /\ lateStarts = 0

\* Mutant: the Retry-After of an earlier attempt is kept.
ConnectKeepsRetryAfter ==
  /\ at = "connect"
  /\ Len(outcomes) < MaxAttempts
  /\ at' = "events"
  /\ retries' = retries + 1
  /\ event' = "none" /\ stage' = "start" /\ upgraded' = FALSE /\ handshake' = FALSE
  /\ outcomes' = Append(outcomes, [kind |-> "failed", wait |-> NoValue])
  /\ lateStarts' = IF exitSet THEN lateStarts + 1 ELSE lateStarts
  /\ UNCHANGED <<retryAfter, delay, exitSet>>

Connect ==
  /\ at = "connect"
  /\ Len(outcomes) < MaxAttempts
  /\ at' = "events"
  /\ retries' = retries + 1
  /\ retryAfter' = NoValue
  /\ event' = "none" /\ stage' = "start" /\ upgraded' = FALSE /\ handshake' = FALSE
  /\ outcomes' = Append(outcomes, [kind |-> "failed", wait |-> NoValue])
  /\ lateStarts' = IF exitSet THEN lateStarts + 1 ELSE lateStarts
  /\ UNCHANGED <<delay, exitSet>>

\* How the attempt under way goes.
Goes(kind, wait) == outcomes' = [outcomes EXCEPT ![Len(outcomes)] = [kind |-> kind, wait |-> wait]]

\* Mutant: a Ready event does not start the count again.
ReadyCounts ==
  /\ event' = "ready" /\ event # "ready"
  /\ Goes("ready", NoValue)
  /\ UNCHANGED <<at, retries, retryAfter>>

OnReady ==
  /\ event' = "ready" /\ event # "ready"
  /\ retries' = 0
  /\ Goes("ready", NoValue)
  /\ UNCHANGED <<at, retryAfter>>

\* Mutant: a date in the past gives a negative wait.
RetryAfterOfPast(v) == v

\* What _parse_retry_after() returns, unless it raises: NaN < 0 is false.
RetryAfter(v) == IF v \in Int /\ v < 0 THEN 0 ELSE v

\* The header is read before the event is handed on: the ValueError or
\* OverflowError of mktime_tz() ends persist() in place of the event.
OnRejected ==
  /\ event' = "rejected" /\ event # "rejected"
  /\ \E v \in RetryAfters \cup {NoValue} :
       /\ Goes("rejected", v)
       /\ \/ /\ RespectRetryAfter /\ v = BadDate
             /\ at' = "raised"
             /\ UNCHANGED retryAfter
          \/ /\ RespectRetryAfter /\ v # BadDate
             /\ retryAfter' = RetryAfter(v)
             /\ UNCHANGED at
          \/ /\ ~RespectRetryAfter
             /\ UNCHANGED <<at, retryAfter>>
  /\ UNCHANGED retries

OnOtherEvent ==
  /\ event' \notin {"ready", "rejected"} \/ event' = event
  /\ UNCHANGED <<at, retries, retryAfter, outcomes>>

\* Every event is handed on to the application, but for one whose date raises.
ConnectionStep ==
  /\ at = "events"
  /\ Connection!Next
  /\ OnReady \/ OnRejected \/ OnOtherEvent
  /\ UNCHANGED <<delay, exitSet, lateStarts>>

Least(a, b) == IF a < b THEN a ELSE b

\* Mutant: the wait is bounded by max_wait on top of min_wait.
SpreadToMax == MaxWait

\* The range of the random part: min(random_wait, 2**retries).
Spread == Least(MaxWait - MinWait, 2 ^ retries)

\* The connection is over: BackOff, and the wait.
BackOff ==
  /\ at = "events" /\ stage = "over"
  /\ \/ /\ retryAfter = NoValue
        /\ \E r \in {0} \cup 0..(Spread - 1) : delay' = MinWait + r
     \/ /\ retryAfter # NoValue
        /\ delay' = retryAfter
  /\ at' = "wait"
  /\ UNCHANGED <<streamVars, retries, retryAfter, exitSet, outcomes, lateStarts>>

\* Mutant: the result of exit_event.wait() is ignored.
WaitIgnoresExit ==
  /\ at = "wait"
  /\ at' = "connect"
  /\ UNCHANGED <<streamVars, retries, retryAfter, delay, exitSet, outcomes, lateStarts>>

\* What exit_event.wait() takes: NaN is no time at all in Python 3 (in Python 2
\* such a wait lasts until the event is set).
Waits == 0..LongestWait \cup {NaN}

\* exit_event.wait(wait_for): it is over as soon as the event is set.  Failing
\* that it gives up after its time, and refuses a wait that is too long.
Wait ==
  /\ at = "wait"
  /\ \/ exitSet /\ at' = "over"
     \/ ~exitSet /\ delay \in Waits /\ at' = "connect"
     \/ ~exitSet /\ delay \notin Waits /\ at' = "raised"
  /\ UNCHANGED <<streamVars, retries, retryAfter, delay, exitSet, outcomes, lateStarts>>

\* The application, or another of its threads, asks for the end.
SetExit ==
  /\ ~exitSet
  /\ exitSet' = TRUE
  /\ UNCHANGED <<streamVars, at, retries, retryAfter, delay, outcomes, lateStarts>>

Terminated ==
  /\ at \in {"over", "raised"} \/ (at = "connect" /\ Len(outcomes) = MaxAttempts)
  /\ UNCHANGED vars

Next == Connect \/ ConnectionStep \/ BackOff \/ Wait \/ SetExit \/ Terminated

Spec == Init /\ [][Next]_vars

-----------------------------------------------------------------------------
\* Attempts since the last one that the server accepted.
Missed ==
  LET accepted == {i \in DOMAIN outcomes : outcomes[i].kind = "ready"}
  IN  IF accepted = {} THEN Len(outcomes)
      ELSE Len(outcomes) - (CHOOSE i \in accepted : \A j \in accepted : j <= i)

(* The wait is what the server asked for in this attempt, and in this one only;
   failing that it grows with the attempts missed, from min_wait and up to
   max_wait seconds (persist.py:79-83).  And persist() raises only for what this
   attempt's answer asked, a date out of range or a wait that is too long, or
   because its own limits are too long. *)
WaitFollowsOutcomes ==
  at \in {"wait", "raised"} =>
    LET asked     == outcomes[Len(outcomes)].wait
        respected == RespectRetryAfter /\ asked # NoValue
    IN  /\ at = "wait" /\ respected =>
             delay = IF asked \in Int /\ asked < 0 THEN 0 ELSE asked
        /\ at = "wait" /\ ~respected =>
             delay \in MinWait..MaxWait /\ delay - MinWait < 2 ^ Missed
        /\ at = "raised" /\ respected =>
             asked = BadDate \/ (asked \in Int /\ asked > LongestWait)
        /\ at = "raised" /\ ~respected => MaxWait > LongestWait

\* Once exit_event is set at most one more attempt is made: the one that
\* persist() was about to make (persist.py:83).
ExitStopsRetries == lateStarts <= 1
=============================================================================
