---------------------------- MODULE TopicMonitor ----------------------------
(***************************************************************************)
(* demos/topic_monitor: data publishers count on their topics, and the     *)
(* monitor computes which share of the numbers it should have received by  *)
(* now has arrived.  Its receiving thread serves the subscriptions and two *)
(* timers per topic; the main thread checks the statuses, computes the     *)
(* rates and draws them, taking the lock anew for each.                    *)
(*                                                                         *)
(* Time is in ticks.  The receiving thread serves a timer in the tick in   *)
(* which it is due; the main thread may be late by MaxLag ticks.           *)
(***************************************************************************)
EXTENDS Integers, Sequences, FiniteSets, FiniteSetsExt

CONSTANTS
    Graph,           \* topic -> whether its name matches, and its types
    ExpectedPeriod, AllowedLatency, StaleTime, StatsPeriod,  \* the options, in ticks
    WindowSize,      \* window_size
    ShowDisplay,     \* the option --display
    LosesGoodbye,    \* whether the last message of a publisher may be lost
    EndAfter,        \* end_after: a publisher ends after this many messages
    MaxStarts,       \* bound: starts of a publisher
    MaxInFlight,     \* bound: messages of a topic in flight
    MaxExpected,     \* bound: the expected value is not counted any further
    MaxAge,          \* bound: older data is not told apart
    MaxLag           \* bound: ticks by which the main thread is late

VARIABLES
    starts,     \* topic -> starts of its publisher
    cycle,      \* topic -> cycle_count, None while no publisher runs
    inFlight,   \* topic -> messages sent and not yet received
    monitored,  \* the keys of monitored_topics
    topic,      \* topic -> the attributes of its MonitoredTopic
    latency,    \* topic -> ticks to allowed_latency_timer, None if cancelled
    period,     \* topic -> ticks to expected_value_timer, None if cancelled
    main,       \* what the main thread does next, or "ended"
    cause,      \* the exception that ended it
    sinceCycle, \* ticks since last_time
    shown,      \* topic -> the status output last
    rate,       \* topic -> the rate computed last
    points,     \* topic -> len(reception_rate_over_time), up to 2
    xData,      \* len(x_data), up to 2
    spotless    \* ghost: topics of whose run nothing was lost or late

monitorVars == <<starts, cycle, inFlight, monitored, topic, latency, period, main, cause,
                 sinceCycle, shown, rate, points, xData, spotless>>
publishers == <<starts, cycle, inFlight>>
monitorTimers == <<latency, period>>
display == <<shown, rate, points, xData>>

None == -2
Names == DOMAIN Graph
NoRate == [count |-> 0, of |-> 0, spotless |-> FALSE]

ASSUME MonitorAssumption ==
    /\ WindowSize \in Nat \ {0} /\ ExpectedPeriod \in Nat \ {0}
    /\ {AllowedLatency, StaleTime, StatsPeriod, EndAfter, MaxLag, MaxAge, MaxExpected} \subseteq Nat
    /\ MaxExpected >= EndAfter + WindowSize

-------------------------------------------------------------------------------
(* get_topic_info, is_supported_type and the type list: what is monitored. *)
DataTopics == {t \in Names : Graph[t].matches /\ Graph[t].types = {"std_msgs/msg/Header"}}

(* MonitoredTopic.__init__.                                                *)
NewTopic == [expected |-> None, initial |-> None, received |-> {}, status |-> "Offline",
             changed |-> FALSE, age |-> 0]

MonitorInit ==
    /\ starts = [t \in Names |-> 0] /\ cycle = [t \in Names |-> None] /\ inFlight = [t \in Names |-> <<>>]
    /\ monitored = {} /\ topic = [t \in Names |-> NewTopic]
    /\ latency = [t \in Names |-> None] /\ period = [t \in Names |-> None]
    /\ main = "wait" /\ cause = "none" /\ sinceCycle = 0
    /\ shown = [t \in Names |-> "Offline"] /\ rate = [t \in Names |-> NoRate]
    /\ points = [t \in Names |-> 0] /\ xData = 0 /\ spotless = {}

Running == main # "ended"
Saturated(n, bound) == Min({n, bound})

-------------------------------------------------------------------------------
(* data_publisher: a run starts, and counts from 0.                        *)
StartPublisher(t) ==
    /\ Running /\ cycle[t] = None /\ starts[t] < MaxStarts
    /\ cycle' = [cycle EXCEPT ![t] = 0]
    /\ starts' = [starts EXCEPT ![t] = @ + 1]
    /\ spotless' = IF topic[t].status = "Offline" /\ inFlight[t] = <<>> THEN spotless \cup {t} ELSE spotless \ {t}
    /\ UNCHANGED <<inFlight, monitored, topic, monitorTimers, main, cause, sinceCycle, display>>

Sent(t, value, arrives) == [inFlight EXCEPT ![t] = IF arrives THEN Append(@, value) ELSE @]

(* publish_msg(cycle_count): the message may be lost, and is when nobody   *)
(* has subscribed yet.                                                     *)
PublishMessage(t, arrives) ==
    /\ Running /\ cycle[t] # None /\ cycle[t] < EndAfter /\ Len(inFlight[t]) < MaxInFlight
    /\ arrives => t \in monitored
    /\ inFlight' = Sent(t, cycle[t], arrives)
    /\ cycle' = [cycle EXCEPT ![t] = @ + 1]
    /\ spotless' = IF arrives \/ (topic[t].status = "Offline" /\ inFlight[t] = <<>>) THEN spotless ELSE spotless \ {t}
    /\ UNCHANGED <<starts, monitored, topic, monitorTimers, main, cause, sinceCycle, display>>

(* publish_msg(-1) and the end: after end_after messages or at an          *)
(* interrupt.                                                              *)
Goodbye(t, arrives) ==
    /\ Running /\ cycle[t] # None /\ cycle[t] > 0 /\ Len(inFlight[t]) < MaxInFlight
    /\ ~arrives => LosesGoodbye \/ t \notin monitored
    /\ arrives => t \in monitored
    /\ inFlight' = Sent(t, -1, arrives)
    /\ cycle' = [cycle EXCEPT ![t] = None]
    /\ UNCHANGED <<starts, monitored, topic, monitorTimers, main, cause, sinceCycle, display, spotless>>

-------------------------------------------------------------------------------
(* add_monitored_topic: the topic is subscribed to and is entered last;    *)
(* its timers are created cancelled.                                       *)
Subscribed(t) ==
    /\ monitored' = monitored \cup {t}
    /\ latency' = [latency EXCEPT ![t] = None]
    /\ period' = [period EXCEPT ![t] = None]

(* The receiving thread: run_topic_listening finds a topic while it is in  *)
(* the graph.                                                              *)
AddMonitoredTopic(t) ==
    /\ Running /\ t \in DataTopics \ monitored /\ cycle[t] # None
    /\ Subscribed(t)
    /\ UNCHANGED <<publishers, topic, main, cause, sinceCycle, display, spotless>>

FlagAfter(m, status) == m.changed \/ status # m.status

ExpectedAfter(value) == IF value = -1 THEN None ELSE value + 1

(* topic_data_callback.                                                    *)
TopicDataCallback(t) ==
    /\ Running /\ inFlight[t] # <<>>
    /\ inFlight' = [inFlight EXCEPT ![t] = Tail(@)]
    /\ LET value == Head(inFlight[t])
           m     == topic[t]
           first == m.expected = None
           status == IF value = -1 THEN "Offline" ELSE "Alive"
       IN  /\ topic' = [topic EXCEPT ![t] =
                 [expected |-> ExpectedAfter(value),
                  initial  |-> IF first THEN value ELSE m.initial,
                  received |-> IF value = -1 THEN m.received ELSE m.received \cup {value},
                  status   |-> status, changed |-> FlagAfter(m, status), age |-> 0]]
           /\ period' = [period EXCEPT ![t] = None]
           /\ latency' = [latency EXCEPT ![t] = IF first \/ value # -1 THEN AllowedLatency ELSE @]
    /\ UNCHANGED <<starts, cycle, monitored, main, cause, sinceCycle, display, spotless>>

PeriodAfterLatency == ExpectedPeriod

(* allowed_latency_timer_callback.                                         *)
AllowedLatencyTimerCallback(t) ==
    /\ Running /\ latency[t] = 0
    /\ latency' = [latency EXCEPT ![t] = None]
    /\ period' = [period EXCEPT ![t] = PeriodAfterLatency]
    /\ spotless' = spotless \ {t}
    /\ UNCHANGED <<publishers, monitored, topic, main, cause, sinceCycle, display>>

(* increment_expected_value.                                               *)
IncrementExpectedValue(t) ==
    /\ Running /\ period[t] = 0
    /\ topic' = [topic EXCEPT ![t].expected = IF @ = None THEN @ ELSE Saturated(@ + 1, MaxExpected)]
    /\ period' = [period EXCEPT ![t] = ExpectedPeriod]
    /\ UNCHANGED <<publishers, monitored, latency, main, cause, sinceCycle, display, spotless>>

(* A message that does not begin with a number, from some other publisher  *)
(* of the topic: int() raises, the receiving thread ends, and with it the  *)
(* main loop.                                                              *)
ReceiveUncounted(t) ==
    /\ Running /\ main = "wait" /\ t \in monitored
    /\ main' = "ended" /\ cause' = "ValueError"
    /\ UNCHANGED <<publishers, monitored, topic, monitorTimers, sinceCycle, display, spotless>>

-------------------------------------------------------------------------------
(* The main thread: check_status, calculate_statistics and update_display. *)

GoesStale(m) == m.status # "Offline" /\ m.age > StaleTime

(* update_topic_statuses.                                                  *)
UpdateTopicStatuses ==
    /\ main = "wait" /\ sinceCycle >= StatsPeriod
    /\ LET Changed(t) == topic[t].changed \/ (GoesStale(topic[t]) /\ topic[t].status # "Stale")
       IN  main' = IF (\E t \in monitored : Changed(t)) THEN "output" ELSE "calculate"
    /\ topic' = [t \in Names |->
                    IF t \notin monitored THEN topic[t]
                    ELSE [topic[t] EXCEPT !.changed = FALSE,
                                          !.status = IF GoesStale(topic[t]) THEN "Stale" ELSE @]]
    /\ sinceCycle' = 0
    /\ UNCHANGED <<publishers, monitored, monitorTimers, cause, display, spotless>>

OutputStatus ==
    /\ main = "output"
    /\ shown' = [t \in Names |-> IF t \in monitored THEN topic[t].status ELSE shown[t]]
    /\ main' = "calculate"
    /\ UNCHANGED <<publishers, monitored, topic, monitorTimers, cause, sinceCycle, rate, points, xData, spotless>>

(* Mutant: the next value is already counted as expected.                  *)
ExpectedValues_Next(m) == Max({m.initial, m.expected - WindowSize}) .. m.expected

(* The values the current reception rate is about.                         *)
ExpectedValues(m) == Max({m.initial, m.expected - WindowSize}) .. (m.expected - 1)

(* calculate_statistics; for an empty range the division raises.           *)
CalculateStatistics ==
    LET Online(t) == t \in monitored /\ topic[t].status # "Offline"
    IN  /\ main = "calculate"
        /\ IF \E t \in monitored : Online(t) /\ ExpectedValues(topic[t]) = {}
           THEN /\ main' = "ended" /\ cause' = "ZeroDivisionError"
                /\ UNCHANGED <<rate, points>>
           ELSE /\ main' = (IF ShowDisplay THEN "draw" ELSE "wait")
                /\ rate' = [t \in Names |->
                     IF t \notin monitored THEN rate[t]
                     ELSE IF ~Online(t) THEN NoRate
                     ELSE [count |-> Cardinality(ExpectedValues(topic[t]) \cap topic[t].received),
                           of |-> Cardinality(ExpectedValues(topic[t])), spotless |-> t \in spotless]]
                /\ points' = [t \in Names |-> IF t \in monitored THEN Saturated(points[t] + 1, 2) ELSE points[t]]
                /\ UNCHANGED cause
    /\ UNCHANGED <<publishers, monitored, topic, monitorTimers, sinceCycle, shown, xData, spotless>>

(* update_display: x_data[-len(y_data):] is all of x_data for a line       *)
(* without points, which cannot be drawn unless x_data has one point.      *)
UpdateDisplay ==
    /\ main = "draw"
    /\ xData' = Saturated(xData + 1, 2)
    /\ IF xData' > 1 /\ \E t \in monitored : points[t] = 0
       THEN main' = "ended" /\ cause' = "draw"
       ELSE main' = "wait" /\ UNCHANGED cause
    /\ UNCHANGED <<publishers, monitored, topic, monitorTimers, sinceCycle, shown, rate, points, spotless>>

-------------------------------------------------------------------------------
CountDown(timer) == [t \in Names |-> IF timer[t] = None THEN None ELSE timer[t] - 1]

(* A tick passes when no timer is due and the main thread is not too late. *)
MonitorTick ==
    /\ main = "wait" /\ sinceCycle < StatsPeriod + MaxLag
    /\ \A t \in Names : latency[t] # 0 /\ period[t] # 0
    /\ sinceCycle' = sinceCycle + 1
    /\ latency' = CountDown(latency) /\ period' = CountDown(period)
    /\ topic' = [t \in Names |-> [topic[t] EXCEPT !.age = Saturated(@ + 1, MaxAge)]]
    /\ UNCHANGED <<publishers, monitored, main, cause, display, spotless>>

MonitorNext ==
    \/ \E t \in Names : StartPublisher(t) \/ AddMonitoredTopic(t) \/ TopicDataCallback(t)
                        \/ AllowedLatencyTimerCallback(t) \/ IncrementExpectedValue(t) \/ ReceiveUncounted(t)
    \/ \E t \in Names, arrives \in BOOLEAN : PublishMessage(t, arrives) \/ Goodbye(t, arrives)
    \/ UpdateTopicStatuses \/ OutputStatus \/ CalculateStatistics \/ UpdateDisplay
    \/ MonitorTick

MonitorSpec == MonitorInit /\ [][MonitorNext]_monitorVars

-------------------------------------------------------------------------------
(* A topic that is not offline has an expected and an initial value: no    *)
(* interleaving of messages, timers and checks lets the rate be computed   *)
(* from None.                                                              *)
OnlineTopicsAreCounted ==
    \A t \in Names : topic[t].status # "Offline" => topic[t].expected # None /\ topic[t].initial # None

(* Every change of a status is output by the next check, whatever arrives  *)
(* between the two times the check takes the lock: the status shown is the *)
(* present one unless a check is due to show it.                           *)
StatusIsShown ==
    main # "output" =>
        \A t \in monitored : shown[t] = topic[t].status \/ topic[t].changed

SilentFor(t, ticks) == topic[t].age > ticks + StatsPeriod + MaxLag + 1

(* A topic that has been silent for the stale time and a round of the main *)
(* thread is not called alive.                                             *)
SilenceIsStale ==
    \A t \in monitored : SilentFor(t, StaleTime) => topic[t].status # "Alive"

RateRunsOut == AllowedLatency + WindowSize * ExpectedPeriod

(* The rate of a silent topic falls to zero: after the allowed latency and *)
(* one expected period per message of the window, and a round of the main  *)
(* thread.                                                                 *)
SilenceLowersTheRate ==
    \A t \in monitored : starts[t] = 1 /\ SilentFor(t, RateRunsOut) => rate[t].count = 0

(* A topic none of whose messages was lost or late has a rate of 100 %.    *)
LosslessIsFull == \A t \in Names : rate[t].spotless => rate[t].count = rate[t].of

(* The two loops of the monitor are infinite (the comment in main): the    *)
(* processing loop is not ended by the values publishers send.             *)
RateIsAlwaysDefined == cause # "ZeroDivisionError"

(* What the monitor tells of a topic: a rate that is defined, full when    *)
(* nothing was lost, falling when nothing comes, and a status that is      *)
(* shown and follows the messages.                                         *)
RatesAreRight ==
    /\ OnlineTopicsAreCounted
    /\ StatusIsShown
    /\ SilenceIsStale
    /\ SilenceLowersTheRate
    /\ LosslessIsFull
    /\ RateIsAlwaysDefined
=============================================================================
