-------------------------- MODULE RabbitConnection --------------------------
(***************************************************************************)
(* The process's connection to the broker (config/rabbitmq.ts): the module *)
(* variables connection, publisherChannel, consumerChannel, reconnectTimer *)
(* and isRecovering, and the three tasks that work on them between their   *)
(* awaits: the startup, the recovery that a timer starts after a close,    *)
(* and the outbox worker, which asks for its channel in every cycle.       *)
(*                                                                         *)
(* A connection or a channel keeps its name, a number, only while it is    *)
(* open or referred to, so the numbers are used again and stay small.      *)
(*                                                                         *)
(* A definition Name_Variant is Name with a plausible mistake in it.  No   *)
(* specification uses it; it is there to show that the properties notice.  *)
(***************************************************************************)
EXTENDS Naturals, FiniteSets

CONSTANTS
    MaxCloses,           \* bound: connections the broker or the network closes
    MaxConnectFailures,  \* bound: attempts to connect that fail
    MaxChannelCloses,    \* bound: consumer channels the broker closes alone
    None                 \* null

Connections == Nat
Channels    == [conn : Connections, nr : Nat]

\* What the constants must satisfy.
RabbitConnectionConstants ==
    /\ None \notin Connections \cup Channels
    /\ MaxCloses \in Nat
    /\ MaxConnectFailures \in Nat
    /\ MaxChannelCloses \in Nat

VARIABLES
    connection,        \* the connection the process believes in, or None
    publisherChannel,  \* the connection its publisher channel is on, or None
    consumerChannel,   \* its consumer channel, or None
    reconnectTimer,    \* whether a reconnect is scheduled
    isRecovering,
    registered,        \* whether the recovery handler is registered
    task,              \* what each task awaits
    open,              \* connections that are open, known to the process or not
    subscribed,        \* <<k, ch>>: consumer number k consumes on channel ch
    closes,            \* connections closed so far
    connectFailures,   \* attempts to connect that failed so far
    channelCloses,     \* channels closed alone so far
    strained           \* history: the last close was not one the recovery is
                       \* made for

variables == <<connection, publisherChannel, consumerChannel>>
timers    == <<reconnectTimer, isRecovering>>
faults    == <<closes, connectFailures, channelCloses, strained>>
vars      == <<variables, timers, registered, task, open, subscribed, faults>>

Tasks == {"startup", "recovery", "outbox"}

\* Order confirmation, refund and realtime, in the order they are started.
Consumers == 1..3

Idle   == [pc |-> "idle"]
Exited == [pc |-> "exited"]
Done   == [pc |-> "done"]

Running == task["startup"] # Exited

\* The first number that is not in the finite set S of numbers.
Fresh(S) == CHOOSE n \in 1..(Cardinality(S) + 1) : n \notin S

InUse == ({consumerChannel} \cup {s[2] : s \in subscribed}
            \cup {task[t].ch : t \in {u \in Tasks : task[u].pc = "consume"}}) \ {None}
FreshConn     == Fresh(open)
NewChannel(c) == [conn |-> c, nr |-> Fresh({ch.nr : ch \in InUse})]

(***************************************************************************)
(* The pieces of the functions between two awaits.  Each gives the task's  *)
(* next state.                                                             *)
(***************************************************************************)
\* getConnection, for a channel of the given kind; k is the consumer to start.
\* Two tasks that both find no connection both open one.
GetConnection(want, k) ==
    IF connection = None THEN [pc |-> "connect", want |-> want, k |-> k]
    ELSE [pc |-> "channel", want |-> want, k |-> k, on |-> connection]

\* startOrderConfirmationConsumer and its like, up to their first await.
StartConsumer(k) ==
    IF consumerChannel = None THEN GetConnection("consumer", k)
    ELSE [pc |-> "consume", k |-> k, ch |-> consumerChannel]

Goes(t, state) == task' = [task EXCEPT ![t] = state]

ScheduleReconnect == reconnectTimer' = TRUE

Forget == connection' = None /\ publisherChannel' = None /\ consumerChannel' = None

\* The recovery fails and nothing is scheduled.
Fail_NoSchedule(t) ==
    CASE t = "startup"  -> Goes(t, Exited) /\ UNCHANGED <<variables, timers>>
      [] t = "outbox"   -> Goes(t, Idle) /\ UNCHANGED <<variables, timers>>
      [] t = "recovery" -> /\ Goes(t, Idle)
                           /\ Forget
                           /\ isRecovering' = FALSE
                           /\ UNCHANGED reconnectTimer
\* An await of task t rejects: the startup exits the process, the outbox
\* worker logs and tries in its next cycle, the recovery schedules another.
Fail(t) ==
    CASE t = "startup"  -> Goes(t, Exited) /\ UNCHANGED <<variables, timers>>
      [] t = "outbox"   -> Goes(t, Idle) /\ UNCHANGED <<variables, timers>>
      [] t = "recovery" -> /\ Goes(t, Idle)
                           /\ Forget
                           /\ ScheduleReconnect
                           /\ isRecovering' = FALSE

(***************************************************************************)
(* The tasks.                                                              *)
(***************************************************************************)
At(t, pc) == Running /\ task[t].pc = pc

\* connectRabbitMQ of the worker's cycle, when it has no channel.
OutboxCycle ==
    /\ task["startup"] = Done
    /\ At("outbox", "idle")
    /\ publisherChannel = None
    /\ Goes("outbox", GetConnection("publisher", 0))
    /\ UNCHANGED <<variables, timers, registered, open, subscribed, faults>>

\* A timer that fires during a recovery does nothing.
TimerFires ==
    /\ Running
    /\ reconnectTimer
    /\ reconnectTimer' = FALSE
    /\ IF isRecovering THEN UNCHANGED <<task, isRecovering>>
       ELSE Goes("recovery", GetConnection("recovery", 0)) /\ isRecovering' = TRUE
    /\ UNCHANGED <<variables, registered, open, subscribed, faults>>

Connect(t) ==
    /\ At(t, "connect")
    /\ open' = open \cup {FreshConn}
    /\ connection' = FreshConn
    /\ Goes(t, [pc |-> "channel", want |-> task[t].want, k |-> task[t].k, on |-> FreshConn])
    /\ UNCHANGED <<publisherChannel, consumerChannel, timers, registered, subscribed, faults>>

ConnectFails(t) ==
    /\ At(t, "connect")
    /\ connectFailures < MaxConnectFailures
    /\ connectFailures' = connectFailures + 1
    /\ Fail(t)
    /\ UNCHANGED <<registered, open, subscribed, closes, channelCloses, strained>>

\* createConfirmChannel resolves.  The recovery opens a publisher channel
\* without looking whether there is one.
OpenChannel(t) ==
    LET c == task[t].on IN
    /\ At(t, "channel")
    /\ c # None
    /\ IF task[t].want = "consumer"
       THEN /\ consumerChannel' = NewChannel(c)
            /\ Goes(t, [pc |-> "consume", k |-> task[t].k, ch |-> NewChannel(c)])
            /\ UNCHANGED publisherChannel
       ELSE /\ publisherChannel' = c
            /\ Goes(t, IF t = "outbox" THEN Idle ELSE [pc |-> "topology", on |-> c])
            /\ UNCHANGED consumerChannel
    /\ UNCHANGED <<connection, timers, registered, open, subscribed, faults>>

\* setupRabbitMQTopology resolves; then the first consumer is started, by the
\* startup itself or by the recovery handler it has registered.
SetTopology(t) ==
    /\ At(t, "topology")
    /\ task[t].on # None
    /\ registered' = (registered \/ t = "startup")
    /\ IF registered'
       THEN Goes(t, StartConsumer(1)) /\ UNCHANGED timers
       ELSE Goes(t, Idle) /\ isRecovering' = FALSE /\ UNCHANGED reconnectTimer
    /\ UNCHANGED <<variables, open, subscribed, faults>>

\* channel.consume resolves, and the next consumer is started.
Consume(t) ==
    LET k == task[t].k IN
    /\ At(t, "consume")
    /\ task[t].ch # None
    /\ subscribed' = subscribed \cup {<<k, task[t].ch>>}
    /\ IF k + 1 \in Consumers THEN Goes(t, StartConsumer(k + 1)) /\ UNCHANGED isRecovering
       ELSE IF t = "startup"  THEN Goes(t, Done) /\ UNCHANGED isRecovering
       ELSE Goes(t, Idle) /\ isRecovering' = FALSE
    /\ UNCHANGED <<variables, reconnectTimer, registered, open, faults>>

\* A call on a connection or a channel that has closed meanwhile rejects.
Rejected(t) ==
    /\ \/ (At(t, "channel") \/ At(t, "topology")) /\ task[t].on = None
       \/ At(t, "consume") /\ task[t].ch = None
    /\ Fail(t)
    /\ UNCHANGED <<registered, open, subscribed, faults>>

(***************************************************************************)
(* Closes.                                                                 *)
(***************************************************************************)
\* A task that uses what has closed will be rejected.
Lost(state, c) ==
    CASE state.pc \in {"channel", "topology"} /\ state.on = c -> [state EXCEPT !.on = None]
      [] state.pc = "consume" /\ state.ch # None /\ state.ch.conn = c -> [state EXCEPT !.ch = None]
      [] OTHER -> state

\* The close event clears the connection only.
Close_KeepsChannels(c) ==
    /\ Running
    /\ closes < MaxCloses
    /\ closes' = closes + 1
    /\ strained' = isRecovering
    /\ open' = open \ {c}
    /\ subscribed' = {s \in subscribed : s[2].conn # c}
    /\ task' = [t \in Tasks |-> Lost(task[t], c)]
    /\ connection' = None
    /\ ScheduleReconnect
    /\ UNCHANGED <<publisherChannel, consumerChannel, isRecovering, registered, connectFailures, channelCloses>>
\* The close event of any connection, the current one or not, clears all
\* three variables.  The timer it starts is lost when it fires before a
\* recovery that runs has ended.
Close(c) ==
    /\ Running
    /\ closes < MaxCloses
    /\ closes' = closes + 1
    /\ strained' = isRecovering
    /\ open' = open \ {c}
    /\ subscribed' = {s \in subscribed : s[2].conn # c}
    /\ task' = [t \in Tasks |-> Lost(task[t], c)]
    /\ Forget
    /\ ScheduleReconnect
    /\ UNCHANGED <<isRecovering, registered, connectFailures, channelCloses>>

\* A consumer channel closes and its connection stays: the variable is
\* cleared, whichever channel it holds, and nothing is scheduled.
CloseChannel(ch) ==
    /\ Running
    /\ channelCloses < MaxChannelCloses
    /\ channelCloses' = channelCloses + 1
    /\ strained' = TRUE
    /\ consumerChannel' = None
    /\ subscribed' = {s \in subscribed : s[2] # ch}
    /\ task' = [t \in Tasks |-> IF task[t].pc = "consume" /\ task[t].ch = ch
                                THEN [task[t] EXCEPT !.ch = None] ELSE task[t]]
    /\ UNCHANGED <<connection, publisherChannel, timers, registered, open, closes, connectFailures>>

Init ==
    /\ connection = None
    /\ publisherChannel = None
    /\ consumerChannel = None
    /\ reconnectTimer = FALSE
    /\ isRecovering = FALSE
    /\ registered = FALSE
    /\ task = [t \in Tasks |-> IF t = "startup"
                               THEN [pc |-> "connect", want |-> "publisher", k |-> 0] ELSE Idle]
    /\ open = {}
    /\ subscribed = {}
    /\ closes = 0
    /\ connectFailures = 0
    /\ channelCloses = 0
    /\ strained = FALSE

Step(t) == Connect(t) \/ ConnectFails(t) \/ OpenChannel(t) \/ SetTopology(t)
             \/ Consume(t) \/ Rejected(t)

Next == \/ OutboxCycle
        \/ TimerFires
        \/ \E t \in Tasks : Step(t)
        \/ \E c \in open : Close(c)
        \/ \E ch \in InUse : CloseChannel(ch)

Spec == Init /\ [][Next]_vars

\* Timers fire, the outbox worker goes on with its cycles, and what a task
\* awaits settles.
FairSpec ==
    /\ Spec
    /\ WF_vars(OutboxCycle)
    /\ WF_vars(TimerFires)
    /\ \A t \in Tasks : WF_vars(Step(t))

-----------------------------------------------------------------------------
(***************************************************************************)
(* Properties.                                                             *)
(***************************************************************************)
Wants == {"publisher", "consumer", "recovery"}
TaskStates ==
    {Idle, Exited, Done}
      \cup [pc : {"connect"}, want : Wants, k : 0..3]
      \cup [pc : {"channel"}, want : Wants, k : 0..3, on : Connections \cup {None}]
      \cup [pc : {"topology"}, on : Connections \cup {None}]
      \cup [pc : {"consume"}, k : Consumers, ch : Channels \cup {None}]

\* Every variable has its type; open has the connections the process has
\* forgotten, too.
TypeOK ==
    /\ connection \in Connections \cup {None}
    /\ publisherChannel \in Connections \cup {None}
    /\ consumerChannel \in Channels \cup {None}
    /\ reconnectTimer \in BOOLEAN
    /\ isRecovering = (task["recovery"] # Idle)
    /\ registered \in BOOLEAN
    /\ task \in [Tasks -> TaskStates]
    /\ open \subseteq Connections
    /\ subscribed \subseteq Consumers \X Channels
    /\ closes \in 0..MaxCloses
    /\ connectFailures \in 0..MaxConnectFailures
    /\ channelCloses \in 0..MaxChannelCloses
    /\ strained \in BOOLEAN

\* The three variables never hold what has closed: a publisher or a consumer
\* that takes its channel from them takes one of an open connection, also when
\* several connections were opened by mistake and close in any order.
VariablesAreLive ==
    /\ connection # None => connection \in open
    /\ publisherChannel # None => publisherChannel \in open
    /\ consumerChannel # None => consumerChannel.conn \in open

AllConsume == \A k \in Consumers : \E s \in subscribed : s[1] = k
Starting   == task["startup"] # Done

\* The last close is one the recovery is made for: a connection, and not while
\* a recovery ran.  Such a close also makes up for the others before it.
Foreseen == ~strained

\* A consumer that is not subscribed has somebody who will start it: the
\* startup, a recovery or a timer.
NobodyForgotten == Foreseen => AllConsume \/ Starting \/ isRecovering \/ reconnectTimer

\* README, "RabbitMQ Unavailable": the recovery logic brings the messaging
\* back.  When the last close is one it is made for, whatever closed before,
\* every consumer is subscribed for good, unless the process has exited.
ConsumersComeBack == <>[](Foreseen => AllConsume \/ ~Running)
=============================================================================
