------------------------------- MODULE PubSub -------------------------------
(***************************************************************************)
(* RedisPubSub (src/src/pubsub.rs): publish() with its retries, Redis, and *)
(* the task that subscribe() starts, which connects, subscribes to one     *)
(* channel after the other, hands messages to the callback, and starts     *)
(* again when its connection is lost.                                      *)
(***************************************************************************)
EXTENDS Integers, Sequences, FiniteSets

CONSTANTS
    Messages,     \* each published by one publish() call
    Channels,     \* the channels of the subscriber
    ChannelOf,    \* the channel of each message
    Garbled,      \* messages that do not decode to the type of the callback
    MaxAttempts,  \* RetryConfig.max_attempts
    MaxOutages,   \* bound: how often Redis goes down
    MaxFaults,    \* bound: other failures of a connection or a request
    MaxPanics     \* bound: panics of the callback

ASSUME PubSubAssumption ==
    /\ ChannelOf \in [Messages -> Channels] /\ Garbled \subseteq Messages
    /\ MaxAttempts \in Nat \ {0}
    /\ MaxOutages \in Nat /\ MaxFaults \in Nat /\ MaxPanics \in Nat

VARIABLES
    up, outages, faults, panics,
    publish,   \* what each publish() is about to do
    tries,     \* its attempts
    late,      \* its requests that nobody waits for and Redis may still run
    log,       \* history: the messages in the order Redis ran PUBLISH
    sub,       \* what the subscriber's task is about to do
    attempt,   \* its attempts to connect
    todo,      \* channels it has still to subscribe to on this connection
    conn,      \* its connection
    subs,      \* channels Redis sends to this connection
    stream,    \* messages on this connection, by their place in the log
    handled,   \* history: places in the log given to the callback
    due        \* history: places logged while it listens on this connection

redis == <<up, outages, faults, panics>>
publishers == <<publish, tries, late>>
connection == <<conn, subs, stream>>
subscriber == <<sub, attempt, todo, connection, handled>>
vars == <<redis, publishers, log, subscriber, due>>

Init ==
    /\ up = TRUE /\ outages = 0 /\ faults = 0 /\ panics = 0
    /\ publish = [m \in Messages |-> "idle"]
    /\ tries = [m \in Messages |-> 0] /\ late = [m \in Messages |-> 0]
    /\ log = <<>>
    /\ sub = "connect" /\ attempt = 1 /\ todo = Channels
    /\ conn = "none" /\ subs = {} /\ stream = <<>>
    /\ handled = <<>> /\ due = {}

-----------------------------------------------------------------------------
(* Faults.                                                                 *)

\* The connection is lost with any messages that have not reached the client.
Lose ==
    IF conn = "open"
    THEN /\ conn' = "broken"
         /\ \E n \in 0..Len(stream) : stream' = SubSeq(stream, 1, n)
         /\ UNCHANGED <<sub, attempt, todo, subs, handled>>
    ELSE UNCHANGED subscriber

GoDown ==
    /\ up /\ outages < MaxOutages
    /\ up' = FALSE /\ outages' = outages + 1
    /\ Lose
    /\ UNCHANGED <<faults, panics, publishers, log, due>>

GoUp ==
    /\ ~up
    /\ up' = TRUE
    /\ UNCHANGED <<outages, faults, panics, publishers, log, subscriber, due>>

Fault ==
    /\ faults < MaxFaults
    /\ faults' = faults + 1
    /\ UNCHANGED <<up, outages, panics>>

Break ==
    /\ conn = "open"
    /\ Fault
    /\ Lose
    /\ UNCHANGED <<publishers, log, due>>

\* A request fails because Redis is down or of a fault of its own.
Failure == \/ ~up /\ UNCHANGED redis
           \/ Fault

-----------------------------------------------------------------------------
(* publish().                                                              *)

Begin(m) ==
    /\ publish[m] = "idle"
    /\ publish' = [publish EXCEPT ![m] = "wait"]
    /\ tries' = [tries EXCEPT ![m] = 1]
    /\ UNCHANGED <<redis, late, log, subscriber, due>>

\* PUBLISH goes to whoever is subscribed now, and is gone.
Run(m) ==
    LET place == Len(log) + 1 IN
    /\ up
    /\ log' = Append(log, m)
    /\ stream' = IF conn = "open" /\ ChannelOf[m] \in subs
                 THEN Append(stream, place) ELSE stream
    /\ due' = IF conn = "open" /\ sub = "listen" THEN due \cup {place} ELSE due
    /\ UNCHANGED <<redis, tries, sub, attempt, todo, conn, subs, handled>>

Publish(m) ==
    /\ publish[m] = "wait"
    /\ Run(m)
    /\ publish' = [publish EXCEPT ![m] = "applied"]
    /\ UNCHANGED late

LatePublish(m) ==
    /\ late[m] > 0
    /\ Run(m)
    /\ late' = [late EXCEPT ![m] = @ - 1]
    /\ UNCHANGED publish

PublishOk(m) ==
    /\ publish[m] = "applied"
    /\ publish' = [publish EXCEPT ![m] = "ok"]
    /\ UNCHANGED <<redis, tries, late, log, subscriber, due>>

\* The attempt fails, run by Redis, still to be run, or never: retry while
\* attempts remain, or return the error.
PublishError(m) ==
    /\ publish[m] \in {"wait", "applied"}
    /\ Failure
    /\ late' \in {late} \cup
          IF publish[m] = "wait" /\ up THEN {[late EXCEPT ![m] = @ + 1]} ELSE {}
    /\ \/ /\ tries[m] < MaxAttempts
          /\ tries' = [tries EXCEPT ![m] = @ + 1]
          /\ publish' = [publish EXCEPT ![m] = "wait"]
       \/ /\ publish' = [publish EXCEPT ![m] = "failed"]
          /\ UNCHANGED tries
    /\ UNCHANGED <<log, subscriber, due>>

-----------------------------------------------------------------------------
(* The task of subscribe(): subscribe_and_listen in a loop.                *)

Connect ==
    /\ sub = "connect" /\ up
    /\ conn' = "open" /\ subs' = {} /\ stream' = <<>>
    /\ sub' = "subscribe" /\ todo' = Channels
    /\ due' = {}
    /\ UNCHANGED <<redis, publishers, log, attempt, handled>>

\* Mutant: the task ends when connecting has failed for good.
ConnectErrorEnds ==
    /\ sub = "connect"
    /\ Failure
    /\ \/ attempt < MaxAttempts /\ attempt' = attempt + 1 /\ UNCHANGED sub
       \/ sub' = "ended" /\ UNCHANGED attempt
    /\ UNCHANGED <<publishers, log, todo, connection, handled, due>>

\* Retried inside; once the retries are used up or pointless, sleep 5 s.
ConnectError ==
    /\ sub = "connect"
    /\ Failure
    /\ \/ attempt < MaxAttempts /\ attempt' = attempt + 1 /\ UNCHANGED sub
       \/ sub' = "sleep" /\ UNCHANGED attempt
    /\ UNCHANGED <<publishers, log, todo, connection, handled, due>>

Subscribe(ch) ==
    /\ sub = "subscribe" /\ conn = "open"
    /\ ch \in todo
    /\ subs' = subs \cup {ch} /\ todo' = todo \ {ch}
    /\ UNCHANGED <<redis, publishers, log, sub, attempt, conn, stream, handled, due>>

\* Mutant: what the lost connection had delivered is kept for the next one.
DropConnectionOnly ==
    /\ conn' = "none" /\ subs' = {} /\ UNCHANGED stream
    /\ sub' = "sleep"
    /\ UNCHANGED <<publishers, log, attempt, todo, handled, due>>

\* subscribe_and_listen returns an error, drops the connection and sleeps.
Drop ==
    /\ conn' = "none" /\ subs' = {} /\ stream' = <<>>
    /\ sub' = "sleep"
    /\ UNCHANGED <<publishers, log, attempt, todo, handled, due>>

\* Mutant: the channel is skipped.
SubscribeErrorSkips ==
    /\ sub = "subscribe" /\ todo # {}
    /\ (conn = "broken" /\ UNCHANGED redis) \/ Fault
    /\ \E ch \in todo : todo' = todo \ {ch}
    /\ UNCHANGED <<publishers, log, sub, attempt, connection, handled, due>>

SubscribeError ==
    /\ sub = "subscribe" /\ todo # {}
    /\ (conn = "broken" /\ UNCHANGED redis) \/ Fault
    /\ Drop

\* Mutant: the stream is read before all channels have been subscribed to.
ListenEarly ==
    /\ sub = "subscribe" /\ conn = "open"
    /\ sub' = "listen"
    /\ UNCHANGED <<redis, publishers, log, attempt, todo, connection, handled, due>>

Listen ==
    /\ sub = "subscribe" /\ todo = {}
    /\ sub' = "listen"
    /\ UNCHANGED <<redis, publishers, log, attempt, todo, connection, handled, due>>

\* Mutant: the callbacks are spawned, and run in any order.
HandleSpawned ==
    /\ sub = "listen" /\ stream # <<>>
    /\ \E i \in DOMAIN stream :
          /\ handled' = IF log[stream[i]] \in Garbled
                        THEN handled ELSE Append(handled, stream[i])
          /\ stream' = SubSeq(stream, 1, i - 1) \o SubSeq(stream, i + 1, Len(stream))
    /\ UNCHANGED <<redis, publishers, log, sub, attempt, todo, conn, subs, due>>

\* The next message goes to the callback, or is logged when it does not decode.
Handle ==
    /\ sub = "listen" /\ stream # <<>>
    /\ handled' = IF log[Head(stream)] \in Garbled
                  THEN handled ELSE Append(handled, Head(stream))
    /\ stream' = Tail(stream)
    /\ UNCHANGED <<redis, publishers, log, sub, attempt, todo, conn, subs, due>>

\* The stream of a lost connection ends after what has been received.
StreamEnd ==
    /\ sub = "listen" /\ stream = <<>> /\ conn = "broken"
    /\ Drop
    /\ UNCHANGED redis

\* The callback panics, and tokio ends the task.
Panic ==
    /\ sub = "listen" /\ stream # <<>> /\ log[Head(stream)] \notin Garbled
    /\ panics < MaxPanics
    /\ panics' = panics + 1
    /\ sub' = "ended" /\ conn' = "none" /\ subs' = {} /\ stream' = <<>>
    /\ UNCHANGED <<up, outages, faults, publishers, log, attempt, todo, handled, due>>

Wake ==
    /\ sub = "sleep"
    /\ sub' = "connect" /\ attempt' = 1
    /\ UNCHANGED <<redis, publishers, log, todo, connection, handled, due>>

-----------------------------------------------------------------------------
Next ==
    \/ GoDown \/ GoUp \/ Break
    \/ \E m \in Messages :
          Begin(m) \/ Publish(m) \/ LatePublish(m) \/ PublishOk(m) \/ PublishError(m)
    \/ Connect \/ ConnectError \/ \E ch \in Channels : Subscribe(ch)
    \/ SubscribeError \/ Listen \/ Handle \/ StreamEnd \/ Panic \/ Wake

Spec == Init /\ [][Next]_vars

\* The task is polled, and a connection attempt or a request returns; nothing
\* makes anybody publish, and Redis need not come back.
FairSpec ==
    /\ Spec
    /\ WF_vars(Connect \/ (~up /\ ConnectError)) /\ WF_vars(Wake)
    /\ WF_vars(\E ch \in Channels : Subscribe(ch))
    /\ WF_vars(conn = "broken" /\ SubscribeError)
    /\ WF_vars(Listen) /\ WF_vars(Handle) /\ WF_vars(StreamEnd)

-----------------------------------------------------------------------------
(* Properties.                                                             *)

\* Every variable has its type, and messages are only on a connection.
TypeOK ==
    /\ up \in BOOLEAN /\ outages \in 0..MaxOutages
    /\ faults \in 0..MaxFaults /\ panics \in 0..MaxPanics
    /\ publish \in [Messages -> {"idle", "wait", "applied", "ok", "failed"}]
    /\ tries \in [Messages -> 0..MaxAttempts] /\ late \in [Messages -> Nat]
    /\ log \in Seq(Messages)
    /\ sub \in {"connect", "subscribe", "listen", "sleep", "ended"}
    /\ attempt \in 1..MaxAttempts /\ todo \subseteq Channels
    /\ conn \in {"none", "open", "broken"} /\ subs \subseteq Channels
    /\ stream \in Seq(DOMAIN log) /\ handled \in Seq(DOMAIN log)
    /\ due \subseteq DOMAIN log
    /\ conn = "none" => subs = {} /\ stream = <<>>

Increasing(s) == \A i, j \in DOMAIN s : i < j => s[i] < s[j]

\* The callback gets messages in the order in which Redis published them and
\* each publication once, from one connection to the next as well, and at most
\* one copy of a message for each attempt to publish it (subscribe_and_listen,
\* the retries of publish).
InOrderOncePerAttempt ==
    /\ Increasing(handled \o stream)
    /\ \A m \in Messages :
          Cardinality({i \in DOMAIN handled : log[handled[i]] = m}) <= tries[m]

\* What Redis has published on any of the channels since the subscriber listens
\* has reached the callback or is on its way there, as long as that connection
\* holds, whatever connections were lost before and at which subscription
\* (subscribe_and_listen).
NothingMissed ==
    conn = "open" =>
        \A i \in due : \/ log[i] \in Garbled
                       \/ \E n \in DOMAIN handled : handled[n] = i
                       \/ \E n \in DOMAIN stream : stream[n] = i

\* What Redis publishes on any of the channels while the subscriber listens
\* reaches the callback, past messages that do not decode, unless that connection
\* breaks or the callback panics (subscribe_and_listen).
ListenerGetsAll ==
    \A i \in 1..(MaxAttempts * Cardinality(Messages)) :
        i \in due /\ log[i] \notin Garbled
            ~> conn # "open" \/ \E n \in DOMAIN handled : handled[n] = i

\* Once Redis stays up and connections hold, the subscriber listens for good on
\* a connection that carries all its channels, however often it lost it before,
\* unless a callback has panicked (the loop in the task of subscribe).
ListensInTheEnd ==
    <>[]up =>
        <>[](panics > 0 \/ (sub = "listen" /\ conn = "open" /\ subs = Channels))

=============================================================================
