------------------------------ MODULE EventBus ------------------------------
(***************************************************************************)
(* The event bus (internal/events) with its readers: the forwarder of      *)
(* cmd/server that feeds the activity log, and the event stream handlers   *)
(* of httpapi.  An event is the number of its publication; the first       *)
(* MaxEvents of a behaviour are followed.                                  *)
(*                                                                         *)
(* Publish holds the read lock and never waits: a full buffer misses the   *)
(* event.  (Publications that overlap may reach two subscribers in         *)
(* different orders; the properties speak of one.)  The stream handlers    *)
(* need an http.Flusher; the writer that requestLogger passes on           *)
(* (statusResponseWriter) is none, so that behind Handler they answer an   *)
(* error before they subscribe.                                            *)
(***************************************************************************)
EXTENDS Naturals, Sequences, FiniteSets

CONSTANTS
    Clients,        \* connections to an event stream
    BusBuffer,      \* the capacity of a subscription, 32 in the code
    MaxEvents       \* how many publications a behaviour follows

ASSUME BusAssumption == BusBuffer \in Nat /\ MaxEvents \in Nat

VARIABLES
    flushes,        \* the response writer is an http.Flusher
    published,      \* the number of events published
    subscribers,    \* Bus.subscribers
    buffer,         \* the channel of every subscription
    since,          \* events published before the forwarder subscribed
    activity,       \* ActivityLog, the events in the order appended
    stream,         \* what a client's handler is doing
    anonymous,      \* the events that carry no project
    missed          \* the events that found the forwarder's channel full

busVars == <<flushes, published, subscribers, buffer, since, activity, stream, anonymous, missed>>

\* The subscription of the forwarder, made under context.Background.
Forwarder == "forwarder"

ASSUME ForwarderAssumption == Forwarder \notin Clients

Readers == Clients \cup {Forwarder}

BusInit ==
    /\ flushes \in BOOLEAN
    /\ published = 0
    /\ subscribers = {}
    /\ buffer = [r \in Readers |-> <<>>]
    /\ since = 0
    /\ activity = <<>>
    /\ stream = [c \in Clients |-> "none"]
    /\ anonymous = {}
    /\ missed = {}

\* Mutant: one slot of the buffer is never used.
OfferShort(q, e) == IF Len(q) < BusBuffer - 1 THEN Append(q, e) ELSE q

\* The non-blocking send of Publish.
Offer(q, e) == IF Len(q) < BusBuffer THEN Append(q, e) ELSE q

\* Publish of an event, which is of a project or not: deployment.Manager.emit
\* names none, and an inference request may name none.
PublishEvent(named) ==
    LET e == published + 1 IN
    /\ published < MaxEvents
    /\ published' = e
    /\ buffer' = [r \in Readers |-> IF r \in subscribers THEN Offer(buffer[r], e) ELSE buffer[r]]
    /\ anonymous' = IF named THEN anonymous ELSE anonymous \cup {e}
    /\ missed' = IF Forwarder \in subscribers /\ Len(buffer[Forwarder]) >= BusBuffer
                 THEN missed \cup {e} ELSE missed
    /\ UNCHANGED <<flushes, subscribers, since, activity, stream>>

NoEvent == UNCHANGED busVars

\* Publish, while events are followed.
Publish ==
    \/ \E named \in BOOLEAN : PublishEvent(named)
    \/ published >= MaxEvents /\ NoEvent

-----------------------------------------------------------------------------
\* Subscribe: the channel enters the map under the write lock.
Subscribe(r) ==
    /\ r \notin subscribers
    /\ subscribers' = subscribers \cup {r}

\* forwardProductActivity is a goroutine of its own: what is published before
\* it has subscribed is not seen by it.
StartForwarder ==
    /\ Subscribe(Forwarder)
    /\ since' = published
    /\ UNCHANGED <<flushes, published, buffer, activity, stream, anonymous, missed>>

\* The loop of forwardProductActivity, with AppendEvent and Append, which drops
\* an event that carries no project.
AppendActivity ==
    LET e == Head(buffer[Forwarder]) IN
    /\ buffer[Forwarder] # <<>>
    /\ activity' = IF e \in anonymous THEN activity ELSE Append(activity, e)
    /\ buffer' = [buffer EXCEPT ![Forwarder] = Tail(@)]
    /\ UNCHANGED <<flushes, published, subscribers, since, stream, anonymous, missed>>

\* events and projectActivityStream, up to the subscription.
OpenStream(c) ==
    /\ stream[c] = "none"
    /\ IF flushes
       THEN Subscribe(c) /\ stream' = [stream EXCEPT ![c] = "open"]
       ELSE stream' = [stream EXCEPT ![c] = "refused"] /\ UNCHANGED subscribers
    /\ UNCHANGED <<flushes, published, buffer, since, activity, anonymous, missed>>

\* The loop of the handlers; it goes on after the client has left, until the
\* channel is closed and empty.
WriteEvent(c) ==
    /\ stream[c] \in {"open", "left", "closed"}
    /\ buffer[c] # <<>>
    /\ buffer' = [buffer EXCEPT ![c] = Tail(@)]
    /\ UNCHANGED <<flushes, published, subscribers, since, activity, stream, anonymous, missed>>

\* The request's context ends.
Leave(c) ==
    /\ stream[c] = "open"
    /\ stream' = [stream EXCEPT ![c] = "left"]
    /\ UNCHANGED <<flushes, published, subscribers, buffer, since, activity, anonymous, missed>>

\* The goroutine of Subscribe: delete and close under the write lock.
Unsubscribe(c) ==
    /\ stream[c] = "left"
    /\ subscribers' = subscribers \ {c}
    /\ stream' = [stream EXCEPT ![c] = "closed"]
    /\ UNCHANGED <<flushes, published, buffer, since, activity, anonymous, missed>>

\* The handler returns.
EndStream(c) ==
    /\ stream[c] = "closed" /\ buffer[c] = <<>>
    /\ stream' = [stream EXCEPT ![c] = "ended"]
    /\ UNCHANGED <<flushes, published, subscribers, buffer, since, activity, anonymous, missed>>

HandleStep(c) == WriteEvent(c) \/ EndStream(c)

ClientStep(c) == OpenStream(c) \/ Leave(c) \/ Unsubscribe(c) \/ HandleStep(c)

-----------------------------------------------------------------------------
BusTypeOK ==
    /\ flushes \in BOOLEAN /\ published \in 0..MaxEvents /\ since \in 0..MaxEvents
    /\ subscribers \subseteq Readers
    /\ anonymous \subseteq 1..published /\ missed \subseteq 1..published
    /\ \A r \in Readers : Len(buffer[r]) <= BusBuffer
    /\ \A c \in Clients :
          /\ stream[c] \in {"none", "refused", "open", "left", "closed", "ended"}
          /\ c \in subscribers <=> stream[c] \in {"open", "left"}

Increasing(q) == \A i, j \in DOMAIN q : i < j => q[i] < q[j]

\* The activity log and what is on its way to it hold the events published
\* since the forwarder subscribed, in order and once each, and the log none
\* without a project.  One is missing only if it carries no project, or if the
\* forwarder's channel was full of unread ones at the moment it was published.
ActivityFaithful ==
    LET seen == activity \o buffer[Forwarder]
        numbers == {seen[i] : i \in DOMAIN seen}
    IN
    /\ Increasing(seen) /\ \A n \in numbers : n > since
    /\ \A i \in DOMAIN activity : activity[i] \notin anonymous
    /\ Forwarder \in subscribers =>
         \A e \in (since + 1)..published : e \in numbers \cup anonymous \cup missed

\* When a client has left, its subscription is removed and closed and the
\* handler, having drained the channel, returns.
StreamEnds ==
    \A c \in Clients : (stream[c] = "left") ~> (stream[c] = "ended")
=============================================================================
