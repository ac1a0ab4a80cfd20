---------------------- MODULE FoxgloveWebSocketPlayer ----------------------
(***************************************************************************)
(* FoxgloveWebSocketPlayer: the player of a live connection.  The player   *)
(* runs on one thread and talks to a WebSocket that lives in a worker      *)
(* (WorkerSocketAdapter): what happens to the socket reaches the player as *)
(* events in the order of inbox, so that the user's calls meet a player    *)
(* that does not know yet that the connection is open, or lost.  A step is *)
(* one event handler, one timer, one call of the user, or a step of the    *)
(* server.                                                                 *)
(*                                                                         *)
(* The server carries out what it is sent at once; what makes it late is   *)
(* that the player reads its answers late.  What is in a message, the      *)
(* clock and the frames given to the listener are left out.                *)
(***************************************************************************)
EXTENDS Integers, FiniteSets, Sequences, Functions

CONSTANTS
  Channels,       \* the ids of the channels the server may advertise
  TopicOf,        \* the topic of each channel
  Unsupported,    \* the channels whose schema cannot be parsed
  Offers,         \* what a server may advertise when it is started
  Publishers,     \* the topics the user may publish on
  MaxCalls,       \* bound: how many calls the user makes, close not counted
  MaxEvents,      \* bound: changes, messages and times of the server
  MaxDrops        \* bound: connections and attempts that fail

ASSUME FoxgloveAssumption ==
  /\ IsFiniteSet(Channels) /\ DOMAIN TopicOf = Channels
  /\ Unsupported \subseteq Channels /\ Offers \subseteq SUBSET Channels
  /\ MaxCalls \in Nat /\ MaxEvents \in Nat /\ MaxDrops \in Nat

Topics == Range(TopicOf)

VARIABLES
  closed,            \* #closed
  client,            \* is #client set
  openTimer,         \* #openTimeout: #open is called in three seconds
  attemptTimer,      \* #connectionAttemptTimeout is set
  sessionId,         \* #id: the server session the player knows, 0 at first
  capable,           \* are the server's capabilities known
  unresolved,        \* #unresolvedSubscriptions
  byTopic,           \* #resolvedSubscriptionsByTopic: topic -> subscription
  byId,              \* #resolvedSubscriptionsById: subscription -> channel
  channelsByTopic,   \* #channelsByTopic: topic -> channel
  channelsById,      \* #channelsById: its keys
  unsupportedIds,    \* #unsupportedChannelIds
  canceled,          \* #recentlyCanceledSubscriptions
  unresolvedPubs,    \* #unresolvedPublications
  publications,      \* #publicationsByTopic: its keys
  service,           \* is the server's service in #servicesByName
  serviceCbs,        \* #serviceResponseCbs: its keys
  assetCbs,          \* #fetchAssetRequests: its keys
  fetched,           \* #fetchedAssets: the request of the asset, 0 if unset
  socket,            \* of the worker: "none", "connecting" or "open"
  nextSub,           \* of the client: the next subscription id
  inbox,             \* the events that the player has not handled
  session,           \* of the server: its session
  advertised,        \* of the server: the channels it advertises
  subs,              \* of the connection: subscription -> channel
  serverPubs,        \* of the connection: the topics the client publishes
  asked,             \* of the connection: requests that are not answered
  opened, greeted,   \* history: were the connection's events handled
  firstSub,          \* history: nextSub when the connection was opened
  wanted,            \* history: the topics of the last setSubscriptions
  wantedPubs,        \* history: the topics of the last setPublishers
  kept,              \* history: topics dropped while there was no client
  promises,          \* history: [kind, id] of the promises, and their state
  astray,            \* history: did a message come for no subscription
  calls, events, drops

conn == <<closed, client, openTimer, attemptTimer, opened, greeted, firstSub>>
wire == <<socket, nextSub, subs, serverPubs, asked>>
topicState == <<unresolved, byTopic, byId, channelsByTopic, channelsById,
                unsupportedIds, canceled, wanted, kept, astray>>
pubState == <<unresolvedPubs, publications, wantedPubs>>
reqState == <<service, serviceCbs, assetCbs, fetched, promises>>
sess == <<sessionId, capable>>
server == <<session, advertised>>
count == <<calls, events, drops>>
vars == <<conn, wire, inbox, topicState, pubState, reqState, sess, server,
          count>>

-----------------------------------------------------------------------------
Empty == <<>>
Only(f, S) == Restrict(f, DOMAIN f \cap S)
Without(f, S) == Restrict(f, DOMAIN f \ S)

(* A function over another one. *)
Over(f, g) == [x \in DOMAIN f \cup DOMAIN g |->
                IF x \in DOMAIN f THEN f[x] ELSE g[x]]
Event(op) == [op |-> op]
ChannelsEvent(op, S) == [op |-> op, channels |-> S]

(* The promises a call returned, by kind and request id. *)
Promise(kind) == {p \in DOMAIN promises : p[1] = kind}
Pending(kind) == {p \in Promise(kind) : promises[p] = "pending"}
Promised(p) == [q \in {p} |-> "pending"]
Settle(S) == [p \in DOMAIN promises |->
               IF p \in S THEN "settled" ELSE promises[p]]

(* How many requests of a kind there were: #nextServiceCallId and           *)
(* #nextAssetRequestId, which no connection resets.                         *)
Count(kind) == Cardinality(Promise(kind))

Init ==
  /\ closed = FALSE /\ client = TRUE /\ openTimer = FALSE
  /\ attemptTimer = TRUE /\ opened = FALSE /\ greeted = FALSE /\ firstSub = 0
  /\ socket = "connecting" /\ nextSub = 0 /\ subs = Empty
  /\ serverPubs = {} /\ asked = {} /\ inbox = <<>>
  /\ unresolved = {} /\ byTopic = Empty /\ byId = Empty
  /\ channelsByTopic = Empty /\ channelsById = {} /\ unsupportedIds = {}
  /\ canceled = {} /\ wanted = {} /\ kept = {} /\ astray = FALSE
  /\ unresolvedPubs = {} /\ publications = {} /\ wantedPubs = {}
  /\ service = FALSE /\ serviceCbs = {} /\ assetCbs = {} /\ fetched = 0
  /\ promises = Empty
  /\ sessionId = 0 /\ capable = FALSE
  /\ session = 1 /\ advertised \in Offers
  /\ calls = 0 /\ events = 0 /\ drops = 0

-----------------------------------------------------------------------------
(* The connection.                                                          *)

(* The socket ends; its last event is "close". *)
EndSocket ==
  /\ socket' = "none"
  /\ subs' = Empty /\ serverPubs' = {} /\ asked' = {}
  /\ inbox' = Append(inbox, Event("close"))
  /\ UNCHANGED nextSub

(* client.close(): nothing is left to close once the socket has ended. *)
CloseClient ==
  IF client /\ socket # "none" THEN EndSocket ELSE UNCHANGED <<wire, inbox>>

(* What a new connection tells the client first. *)
Greeting ==
  << Event("open"), [op |-> "serverInfo", session |-> session],
     Event("advertiseServices"), ChannelsEvent("advertise", advertised) >>

Accept ==
  /\ socket = "connecting"
  /\ socket' = "open"
  /\ inbox' = Greeting
  /\ UNCHANGED <<conn, nextSub, subs, serverPubs, asked, topicState, pubState,
                 reqState, sess, server, count>>

(* A connection, or an attempt to make one, fails; the server may have been *)
(* started again.                                                           *)
Drop ==
  /\ socket # "none" /\ drops < MaxDrops
  /\ EndSocket
  /\ drops' = drops + 1
  /\ \/ UNCHANGED server
     \/ session' \in {session, session + 1} /\ advertised' \in Offers
  /\ UNCHANGED <<conn, topicState, pubState, reqState, sess, calls, events>>

(* The attempt took ten seconds; the socket may have been opened just now. *)
AttemptTimeout ==
  /\ attemptTimer /\ drops < MaxDrops
  /\ attemptTimer' = FALSE
  /\ CloseClient
  /\ drops' = drops + 1
  /\ UNCHANGED <<closed, client, openTimer, opened, greeted, firstSub,
                 topicState, pubState, reqState, sess, server, calls, events>>

(* #open, three seconds after the close; what was unsubscribed before is by *)
(* then, after two seconds, no longer among the recently cancelled.         *)
Open ==
  /\ openTimer
  /\ openTimer' = FALSE
  /\ IF closed THEN UNCHANGED <<client, attemptTimer, socket, nextSub>>
     ELSE /\ client' = TRUE /\ attemptTimer' = TRUE
          /\ socket' = "connecting" /\ nextSub' = 0
  /\ canceled' = {}
  /\ UNCHANGED <<closed, opened, greeted, firstSub, inbox, subs, serverPubs,
                 asked, unresolved, byTopic, byId, channelsByTopic,
                 channelsById, unsupportedIds, wanted, kept, astray,
                 pubState, reqState, sess, server, count>>

(* The player handles the next event, which is an op. *)
Handles(op) ==
  /\ inbox # <<>> /\ Head(inbox).op = op
  /\ inbox' = Tail(inbox)
  /\ UNCHANGED <<server, count>>

(* A mutant: the requests of the lost connection are forgotten. *)
ResetWithoutAnswer ==
  /\ fetched' = 0 /\ assetCbs' = {}
  /\ UNCHANGED promises

(* Every fetch that has a callback is told that the connection was reset. *)
ResetSessionState ==
  /\ fetched' = 0 /\ assetCbs' = {}
  /\ promises' = Settle({<<"asset", id>> : id \in assetCbs})

(* A mutant: the topics that were subscribed are not asked for again. *)
ResubscribeNone == unresolved

(* Topics that were subscribed on the lost connection are to be again. *)
Resubscribe == unresolved \cup DOMAIN byTopic

OnOpen ==
  /\ Handles("open")
  /\ IF closed
     THEN UNCHANGED <<conn, sess, topicState, pubState, reqState>>
     ELSE /\ attemptTimer' = FALSE
          /\ ResetSessionState
          /\ channelsById' = {} /\ channelsByTopic' = Empty
          /\ service' = FALSE /\ serviceCbs' = {}
          /\ publications' = {}
          /\ unresolved' = Resubscribe
          /\ byId' = Empty /\ byTopic' = Empty
          /\ opened' = TRUE /\ firstSub' = nextSub
          /\ UNCHANGED <<closed, client, openTimer, greeted, sessionId,
                         capable, unsupportedIds, canceled, wanted, kept,
                         astray, unresolvedPubs, wantedPubs>>
  /\ UNCHANGED wire

(* A mutant: a lost connection is not opened again. *)
CloseForGood ==
  /\ client' = FALSE /\ attemptTimer' = FALSE
  /\ openTimer' = ~opened

(* A mutant: the client of the lost connection is kept. *)
CloseKeepsClient ==
  /\ attemptTimer' = FALSE /\ openTimer' = TRUE
  /\ UNCHANGED client

(* What the player remembers of the connection stays until the next is open. *)
CloseConnection ==
  /\ client' = FALSE /\ attemptTimer' = FALSE
  /\ openTimer' = TRUE

OnClose ==
  /\ Handles("close")
  /\ CloseConnection
  /\ opened' = FALSE /\ greeted' = FALSE
  /\ UNCHANGED <<closed, firstSub, wire, sess, topicState, pubState, reqState>>

-----------------------------------------------------------------------------
(* Publications.                                                            *)

(* The client advertises what it publishes and takes it back. *)
AdvertiseClient(added, removed) ==
  serverPubs' = IF socket = "open" THEN (serverPubs \ removed) \cup added
                ELSE serverPubs

(* #setupPublishers: advertise what was asked for before it was possible. *)
SetupPublishers ==
  IF client /\ ~closed
  THEN /\ AdvertiseClient(unresolvedPubs, {})
       /\ publications' = publications \cup unresolvedPubs
       /\ unresolvedPubs' = {}
  ELSE UNCHANGED <<serverPubs, publications, unresolvedPubs>>

(* A server that publishes its time, can be called and has assets. *)
OnServerInfo ==
  /\ inbox # <<>>
  /\ LET id == Head(inbox).session IN
       /\ Handles("serverInfo")
       /\ IF sessionId # id THEN ResetSessionState
          ELSE UNCHANGED <<fetched, assetCbs, promises>>
       /\ sessionId' = id
  /\ capable' = TRUE /\ greeted' = TRUE
  /\ SetupPublishers
  /\ UNCHANGED <<closed, client, openTimer, attemptTimer, opened, firstSub,
                 socket, nextSub, subs, asked, topicState, wantedPubs, service,
                 serviceCbs>>

(* setPublishers saves them until it is connected and may advertise. *)
SetPublishers(pubs) ==
  /\ calls < MaxCalls /\ ~closed /\ pubs # wantedPubs
  /\ calls' = calls + 1
  /\ wantedPubs' = pubs
  /\ IF ~client \/ ~capable
     THEN unresolvedPubs' = pubs /\ UNCHANGED <<publications, serverPubs>>
     ELSE /\ AdvertiseClient(pubs \ publications, publications \ pubs)
          /\ publications' = pubs
          /\ UNCHANGED unresolvedPubs
  /\ UNCHANGED <<conn, socket, nextSub, subs, asked, inbox, topicState,
                 reqState, sess, server, events, drops>>

-----------------------------------------------------------------------------
(* Channels and subscriptions.                                              *)

(* #processUnresolvedSubscriptions with these fields: the client subscribes *)
(* to the channel of every unresolved topic that has one.                   *)
ProcessUnresolved(topics, topicMap, idMap, channels, known) ==
  LET found == IF client THEN topics \cap DOMAIN channels ELSE {}
      ids == nextSub..(nextSub + Cardinality(found) - 1)
  IN \E id \in Bijection(found, ids) :
       LET new == [i \in ids |-> channels[CHOOSE t \in found : id[t] = i]]
       IN /\ unresolved' = topics \ found
          /\ byTopic' = Over(id, topicMap)
          /\ byId' = Over(new, idMap)
          /\ nextSub' = nextSub + Cardinality(found)
          /\ subs' = IF socket = "open"
                     THEN LET told == {i \in ids : new[i] \in advertised}
                          IN Over(Restrict(new, told), Restrict(subs, known))
                     ELSE subs

(* A channel whose schema cannot be parsed, or whose topic is taken by      *)
(* another one, is left out; which comes first is the server's choice.      *)
OnAdvertise ==
  /\ inbox # <<>>
  /\ LET new == Head(inbox).channels
         supported == new \ Unsupported
         free == {TopicOf[c] : c \in supported} \ DOMAIN channelsByTopic
     IN /\ Handles("advertise")
        /\ unsupportedIds' = unsupportedIds \cup (new \cap Unsupported)
        /\ \E first \in [free -> supported] :
             /\ \A t \in free : TopicOf[first[t]] = t
             /\ channelsById' = channelsById \cup Range(first)
             /\ channelsByTopic' = Over(first, channelsByTopic)
  /\ ProcessUnresolved(unresolved, byTopic, byId, channelsByTopic',
                       DOMAIN subs)
  /\ UNCHANGED <<conn, socket, serverPubs, asked, canceled, wanted, kept,
                 astray, pubState, reqState, sess>>

(* The subscriptions to channels that are gone wait for the next channel of *)
(* their topic.                                                             *)
UnsubscribeChannels(gone) ==
  LET lost == {i \in DOMAIN byId : byId[i] \in gone}
      topics == {TopicOf[byId[i]] : i \in lost}
  IN /\ byId' = Without(byId, lost)
     /\ byTopic' = Without(byTopic, topics)
     /\ unresolved' = unresolved \cup topics
     /\ subs' = Without(subs, lost)

OnUnadvertise ==
  /\ inbox # <<>>
  /\ LET removed == Head(inbox).channels
         gone == removed \cap channelsById
     IN /\ Handles("unadvertise")
        /\ UnsubscribeChannels(gone)
        /\ channelsById' = channelsById \ gone
        /\ channelsByTopic' = Without(channelsByTopic,
                                      {TopicOf[c] : c \in gone})
        /\ unsupportedIds' = unsupportedIds \ (removed \ gone)
  /\ UNCHANGED <<conn, socket, nextSub, serverPubs, asked, canceled, wanted,
                 kept, astray, pubState, reqState, sess>>

(* A message goes astray when the player has no subscription for it, or for *)
(* another channel; when it was cancelled just now, or sent before the      *)
(* connection was known to be open, or for a channel that was advertised    *)
(* again before the player heard that it was gone, that is no surprise.     *)
OnMessage ==
  /\ inbox # <<>>
  /\ LET m == Head(inbox) IN
       /\ Handles("message")
       /\ astray' = \/ astray
                    \/ IF m.sub \in DOMAIN byId THEN byId[m.sub] # m.channel
                       ELSE /\ m.sub \notin canceled /\ m.sub >= firstSub
                            /\ ~m.again
  /\ UNCHANGED <<conn, wire, unresolved, byTopic, byId, channelsByTopic,
                 channelsById, unsupportedIds, canceled, wanted, kept,
                 pubState, reqState, sess>>

(* A mutant: what is not asked for any more is forgotten, not unsubscribed.  *)
DroppedSilently(topics) ==
  LET off == {byTopic[t] : t \in DOMAIN byTopic \ topics} IN
    ProcessUnresolved(topics \ DOMAIN byTopic, Only(byTopic, topics),
                      Without(byId, off), channelsByTopic, DOMAIN subs)

(* setSubscriptions with a client: what is new is to be resolved, what is   *)
(* not asked for any more is unsubscribed.  Left out: until the connection  *)
(* is known to be open, a topic that was subscribed on the one before may   *)
(* also wait to be resolved; whatever comes of it, "open" starts again.     *)
Resubscribed(topics) ==
  LET off == {byTopic[t] : t \in DOMAIN byTopic \ topics} IN
    ProcessUnresolved(topics \ DOMAIN byTopic, Only(byTopic, topics),
                      Without(byId, off), channelsByTopic, DOMAIN subs \ off)

SetSubscriptions(topics) ==
  /\ calls < MaxCalls /\ ~closed /\ topics # wanted
  /\ calls' = calls + 1
  /\ wanted' = topics
  /\ IF ~client
     THEN /\ unresolved' = topics
          /\ kept' = DOMAIN byTopic \ topics
          /\ UNCHANGED <<byTopic, byId, nextSub, subs, canceled>>
     ELSE /\ Resubscribed(topics)
          /\ kept' = {}
          /\ canceled' = canceled
               \cup {byTopic[t] : t \in DOMAIN byTopic \ topics}
  /\ UNCHANGED <<conn, socket, serverPubs, asked, inbox, channelsByTopic,
                 channelsById, unsupportedIds, astray, pubState, reqState,
                 sess, server, events, drops>>

-----------------------------------------------------------------------------
(* Service calls and assets.                                                *)

OnAdvertiseServices ==
  /\ Handles("advertiseServices")
  /\ service' = TRUE
  /\ UNCHANGED <<conn, wire, topicState, pubState, serviceCbs, assetCbs,
                 fetched, promises, sess>>

Ask(request) ==
  asked' = IF socket = "open" THEN asked \cup {request} ELSE asked

CallService ==
  /\ calls < MaxCalls /\ client /\ service
  /\ calls' = calls + 1
  /\ LET id == Count("service") + 1 IN
       /\ serviceCbs' = serviceCbs \cup {id}
       /\ promises' = Over(promises, Promised(<<"service", id>>))
       /\ Ask(<<"service", id>>)
  /\ UNCHANGED <<conn, socket, nextSub, subs, serverPubs, inbox, topicState,
                 pubState, service, assetCbs, fetched, sess, server, events,
                 drops>>

(* A fetch of an asset that was fetched before returns the same promise. *)
FetchAsset ==
  /\ calls < MaxCalls /\ client /\ capable /\ fetched = 0
  /\ calls' = calls + 1
  /\ LET id == Count("asset") + 1 IN
       /\ assetCbs' = assetCbs \cup {id}
       /\ fetched' = id
       /\ promises' = Over(promises, Promised(<<"asset", id>>))
       /\ Ask(<<"asset", id>>)
  /\ UNCHANGED <<conn, socket, nextSub, subs, serverPubs, inbox, topicState,
                 pubState, service, serviceCbs, sess, server, events, drops>>

OnServiceResponse ==
  /\ inbox # <<>>
  /\ LET id == Head(inbox).id IN
       /\ Handles("service")
       /\ promises' = Settle({<<"service", id>>} \cap
                             {<<"service", i>> : i \in serviceCbs})
       /\ serviceCbs' = serviceCbs \ {id}
  /\ UNCHANGED <<conn, wire, topicState, pubState, service, assetCbs, fetched,
                 sess>>

(* What is deleted is the callback of the service call of that number.      *)
(* Without a callback of its own the handler throws first.                  *)
OnAssetResponse ==
  /\ inbox # <<>>
  /\ LET id == Head(inbox).id IN
       /\ Handles("asset")
       /\ IF id \in assetCbs
          THEN /\ promises' = Settle({<<"asset", id>>})
               /\ serviceCbs' = serviceCbs \ {id}
          ELSE UNCHANGED <<promises, serviceCbs>>
  /\ UNCHANGED <<conn, wire, topicState, pubState, service, assetCbs, fetched,
                 sess>>

(* The user's last call. *)
Close ==
  /\ ~closed
  /\ closed' = TRUE /\ openTimer' = FALSE
  /\ CloseClient
  /\ UNCHANGED <<client, attemptTimer, opened, greeted, firstSub, topicState,
                 pubState, reqState, sess, server, count>>

-----------------------------------------------------------------------------
(* The server.                                                              *)

(* What a server does between two connections shows in the next greeting:   *)
(* Drop chooses it.                                                         *)
Tell(event) == inbox' = Append(inbox, event)

ServerActs ==
  /\ socket = "open"
  /\ events < MaxEvents /\ events' = events + 1
  /\ UNCHANGED <<conn, socket, nextSub, serverPubs, asked, topicState,
                 pubState, reqState, sess, session, calls, drops>>

Advertise(c) ==
  /\ c \notin advertised
  /\ advertised' = advertised \cup {c}
  /\ Tell(ChannelsEvent("advertise", {c}))
  /\ UNCHANGED subs
  /\ ServerActs

Unadvertise(c) ==
  /\ c \in advertised
  /\ advertised' = advertised \ {c}
  /\ subs' = Without(subs, {i \in DOMAIN subs : subs[i] = c})
  /\ Tell(ChannelsEvent("unadvertise", {c}))
  /\ ServerActs

(* A message remembers whether its channel is one the player is still to    *)
(* be told is gone: it is advertised again, and subscribed to in between.   *)
SendMessage(i) ==
  /\ i \in DOMAIN subs
  /\ Tell([op |-> "message", sub |-> i, channel |-> subs[i],
           again |-> \E n \in DOMAIN inbox :
                       /\ inbox[n].op = "unadvertise"
                       /\ subs[i] \in inbox[n].channels])
  /\ UNCHANGED <<advertised, subs>>
  /\ ServerActs

Answer(request) ==
  /\ request \in asked
  /\ asked' = asked \ {request}
  /\ inbox' = Append(inbox, [op |-> request[1], id |-> request[2]])
  /\ UNCHANGED <<conn, socket, nextSub, subs, serverPubs, topicState, pubState,
                 reqState, sess, server, count>>

-----------------------------------------------------------------------------
HandleEvent ==
  \/ OnOpen \/ OnServerInfo \/ OnAdvertiseServices \/ OnAdvertise
  \/ OnUnadvertise \/ OnMessage \/ OnServiceResponse \/ OnAssetResponse
  \/ OnClose

UserStep ==
  \/ \E topics \in SUBSET Topics : SetSubscriptions(topics)
  \/ \E pubs \in SUBSET Publishers : SetPublishers(pubs)
  \/ CallService \/ FetchAsset \/ Close

ServerStep ==
  \/ \E c \in Channels : Advertise(c) \/ Unadvertise(c)
  \/ \E i \in DOMAIN subs : SendMessage(i)

Answers == \E request \in asked : Answer(request)

Next ==
  \/ HandleEvent \/ Open \/ UserStep
  \/ Accept \/ Drop \/ AttemptTimeout \/ ServerStep \/ Answers

(* Events are handled, the timer fires, an attempt that does not fail comes *)
(* to a connection, and the server answers what it is asked.                *)
Spec ==
  /\ Init /\ [][Next]_vars
  /\ WF_vars(HandleEvent) /\ WF_vars(Open)
  /\ WF_vars(Accept) /\ WF_vars(Answers)

-----------------------------------------------------------------------------
(* Every variable keeps its type. *)
TypeOK ==
  /\ {closed, client, openTimer, attemptTimer, opened, greeted, capable,
      service, astray} \subseteq BOOLEAN
  /\ unresolved \cup DOMAIN byTopic \cup DOMAIN channelsByTopic
       \cup wanted \cup kept \subseteq Topics
  /\ Range(byTopic) \cup DOMAIN byId \cup DOMAIN subs \cup canceled
       \cup {nextSub, firstSub} \subseteq Nat
  /\ Range(byId) \cup Range(channelsByTopic) \cup Range(subs)
       \cup channelsById \cup unsupportedIds \cup advertised \subseteq Channels
  /\ unresolvedPubs \cup publications \cup serverPubs \cup wantedPubs
       \subseteq Publishers
  /\ serviceCbs \cup assetCbs \cup {fetched, Count("asset"),
      Count("service")} \subseteq 0..MaxCalls
  /\ Range(promises) \subseteq {"pending", "settled"}
  /\ socket \in {"none", "connecting", "open"}
  /\ client \/ (socket = "none" /\ inbox = <<>>)
  /\ openTimer => ~client

(* setSubscriptions: "Remember requested subscriptions so we can retry      *)
(* subscribing when the client is available".  Whatever connections and     *)
(* channels come and go, a requested topic is either subscribed or waits,   *)
(* and on an open connection a topic has a subscription of its own, for the *)
(* channel it has now, and does not wait when it has a channel.  Topics     *)
(* dropped while there was no client are kept, however.                     *)
SubscriptionsKept ==
  /\ wanted \subseteq unresolved \cup DOMAIN byTopic
  /\ (unresolved \cup DOMAIN byTopic) \ wanted \subseteq kept
  /\ opened =>
       /\ DOMAIN byId = Range(byTopic)
       /\ \A t \in DOMAIN byTopic :
            t \in DOMAIN channelsByTopic
              /\ channelsByTopic[t] = byId[byTopic[t]]
              /\ TopicOf[byId[byTopic[t]]] = t
       /\ unresolved \cap DOMAIN channelsByTopic = {}

(* Nothing is under way, and the connection is made. *)
Quiet == socket = "open" /\ greeted /\ inbox = <<>>

(* When player and server have nothing to tell each other they agree: the   *)
(* server has exactly the subscriptions that the player knows (and those it *)
(* was sent before the player knew that the connection is open), the player *)
(* knows every channel that no other could stand for, none that is gone, and*)
(* the server knows what is published.  No message has gone astray, but for *)
(* those of a channel that came back before the player heard that it went.  *)
ServerAgrees ==
  /\ ~astray
  /\ Quiet =>
      /\ Restrict(subs, DOMAIN subs \ 0..(firstSub - 1)) = byId
      /\ channelsById \subseteq advertised
      /\ \A c \in advertised \ Unsupported :
           \/ c \in channelsById
           \/ \E d \in Channels \ (Unsupported \cup {c}) :
                TopicOf[d] = TopicOf[c]
      /\ publications \subseteq serverPubs

(* Every fetch of an asset is settled, with the asset or because the        *)
(* connection was reset, however connections and sessions come and go.      *)
AssetsSettle == []<>(closed \/ Pending("asset") = {})

(* A lost connection is made again, with all that it tells, as long as the  *)
(* player is not closed; a closed player keeps no connection and no timer.  *)
Settles ==
  /\ []<>(closed \/ Quiet)
  /\ closed ~> [](~client /\ ~openTimer)

-----------------------------------------------------------------------------
(* What a comment of the player says, and the code does not keep.           *)

(* setSubscriptions: "Remember requested subscriptions so we can retry      *)
(* subscribing when the client is available".  On a connection the player   *)
(* should be subscribed to what is requested and to nothing else.           *)
SubscribesAsRequested == opened => DOMAIN byTopic \subseteq wanted

(* "Received message on unknown subscription id. This might be a WebSocket  *)
(* server bug.": a server that sends only what is subscribed is not accused *)
(* of that.                                                                 *)
UnknownIsServerBug ==
  opened /\ inbox # <<>> /\ Head(inbox).op = "message" =>
    \/ Head(inbox).sub \in DOMAIN byId \cup canceled
    \/ Head(inbox).sub < firstSub

=============================================================================
