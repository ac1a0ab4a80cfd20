------------------- MODULE FoxgloveWebSocketPlayer_proofs -------------------
(***************************************************************************)
(* Proofs about FoxgloveWebSocketPlayer, for any channels, topics, offers  *)
(* of the server, and numbers of calls, events and lost connections: no    *)
(* topic that was asked for is forgotten, on an open connection each topic *)
(* with a channel has a subscription of its own, and player and server     *)
(* agree once all is told.                                                 *)
(***************************************************************************)
EXTENDS FoxgloveWebSocketPlayer, FiniteSetTheorems, TLAPS

LEMMA TopicsFinite == IsFiniteSet(Topics)
<1> DEFINE topicOf == [c \in Channels |-> TopicOf[c]]
<1>1. topicOf \in Surjection(Channels, Topics)
  BY FoxgloveAssumption DEF Topics, Range, Surjection
<1> QED
  BY <1>1, FS_Surjection, FoxgloveAssumption

-----------------------------------------------------------------------------
(* The invariant.                                                           *)

AnyEvent ==
  [op : {"open", "close", "advertiseServices"}]
    \cup [op : {"serverInfo"}, session : Nat]
    \cup [op : {"advertise", "unadvertise"}, channels : SUBSET Channels]
    \cup [op : {"message"}, sub : Nat, channel : Channels, again : BOOLEAN]
    \cup [op : {"service", "asset"}, id : Nat]

Sorts ==
  /\ {closed, client, openTimer, opened} \subseteq BOOLEAN
  /\ socket \in {"none", "connecting", "open"}
  /\ inbox \in Seq(AnyEvent)
  /\ nextSub \in Nat /\ session \in Nat /\ advertised \subseteq Channels
  /\ \A i \in DOMAIN subs : i \in Nat /\ subs[i] \in Channels
  /\ asked \subseteq {"service", "asset"} \X Nat
  /\ IsFiniteSet(DOMAIN promises)

(* What the player knows of its connection, and what it is yet to be told:  *)
(* until it handles "open" there is nothing for it to handle before.        *)
Connected ==
  /\ opened \/ inbox # <<>> \/ socket # "none" => client
  /\ openTimer => ~client
  /\ asked # {} => socket = "open"
  /\ \A i \in DOMAIN inbox :
       inbox[i].op = "close" => i = Len(inbox) /\ socket = "none"
  /\ ~closed /\ ~opened =>
       /\ inbox # <<>> => Head(inbox).op \in {"open", "close"}
       /\ socket = "open" => inbox # <<>>

(* The two maps of channels agree. *)
ChannelsAgree ==
  /\ \A t \in DOMAIN channelsByTopic :
       channelsByTopic[t] \in channelsById /\ TopicOf[channelsByTopic[t]] = t
  /\ \A c \in channelsById :
       TopicOf[c] \in DOMAIN channelsByTopic /\ channelsByTopic[TopicOf[c]] = c

Requested ==
  /\ unresolved \cup DOMAIN byTopic \subseteq Topics
  /\ wanted \subseteq unresolved \cup DOMAIN byTopic
  /\ (unresolved \cup DOMAIN byTopic) \ wanted \subseteq kept
  /\ \A i \in DOMAIN byId :
       TopicOf[byId[i]] \in unresolved \cup DOMAIN byTopic

(* A subscription belongs to the topic of its channel, and to no other.     *)
OwnTopic ==
  ~closed \/ opened =>
    \A i \in DOMAIN byId :
      TopicOf[byId[i]] \in DOMAIN byTopic /\ byTopic[TopicOf[byId[i]]] = i

(* On an open connection what is subscribed has a channel, and the other    *)
(* way round.                                                               *)
Subscribed ==
  opened =>
    /\ \A t \in DOMAIN byTopic :
         /\ byTopic[t] \in DOMAIN byId
         /\ t \in DOMAIN channelsByTopic
         /\ channelsByTopic[t] = byId[byTopic[t]]
    /\ unresolved \cap DOMAIN channelsByTopic = {}
    /\ \A i \in DOMAIN byId : i \in Nat /\ i < nextSub

IInv ==
  /\ Sorts /\ Connected /\ ChannelsAgree
  /\ Requested /\ OwnTopic /\ Subscribed

LEMMA KeptFollows == IInv => SubscriptionsKept
<1> SUFFICES ASSUME IInv PROVE SubscriptionsKept
  OBVIOUS
<1>1. ASSUME opened PROVE DOMAIN byId = Range(byTopic)
  BY <1>1 DEF IInv, OwnTopic, Subscribed, Range
<1>2. ASSUME opened, NEW t \in DOMAIN byTopic
      PROVE  TopicOf[byId[byTopic[t]]] = t
  BY <1>2 DEF IInv, Subscribed, ChannelsAgree
<1> QED
  BY <1>1, <1>2 DEF IInv, Requested, Subscribed, SubscriptionsKept

-----------------------------------------------------------------------------
(* Unresolved topics with a channel get a subscription each, under a new    *)
(* number.                                                                  *)
LEMMA ProcessFacts ==
  ASSUME NEW topics, NEW topicMap, NEW idMap, NEW channels, NEW known,
         ProcessUnresolved(topics, topicMap, idMap, channels, known),
         topics \subseteq Topics, nextSub \in Nat,
         advertised \subseteq Channels,
         \A i \in DOMAIN subs : i \in Nat /\ subs[i] \in Channels,
         known \subseteq DOMAIN subs
  PROVE  LET found == IF client THEN topics \cap DOMAIN channels ELSE {} IN
         /\ unresolved' = topics \ found
         /\ DOMAIN byTopic' = found \cup DOMAIN topicMap
         /\ nextSub' \in Nat /\ nextSub <= nextSub'
         /\ \A t \in found :
              /\ byTopic'[t] \in DOMAIN byId'
              /\ byId'[byTopic'[t]] = channels[t]
         /\ \A t \in DOMAIN topicMap \ found : byTopic'[t] = topicMap[t]
         /\ DOMAIN idMap \subseteq DOMAIN byId'
         /\ \A i \in DOMAIN byId' :
              \/ /\ i \in Nat /\ nextSub <= i /\ i < nextSub'
                 /\ \E t \in found : byTopic'[t] = i
              \/ /\ ~(i \in Nat /\ nextSub <= i /\ i < nextSub')
                 /\ i \in DOMAIN idMap /\ byId'[i] = idMap[i]
         /\ \A i \in DOMAIN subs' : i \in Nat /\ subs'[i] \in Channels
<1> DEFINE found == IF client THEN topics \cap DOMAIN channels ELSE {}
           n == Cardinality(found)
           ids == nextSub..(nextSub + n - 1)
<1>1. n \in Nat
  <2>1. IsFiniteSet(found)
    <3>1. found \in SUBSET Topics
      OBVIOUS
    <3> HIDE DEF found
    <3> QED
      BY <3>1, TopicsFinite, FS_Subset
  <2> QED
    BY <2>1, FS_CardinalityType
<1>2. PICK id \in Bijection(found, ids) :
        LET new == [i \in ids |-> channels[CHOOSE t \in found : id[t] = i]]
        IN /\ unresolved' = topics \ found
           /\ byTopic' = Over(id, topicMap)
           /\ byId' = Over(new, idMap)
           /\ nextSub' = nextSub + n
           /\ subs' = IF socket = "open"
                      THEN Over(Restrict(new, {i \in ids :
                                                 new[i] \in advertised}),
                                Restrict(subs, known))
                      ELSE subs
  BY DEF ProcessUnresolved
<1> DEFINE new == [i \in ids |-> channels[CHOOSE t \in found : id[t] = i]]
<1> HIDE DEF n, found
<1>3. /\ id \in [found -> ids]
      /\ \A t, u \in found : id[t] = id[u] => t = u
      /\ \A i \in ids : \E t \in found : id[t] = i
  BY DEF Bijection, Injection, Surjection, IsInjective
<1>4. \A i : i \in ids <=> i \in Nat /\ nextSub <= i /\ i < nextSub'
  BY <1>1, <1>2
<1>5. nextSub' \in Nat /\ nextSub <= nextSub'
  BY <1>1, <1>2
<1> HIDE DEF ids
<1>6. ASSUME NEW t \in found PROVE new[id[t]] = channels[t]
  <2>1. id[t] \in ids
    BY <1>3
  <2>2. (CHOOSE u \in found : id[u] = id[t]) = t
    BY <1>3
  <2> QED
    BY <2>1, <2>2
<1>7. /\ DOMAIN byTopic' = found \cup DOMAIN topicMap
      /\ \A t \in found : byTopic'[t] = id[t]
      /\ \A t \in DOMAIN topicMap \ found : byTopic'[t] = topicMap[t]
  BY <1>2, <1>3 DEF Over
<1>8. /\ DOMAIN byId' = ids \cup DOMAIN idMap
      /\ \A i \in ids : byId'[i] = new[i]
      /\ \A i \in DOMAIN idMap \ ids : byId'[i] = idMap[i]
  <2>1. DOMAIN new = ids /\ byId' = Over(new, idMap)
    BY <1>2
  <2> HIDE DEF new, ids
  <2>2. DOMAIN byId' = ids \cup DOMAIN idMap
    BY <2>1 DEF Over
  <2>3. \A i \in ids : byId'[i] = new[i]
    BY <2>1 DEF Over
  <2>4. \A i \in DOMAIN idMap \ ids : byId'[i] = idMap[i]
    BY <2>1 DEF Over
  <2> QED
    BY <2>2, <2>3, <2>4
<1>9. \A t \in found :
        byTopic'[t] \in DOMAIN byId' /\ byId'[byTopic'[t]] = channels[t]
  <2> TAKE t \in found
  <2>1. id[t] \in ids /\ byTopic'[t] = id[t]
    BY <1>3, <1>7
  <2>2. new[id[t]] = channels[t]
    BY <1>6
  <2> HIDE DEF new
  <2> QED
    BY <1>8, <2>1, <2>2
<1>10. \A i \in DOMAIN byId' :
         \/ i \in ids /\ \E t \in found : byTopic'[t] = i
         \/ i \notin ids /\ i \in DOMAIN idMap /\ byId'[i] = idMap[i]
  BY <1>3, <1>7, <1>8
<1>11. \A i \in DOMAIN subs' : i \in Nat /\ subs'[i] \in Channels
  <2>1. CASE socket = "open"
    <3> DEFINE told == {i \in ids : new[i] \in advertised}
               f == Restrict(new, told)
               g == Restrict(subs, known)
    <3>1. /\ DOMAIN f = told /\ DOMAIN g = known
          /\ \A i \in told : i \in Nat /\ f[i] \in Channels
          /\ \A i \in known : i \in Nat /\ g[i] \in Channels
      BY <1>4 DEF Restrict
    <3>2. subs' = Over(f, g)
      BY <1>2, <2>1
    <3> HIDE DEF f, g, told
    <3> QED
      BY <3>1, <3>2 DEF Over
  <2>2. CASE socket # "open"
    BY <1>2, <2>2
  <2> QED
    BY <2>1, <2>2
<1> HIDE DEF new
<1> QED
  BY <1>2, <1>4, <1>5, <1>7, <1>8, <1>9, <1>10, <1>11 DEF found

-----------------------------------------------------------------------------
(* Steps that leave the topics alone.                                       *)

LEMMA InitIInv == Init => IInv
<1> SUFFICES ASSUME Init PROVE IInv
  OBVIOUS
<1>1. Sorts
  <2>1. advertised \subseteq Channels
    BY FoxgloveAssumption DEF Init
  <2>2. IsFiniteSet(DOMAIN promises)
    BY FS_EmptySet DEF Init, Empty
  <2>3. {closed, client, openTimer, opened} \subseteq BOOLEAN
    BY DEF Init
  <2>4. asked \subseteq {"service", "asset"} \X Nat
    BY DEF Init
  <2>5. \A i \in DOMAIN subs : i \in Nat /\ subs[i] \in Channels
    BY DEF Init, Empty
  <2>6. inbox \in Seq(AnyEvent) /\ nextSub \in Nat /\ session \in Nat
    BY DEF Init
  <2> QED
    BY <2>1, <2>2, <2>3, <2>4, <2>5, <2>6 DEF Init, Sorts
<1> QED
  BY <1>1 DEF Init, Empty, IInv, Connected, ChannelsAgree, Requested, OwnTopic,
              Subscribed

topicMaps == <<unresolved, byTopic, byId, channelsByTopic, channelsById,
               wanted, kept>>

LEMMA TopicsKept ==
  ASSUME IInv, Sorts', Connected', UNCHANGED topicMaps,
         opened' => opened /\ nextSub' = nextSub, closed => closed'
  PROVE  IInv'
<1>1. {closed, opened, closed', opened'} \subseteq BOOLEAN
  BY DEF IInv, Sorts
<1>2. ChannelsAgree' /\ Requested'
  BY DEF IInv, ChannelsAgree, Requested, topicMaps
<1>3. OwnTopic' /\ Subscribed'
  BY <1>1 DEF IInv, OwnTopic, Subscribed, topicMaps
<1> QED
  BY <1>2, <1>3 DEF IInv

LEMMA AppendFacts ==
  ASSUME NEW s \in Seq(AnyEvent), NEW e \in AnyEvent
  PROVE  LET t == Append(s, e) IN
         /\ t \in Seq(AnyEvent) /\ t # <<>>
         /\ Len(t) = Len(s) + 1 /\ t[Len(t)] = e
         /\ \A i \in DOMAIN t : i = Len(t) \/ (i \in DOMAIN s /\ t[i] = s[i])
         /\ Head(t) = IF s = <<>> THEN e ELSE Head(s)
<1> DEFINE t == Append(s, e)
<1>1. /\ t \in Seq(AnyEvent) /\ Len(s) \in Nat /\ Len(t) = Len(s) + 1
      /\ t[Len(s) + 1] = e /\ \A i \in 1..Len(s) : t[i] = s[i]
      /\ DOMAIN s = 1..Len(s) /\ DOMAIN t = 1..Len(t)
  OBVIOUS
<1> HIDE DEF t
<1>2. t # <<>>
  BY <1>1
<1>3. \A i \in DOMAIN t : i = Len(t) \/ (i \in DOMAIN s /\ t[i] = s[i])
  BY <1>1
<1>4. Head(t) = IF s = <<>> THEN e ELSE Head(s)
  <2>1. Head(t) = t[1]
    BY <1>1, <1>2
  <2>2. s = <<>> => Len(s) = 0
    OBVIOUS
  <2>3. s # <<>> => Head(s) = s[1] /\ 1 \in DOMAIN s
    BY <1>1
  <2> QED
    BY <1>1, <2>1, <2>2, <2>3
<1> QED
  BY <1>1, <1>2, <1>3, <1>4 DEF t

LEMMA TailFacts ==
  ASSUME NEW s \in Seq(AnyEvent), s # <<>>
  PROVE  /\ Tail(s) \in Seq(AnyEvent) /\ Len(Tail(s)) = Len(s) - 1
         /\ Len(s) \in Nat /\ Len(s) >= 1 /\ 1 \in DOMAIN s
         /\ \A i \in DOMAIN Tail(s) :
              i \in Nat /\ i + 1 \in DOMAIN s /\ Tail(s)[i] = s[i + 1]
         /\ Head(s) = s[1] /\ Head(s) \in AnyEvent
  OBVIOUS

(* An event that the connection tells. *)
LEMMA ToldKeeps ==
  ASSUME IInv, socket = "open", NEW e \in AnyEvent, e.op # "close",
         inbox' = Append(inbox, e), asked' \subseteq asked,
         UNCHANGED <<closed, client, openTimer, opened, socket>>
  PROVE  inbox' \in Seq(AnyEvent) /\ Connected'
<1>1. inbox \in Seq(AnyEvent)
  BY DEF IInv, Sorts
<1>2. /\ inbox' \in Seq(AnyEvent) /\ inbox' # <<>>
      /\ inbox'[Len(inbox')] = e
      /\ \A i \in DOMAIN inbox' :
           i = Len(inbox') \/ (i \in DOMAIN inbox /\ inbox'[i] = inbox[i])
      /\ Head(inbox') = IF inbox = <<>> THEN e ELSE Head(inbox)
  BY <1>1, AppendFacts
<1>3. \A i \in DOMAIN inbox' : inbox'[i].op # "close"
  BY <1>2 DEF IInv, Connected
<1> QED
  BY <1>2, <1>3 DEF IInv, Connected

(* The socket ends. *)
LEMMA EndKeeps ==
  ASSUME IInv, socket # "none", EndSocket,
         closed => closed', UNCHANGED <<client, opened>>,
         openTimer' => openTimer
  PROVE  /\ inbox' \in Seq(AnyEvent) /\ Connected'
         /\ socket' = "none" /\ nextSub' = nextSub /\ subs' = Empty
         /\ asked' = {}
<1>1. inbox \in Seq(AnyEvent) /\ Event("close") \in AnyEvent
  BY DEF IInv, Sorts, Event, AnyEvent
<1>2. /\ inbox' \in Seq(AnyEvent) /\ inbox' # <<>>
      /\ inbox'[Len(inbox')] = Event("close")
      /\ \A i \in DOMAIN inbox' :
           i = Len(inbox') \/ (i \in DOMAIN inbox /\ inbox'[i] = inbox[i])
      /\ Head(inbox') = IF inbox = <<>> THEN Event("close") ELSE Head(inbox)
  BY <1>1, AppendFacts DEF EndSocket
<1>3. \A i \in DOMAIN inbox' :
        inbox'[i].op = "close" => i = Len(inbox')
  BY <1>2 DEF IInv, Connected
<1>4. Connected'
  <2>1. ~closed' => ~closed
    OBVIOUS
  <2>2. ~closed' /\ ~opened' => Head(inbox').op \in {"open", "close"}
    BY <1>2, <2>1 DEF IInv, Connected, Event
  <2> QED
    BY <1>2, <1>3, <2>2 DEF IInv, Connected, EndSocket
<1> QED
  BY <1>2, <1>4 DEF EndSocket

(* An event that neither opens nor closes the connection is handled.        *)
LEMMA HandledKeeps ==
  ASSUME IInv, NEW op, Handles(op), op \notin {"open", "close"},
         UNCHANGED <<closed, client, openTimer, opened, socket, asked>>
  PROVE  inbox' \in Seq(AnyEvent) /\ Connected' /\ (closed \/ opened)
<1>1. /\ inbox' \in Seq(AnyEvent) /\ Len(inbox') = Len(inbox) - 1
      /\ \A i \in DOMAIN inbox' :
           i \in Nat /\ i + 1 \in DOMAIN inbox /\ inbox'[i] = inbox[i + 1]
      /\ Len(inbox) \in Nat
  BY TailFacts DEF IInv, Sorts, Handles
<1>2. inbox # <<>> /\ Head(inbox).op = op
  BY DEF Handles
<1>3. closed \/ opened
  BY <1>2 DEF IInv, Connected
<1>4. \A i \in DOMAIN inbox' :
        inbox'[i].op = "close" => i = Len(inbox') /\ socket = "none"
  BY <1>1 DEF IInv, Connected
<1> QED
  BY <1>1, <1>2, <1>3, <1>4 DEF IInv, Connected, Sorts

-----------------------------------------------------------------------------
(* The events of the connection, its timers and its failures.               *)

LEMMA AcceptKeeps == IInv /\ Accept => IInv'
<1> SUFFICES ASSUME IInv, Accept PROVE IInv'
  OBVIOUS
<1>1. /\ socket = "connecting" /\ socket' = "open" /\ inbox' = Greeting
      /\ UNCHANGED <<topicMaps, closed, client, openTimer, opened, nextSub,
                     subs, asked, session, advertised, promises>>
  BY DEF Accept, conn, topicState, reqState, server, topicMaps
<1>2. Greeting \in Seq(AnyEvent) /\ Len(Greeting) = 4
      /\ Greeting[1].op = "open" /\ Greeting[2].op = "serverInfo"
      /\ Greeting[3].op = "advertiseServices" /\ Greeting[4].op = "advertise"
  <2>1. /\ Event("open") \in AnyEvent
        /\ Event("advertiseServices") \in AnyEvent
        /\ [op |-> "serverInfo", session |-> session] \in AnyEvent
        /\ ChannelsEvent("advertise", advertised) \in AnyEvent
    BY DEF IInv, Sorts, AnyEvent, Event, ChannelsEvent
  <2> HIDE DEF AnyEvent
  <2> QED
    BY <2>1 DEF Greeting, Event, ChannelsEvent
<1>3. Sorts'
  BY <1>1, <1>2 DEF IInv, Sorts
<1>4. Connected'
  <2>1. \A i \in DOMAIN inbox' : inbox'[i].op # "close"
    BY <1>1, <1>2
  <2>2. inbox' # <<>> /\ Head(inbox') = inbox'[1]
    <3>1. Len(inbox') = 4
      BY <1>1, <1>2
    <3>2. Len(<<>>) = 0
      OBVIOUS
    <3>3. inbox' # <<>>
      BY <3>1, <3>2
    <3> QED
      BY <1>1, <1>2, <3>3
  <2> QED
    BY <1>1, <1>2, <2>1, <2>2 DEF IInv, Connected
<1> QED
  BY <1>1, <1>3, <1>4, TopicsKept

LEMMA DropKeeps == IInv /\ Drop => IInv'
<1> SUFFICES ASSUME IInv, Drop PROVE IInv'
  OBVIOUS
<1>1. /\ EndSocket /\ socket # "none"
      /\ UNCHANGED <<topicMaps, closed, client, openTimer, opened, promises>>
      /\ session' \in Nat /\ advertised' \subseteq Channels
  BY FoxgloveAssumption
  DEF Drop, conn, topicState, reqState, server, topicMaps, IInv, Sorts
<1>2. /\ inbox' \in Seq(AnyEvent) /\ Connected'
      /\ socket' = "none" /\ nextSub' = nextSub /\ subs' = Empty /\ asked' = {}
  BY <1>1, EndKeeps
<1>3. Sorts'
  BY <1>1, <1>2 DEF IInv, Sorts, Empty
<1> QED
  BY <1>1, <1>2, <1>3, TopicsKept

(* client.close() *)
LEMMA CloseClientKeeps ==
  ASSUME IInv, CloseClient, closed => closed', closed' \in BOOLEAN,
         openTimer' => openTimer, openTimer' \in BOOLEAN,
         UNCHANGED <<topicMaps, client, opened, session, advertised, promises>>
  PROVE  IInv'
<1>1. CASE client /\ socket # "none"
  <2>1. /\ inbox' \in Seq(AnyEvent) /\ Connected'
        /\ socket' = "none" /\ nextSub' = nextSub
        /\ subs' = Empty /\ asked' = {}
    BY <1>1, EndKeeps DEF CloseClient
  <2>2. Sorts'
    BY <2>1 DEF IInv, Sorts, Empty
  <2> QED
    BY <2>1, <2>2, TopicsKept
<1>2. CASE ~(client /\ socket # "none")
  <2>1. UNCHANGED <<socket, nextSub, subs, asked, inbox>>
    BY <1>2 DEF CloseClient, wire
  <2>2. Sorts'
    BY <2>1 DEF IInv, Sorts
  <2>3. Connected'
    BY <2>1 DEF IInv, Connected
  <2> QED
    BY <2>1, <2>2, <2>3, TopicsKept
<1> QED
  BY <1>1, <1>2

LEMMA AttemptTimeoutKeeps == IInv /\ AttemptTimeout => IInv'
  BY CloseClientKeeps
  DEF AttemptTimeout, topicState, reqState, server, topicMaps, IInv, Sorts

LEMMA CloseKeeps == IInv /\ Close => IInv'
  BY CloseClientKeeps
  DEF Close, topicState, reqState, server, topicMaps, IInv, Sorts

LEMMA OpenKeeps == IInv /\ Open => IInv'
<1> SUFFICES ASSUME IInv, Open PROVE IInv'
  OBVIOUS
<1>1. /\ openTimer /\ openTimer' = FALSE
      /\ \/ UNCHANGED <<client, socket, nextSub>>
         \/ client' = TRUE /\ socket' = "connecting" /\ nextSub' = 0
      /\ UNCHANGED <<topicMaps, closed, opened, inbox, subs, asked, session,
                     advertised, promises>>
  BY DEF Open, reqState, server, topicMaps
<1>2. ~client /\ ~opened /\ inbox = <<>> /\ socket = "none"
  BY <1>1 DEF IInv, Connected, Sorts
<1>3. Sorts'
  <2>1. {closed, client, openTimer, opened}' \subseteq BOOLEAN
    BY <1>1 DEF IInv, Sorts
  <2>2. socket' \in {"none", "connecting", "open"} /\ nextSub' \in Nat
    BY <1>1 DEF IInv, Sorts
  <2> QED
    BY <1>1, <2>1, <2>2 DEF IInv, Sorts
<1>4. Connected'
  BY <1>1, <1>2 DEF IInv, Connected
<1> QED
  BY <1>1, <1>2, <1>3, <1>4, TopicsKept

LEMMA OnCloseKeeps == IInv /\ OnClose => IInv'
<1> SUFFICES ASSUME IInv, OnClose PROVE IInv'
  OBVIOUS
<1>1. /\ inbox # <<>> /\ Head(inbox).op = "close" /\ inbox' = Tail(inbox)
      /\ client' = FALSE /\ openTimer' = TRUE /\ opened' = FALSE
      /\ UNCHANGED <<topicMaps, closed, socket, nextSub, subs, asked, session,
                     advertised, promises>>
  BY DEF OnClose, Handles, CloseConnection, wire, topicState, reqState, server,
         topicMaps
<1>2. Len(inbox) = 1 /\ socket = "none" /\ inbox' \in Seq(AnyEvent)
      /\ Len(inbox') = 0
  <2>1. /\ inbox' \in Seq(AnyEvent) /\ Len(inbox') = Len(inbox) - 1
        /\ 1 \in DOMAIN inbox /\ Head(inbox) = inbox[1]
    BY <1>1, TailFacts DEF IInv, Sorts
  <2> QED
    BY <1>1, <2>1 DEF IInv, Connected
<1>3. inbox' = <<>>
  BY <1>2
<1>4. Sorts'
  BY <1>1, <1>2 DEF IInv, Sorts
<1>5. Connected'
  BY <1>1, <1>2, <1>3 DEF IInv, Connected
<1> QED
  BY <1>1, <1>4, <1>5, TopicsKept

(* A new connection: what was subscribed is to be again. *)
LEMMA OnOpenKeeps == IInv /\ OnOpen => IInv'
<1> SUFFICES ASSUME IInv, OnOpen PROVE IInv'
  OBVIOUS
<1>1. /\ inbox # <<>> /\ Head(inbox).op = "open" /\ inbox' = Tail(inbox)
      /\ UNCHANGED <<closed, client, openTimer, socket, nextSub, subs, asked,
                     session, advertised, wanted, kept>>
      /\ DOMAIN promises' = DOMAIN promises
  BY DEF OnOpen, Handles, conn, wire, topicState, reqState, server,
         ResetSessionState, Settle
<1>2. /\ inbox' \in Seq(AnyEvent) /\ Len(inbox') = Len(inbox) - 1
      /\ \A i \in DOMAIN inbox' :
           i \in Nat /\ i + 1 \in DOMAIN inbox /\ inbox'[i] = inbox[i + 1]
      /\ Len(inbox) \in Nat
  BY <1>1, TailFacts DEF IInv, Sorts
<1>3. opened' \in BOOLEAN /\ (~closed => opened')
  BY DEF OnOpen, conn, IInv, Sorts
<1>4. Sorts'
  BY <1>1, <1>2, <1>3 DEF IInv, Sorts
<1>5. Connected'
  <2>1. \A i \in DOMAIN inbox' :
          inbox'[i].op = "close" => i = Len(inbox') /\ socket = "none"
    BY <1>1, <1>2 DEF IInv, Connected
  <2> QED
    BY <1>1, <1>2, <1>3, <2>1 DEF IInv, Connected, Sorts
<1>6. CASE closed
  <2>1. UNCHANGED <<topicMaps, opened>>
    BY <1>6 DEF OnOpen, conn, topicState, topicMaps
  <2> QED
    BY <1>1, <1>4, <1>5, <2>1, TopicsKept
<1>7. CASE ~closed
  <2>1. /\ channelsById' = {} /\ channelsByTopic' = <<>>
        /\ unresolved' = unresolved \cup DOMAIN byTopic
        /\ byId' = <<>> /\ byTopic' = <<>>
    BY <1>7 DEF OnOpen, Resubscribe, Empty
  <2>2. /\ DOMAIN byId' = {} /\ DOMAIN byTopic' = {}
        /\ DOMAIN channelsByTopic' = {}
    BY <2>1
  <2>3. ChannelsAgree'
    BY <2>1, <2>2 DEF ChannelsAgree
  <2>4. Requested'
    BY <1>1, <2>1, <2>2 DEF IInv, Requested
  <2>5. OwnTopic' /\ Subscribed'
    BY <2>1, <2>2 DEF OwnTopic, Subscribed
  <2> QED
    BY <1>4, <1>5, <2>3, <2>4, <2>5 DEF IInv
<1> QED
  BY <1>6, <1>7

-----------------------------------------------------------------------------
(* The server's steps, and what leaves the topics alone.                    *)

LEMMA ServerKeeps == IInv /\ ServerStep => IInv'
<1> SUFFICES ASSUME IInv, ServerStep PROVE IInv'
  OBVIOUS
<1>1. /\ socket = "open"
      /\ UNCHANGED <<topicMaps, closed, client, openTimer, opened, socket,
                     nextSub, asked, session, promises>>
  BY DEF ServerStep, Advertise, Unadvertise, SendMessage, ServerActs, conn,
         topicState, reqState, topicMaps
<1> DEFINE Told == \E e \in AnyEvent :
                     e.op # "close" /\ inbox' = Append(inbox, e)
<1>2. Told
  <2>1. ASSUME NEW c \in Channels, Advertise(c) \/ Unadvertise(c)
        PROVE  Told
    <3>1. PICK op \in {"advertise", "unadvertise"} :
            inbox' = Append(inbox, ChannelsEvent(op, {c}))
      BY <2>1 DEF Advertise, Unadvertise, Tell
    <3>2. ChannelsEvent(op, {c}) \in AnyEvent
      BY DEF ChannelsEvent, AnyEvent
    <3>3. ChannelsEvent(op, {c}).op # "close"
      BY DEF ChannelsEvent
    <3> QED
      BY <3>1, <3>2, <3>3
  <2>2. ASSUME NEW i \in DOMAIN subs, SendMessage(i) PROVE Told
    <3> DEFINE e == [op |-> "message", sub |-> i, channel |-> subs[i],
                     again |-> \E n \in DOMAIN inbox :
                                 /\ inbox[n].op = "unadvertise"
                                 /\ subs[i] \in inbox[n].channels]
    <3>1. e \in AnyEvent /\ e.op # "close"
      BY DEF IInv, Sorts, AnyEvent
    <3> QED
      BY <2>2, <3>1 DEF SendMessage, Tell
  <2> QED
    BY <2>1, <2>2 DEF ServerStep
<1>3. inbox' \in Seq(AnyEvent) /\ Connected'
  BY <1>1, <1>2, ToldKeeps
<1>4. /\ advertised' \subseteq Channels
      /\ \A i \in DOMAIN subs' : i \in Nat /\ subs'[i] \in Channels
  BY DEF IInv, Sorts, ServerStep, Advertise, Unadvertise, SendMessage,
         Without, Restrict
<1>5. Sorts'
  BY <1>1, <1>3, <1>4 DEF IInv, Sorts
<1> QED
  BY <1>1, <1>3, <1>5, TopicsKept

LEMMA AnswersKeeps == IInv /\ Answers => IInv'
<1> SUFFICES ASSUME IInv, NEW request \in asked, Answer(request) PROVE IInv'
  BY DEF Answers
<1> DEFINE e == [op |-> request[1], id |-> request[2]]
<1>1. /\ asked' = asked \ {request} /\ inbox' = Append(inbox, e)
      /\ UNCHANGED <<topicMaps, closed, client, openTimer, opened, socket,
                     nextSub, subs, session, advertised, promises>>
  BY DEF Answer, conn, topicState, reqState, server, topicMaps
<1>2. e \in AnyEvent /\ e.op # "close"
  BY DEF IInv, Sorts, AnyEvent
<1>3. inbox' \in Seq(AnyEvent) /\ Connected'
  <2>1. socket = "open"
    BY DEF IInv, Connected
  <2> HIDE DEF e
  <2> QED
    BY <1>1, <1>2, <2>1, ToldKeeps
<1>4. Sorts'
  BY <1>1, <1>3 DEF IInv, Sorts
<1> QED
  BY <1>1, <1>3, <1>4, TopicsKept

(* AnyEvent about what is not a topic. *)
LEMMA OtherEventKeeps ==
  ASSUME IInv, OnServerInfo \/ OnAdvertiseServices \/ OnMessage
                 \/ OnServiceResponse \/ OnAssetResponse
  PROVE  IInv'
<1>1. \E op : op \notin {"open", "close"} /\ Handles(op)
  BY DEF OnServerInfo, OnAdvertiseServices, OnMessage, OnServiceResponse,
         OnAssetResponse
<1>2. UNCHANGED <<topicMaps, closed, client, openTimer, opened, socket,
                  nextSub, subs, asked, session, advertised>>
  BY DEF OnServerInfo, OnAdvertiseServices, OnMessage, OnServiceResponse,
         OnAssetResponse, Handles, conn, wire, topicState, server, topicMaps
<1>3. DOMAIN promises' = DOMAIN promises
  BY DEF OnServerInfo, OnAdvertiseServices, OnMessage, OnServiceResponse,
         OnAssetResponse, ResetSessionState, Settle, reqState
<1>4. inbox' \in Seq(AnyEvent) /\ Connected'
  BY <1>1, <1>2, HandledKeeps
<1>5. Sorts'
  BY <1>2, <1>3, <1>4 DEF IInv, Sorts
<1> QED
  BY <1>2, <1>4, <1>5, TopicsKept

(* A request of the user, with a promise. *)
LEMMA RequestKeeps ==
  ASSUME IInv, CallService \/ FetchAsset
  PROVE  IInv'
<1>1. UNCHANGED <<topicMaps, closed, client, openTimer, opened, socket,
                  nextSub, subs, inbox, session, advertised>>
  BY DEF CallService, FetchAsset, conn, topicState, server, topicMaps
<1>2. PICK kind \in {"service", "asset"} :
        LET id == Count(kind) + 1 IN
        /\ promises' = Over(promises, Promised(<<kind, id>>))
        /\ Ask(<<kind, id>>)
  BY DEF CallService, FetchAsset
<1> DEFINE id == Count(kind) + 1
<1>3. id \in Nat
  <2>1. IsFiniteSet(Promise(kind))
    <3>1. Promise(kind) \in SUBSET DOMAIN promises
      BY DEF Promise
    <3> QED
      BY <3>1, FS_Subset DEF IInv, Sorts
  <2> QED
    BY <2>1, FS_CardinalityType DEF Count
<1> HIDE DEF id
<1>4. IsFiniteSet(DOMAIN promises')
  <2>1. DOMAIN promises' = DOMAIN promises \cup {<<kind, id>>}
    BY <1>2 DEF Over, Promised, id
  <2>2. IsFiniteSet(DOMAIN promises)
    BY DEF IInv, Sorts
  <2>3. IsFiniteSet(DOMAIN promises \cup {<<kind, id>>})
    BY <2>2, FS_AddElement
  <2> QED
    BY <2>1, <2>3
<1>5. asked' \subseteq {"service", "asset"} \X Nat
      /\ (asked' # {} => socket = "open")
  BY <1>2, <1>3 DEF Ask, IInv, Sorts, Connected, id
<1>6. Sorts'
  BY <1>1, <1>4, <1>5 DEF IInv, Sorts
<1>7. Connected'
  BY <1>1, <1>5 DEF IInv, Connected
<1> QED
  BY <1>1, <1>6, <1>7, TopicsKept

(* Nothing that the invariant speaks of changes. *)
LEMMA StutterKeeps ==
  ASSUME IInv,
         UNCHANGED <<topicMaps, closed, client, openTimer, opened, socket,
                     nextSub, subs, asked, inbox, session, advertised,
                     promises>>
  PROVE  IInv'
<1>1. Sorts' /\ Connected'
  BY DEF IInv, Sorts, Connected
<1> QED
  BY <1>1, TopicsKept

-----------------------------------------------------------------------------
(* Channels that come and go, and the topics that are asked for.            *)

LEMMA OnAdvertiseKeeps == IInv /\ OnAdvertise => IInv'
<1> SUFFICES ASSUME IInv, OnAdvertise PROVE IInv'
  OBVIOUS
<1> DEFINE supported == Head(inbox).channels \ Unsupported
           free == {TopicOf[c] : c \in supported} \ DOMAIN channelsByTopic
           found == IF client THEN unresolved \cap DOMAIN channelsByTopic'
                    ELSE {}
<1>1. /\ Handles("advertise")
      /\ UNCHANGED <<closed, client, openTimer, opened, socket, asked, session,
                     advertised, promises, wanted, kept>>
  BY DEF OnAdvertise, Handles, conn, reqState, server
<1>2. inbox' \in Seq(AnyEvent) /\ Connected' /\ (closed \/ opened)
  BY <1>1, HandledKeeps
<1>3. PICK first \in [free -> supported] :
        /\ \A t \in free : TopicOf[first[t]] = t
        /\ channelsById' = channelsById \cup Range(first)
        /\ channelsByTopic' = Over(first, channelsByTopic)
  BY DEF OnAdvertise
<1>4. ProcessUnresolved(unresolved, byTopic, byId, channelsByTopic',
                        DOMAIN subs)
  BY DEF OnAdvertise
<1> HIDE DEF free, supported
<1>5. /\ DOMAIN channelsByTopic' = free \cup DOMAIN channelsByTopic
      /\ \A t \in free : channelsByTopic'[t] = first[t]
      /\ \A t \in DOMAIN channelsByTopic :
           channelsByTopic'[t] = channelsByTopic[t]
  BY <1>3 DEF Over, free
<1>6. ChannelsAgree'
  <2>1. ASSUME NEW t \in DOMAIN channelsByTopic'
        PROVE  /\ channelsByTopic'[t] \in channelsById'
               /\ TopicOf[channelsByTopic'[t]] = t
    <3>1. CASE t \in free
      BY <1>3, <1>5, <3>1 DEF Range
    <3>2. CASE t \in DOMAIN channelsByTopic
      BY <1>3, <1>5, <3>2 DEF IInv, ChannelsAgree
    <3> QED
      BY <1>5, <3>1, <3>2
  <2>2. ASSUME NEW c \in channelsById'
        PROVE  /\ TopicOf[c] \in DOMAIN channelsByTopic'
               /\ channelsByTopic'[TopicOf[c]] = c
    <3>1. CASE c \in channelsById
      BY <1>5, <3>1 DEF IInv, ChannelsAgree
    <3>2. CASE c \in Range(first)
      BY <1>3, <1>5, <3>2 DEF Range
    <3> QED
      BY <1>3, <3>1, <3>2
  <2> QED
    BY <2>1, <2>2 DEF ChannelsAgree
<1>7. /\ unresolved' = unresolved \ found
      /\ DOMAIN byTopic' = found \cup DOMAIN byTopic
      /\ nextSub' \in Nat /\ nextSub <= nextSub'
      /\ \A t \in found :
           /\ byTopic'[t] \in DOMAIN byId'
           /\ byId'[byTopic'[t]] = channelsByTopic'[t]
      /\ \A t \in DOMAIN byTopic \ found : byTopic'[t] = byTopic[t]
      /\ DOMAIN byId \subseteq DOMAIN byId'
      /\ \A i \in DOMAIN byId' :
           \/ /\ i \in Nat /\ nextSub <= i /\ i < nextSub'
              /\ \E t \in found : byTopic'[t] = i
           \/ /\ ~(i \in Nat /\ nextSub <= i /\ i < nextSub')
              /\ i \in DOMAIN byId /\ byId'[i] = byId[i]
      /\ \A i \in DOMAIN subs' : i \in Nat /\ subs'[i] \in Channels
  BY <1>4, ProcessFacts DEF IInv, Sorts, Requested
<1>8. Sorts'
  BY <1>1, <1>2, <1>7 DEF IInv, Sorts
<1>9. \A t \in found : TopicOf[byId'[byTopic'[t]]] = t
  BY <1>6, <1>7 DEF ChannelsAgree
<1> HIDE DEF found
<1>10. Requested'
  <2>1. found \subseteq unresolved
    BY DEF found
  <2>2. \A i \in DOMAIN byId' :
          TopicOf[byId'[i]] \in unresolved \cup DOMAIN byTopic
    BY <1>7, <1>9, <2>1 DEF IInv, Requested
  <2> QED
    BY <1>1, <1>7, <2>1, <2>2 DEF IInv, Requested
<1>11. OwnTopic' /\ Subscribed'
  <2> SUFFICES ASSUME opened, client PROVE OwnTopic' /\ Subscribed'
    BY <1>1, <1>2 DEF OwnTopic, Subscribed, IInv, Sorts, Connected
  <2>1. found = unresolved \cap DOMAIN channelsByTopic'
    BY DEF found
  <2>2. found \cap DOMAIN byTopic = {}
    BY <2>1 DEF IInv, Subscribed
  <2>3. \A i \in DOMAIN byId : i \in Nat /\ i < nextSub
    BY DEF IInv, Subscribed
  <2>4. \A i \in DOMAIN byId : i \in DOMAIN byId' /\ byId'[i] = byId[i]
    BY <1>7, <2>3 DEF IInv, Sorts
  <2>5. OwnTopic'
    <3>1. ASSUME NEW i \in DOMAIN byId'
          PROVE  /\ TopicOf[byId'[i]] \in DOMAIN byTopic'
                 /\ byTopic'[TopicOf[byId'[i]]] = i
      <4>1. CASE \E t \in found : byTopic'[t] = i
        BY <1>7, <1>9, <4>1
      <4>2. CASE i \in DOMAIN byId /\ byId'[i] = byId[i]
        BY <1>7, <2>2, <4>2 DEF IInv, OwnTopic
      <4> QED
        BY <1>7, <4>1, <4>2
    <3> QED
      BY <3>1 DEF OwnTopic
  <2>6. Subscribed'
    <3>1. ASSUME NEW t \in DOMAIN byTopic'
          PROVE  /\ byTopic'[t] \in DOMAIN byId'
                 /\ t \in DOMAIN channelsByTopic'
                 /\ channelsByTopic'[t] = byId'[byTopic'[t]]
      <4>1. CASE t \in found
        BY <1>7, <2>1, <4>1
      <4>2. CASE t \in DOMAIN byTopic
        BY <1>5, <1>7, <2>2, <2>4, <4>2 DEF IInv, Subscribed
      <4> QED
        BY <1>7, <4>1, <4>2
    <3>2. unresolved' \cap DOMAIN channelsByTopic' = {}
      BY <1>7, <2>1
    <3>3. \A i \in DOMAIN byId' : i \in Nat /\ i < nextSub'
      BY <1>7, <2>3 DEF IInv, Sorts
    <3> QED
      BY <3>1, <3>2, <3>3 DEF Subscribed
  <2> QED
    BY <2>5, <2>6
<1> QED
  BY <1>2, <1>6, <1>8, <1>10, <1>11 DEF IInv

LEMMA OnUnadvertiseKeeps == IInv /\ OnUnadvertise => IInv'
<1> SUFFICES ASSUME IInv, OnUnadvertise PROVE IInv'
  OBVIOUS
<1> DEFINE gone == Head(inbox).channels \cap channelsById
           lost == {i \in DOMAIN byId : byId[i] \in gone}
           topics == {TopicOf[byId[i]] : i \in lost}
           goneTopics == {TopicOf[c] : c \in gone}
<1>1. /\ Handles("unadvertise")
      /\ UNCHANGED <<closed, client, openTimer, opened, socket, asked, session,
                     advertised, promises, wanted, kept, nextSub>>
  BY DEF OnUnadvertise, Handles, conn, reqState, server
<1>2. inbox' \in Seq(AnyEvent) /\ Connected' /\ (closed \/ opened)
  BY <1>1, HandledKeeps
<1>3. /\ channelsById' = channelsById \ gone
      /\ channelsByTopic' = Without(channelsByTopic, goneTopics)
      /\ byId' = Without(byId, lost) /\ byTopic' = Without(byTopic, topics)
      /\ unresolved' = unresolved \cup topics
      /\ subs' = Without(subs, lost)
  BY DEF OnUnadvertise, UnsubscribeChannels
<1>4. /\ DOMAIN channelsByTopic' = DOMAIN channelsByTopic \ goneTopics
      /\ \A t \in DOMAIN channelsByTopic' :
           channelsByTopic'[t] = channelsByTopic[t]
      /\ DOMAIN byId' = DOMAIN byId \ lost
      /\ \A i \in DOMAIN byId' : byId'[i] = byId[i]
      /\ DOMAIN byTopic' = DOMAIN byTopic \ topics
      /\ \A t \in DOMAIN byTopic' : byTopic'[t] = byTopic[t]
      /\ DOMAIN subs' \subseteq DOMAIN subs
      /\ \A i \in DOMAIN subs' : subs'[i] = subs[i]
  BY <1>3 DEF Without, Restrict
<1>5. Sorts'
  BY <1>1, <1>2, <1>4 DEF IInv, Sorts
<1>6. ChannelsAgree'
  <2>1. ASSUME NEW t \in DOMAIN channelsByTopic'
        PROVE  /\ channelsByTopic'[t] \in channelsById'
               /\ TopicOf[channelsByTopic'[t]] = t
    <3>1. /\ channelsByTopic'[t] = channelsByTopic[t]
          /\ channelsByTopic[t] \in channelsById
          /\ TopicOf[channelsByTopic[t]] = t /\ t \notin goneTopics
      BY <1>4 DEF IInv, ChannelsAgree
    <3>2. channelsByTopic[t] \notin gone
      BY <3>1
    <3> QED
      BY <1>3, <3>1, <3>2
  <2>2. ASSUME NEW c \in channelsById'
        PROVE  /\ TopicOf[c] \in DOMAIN channelsByTopic'
               /\ channelsByTopic'[TopicOf[c]] = c
    <3>1. /\ c \in channelsById /\ c \notin gone
          /\ TopicOf[c] \in DOMAIN channelsByTopic
          /\ channelsByTopic[TopicOf[c]] = c
      BY <1>3 DEF IInv, ChannelsAgree
    <3>2. TopicOf[c] \notin goneTopics
      BY <3>1 DEF IInv, ChannelsAgree
    <3> QED
      BY <1>4, <3>1, <3>2
  <2> QED
    BY <2>1, <2>2 DEF ChannelsAgree
<1>7. topics \subseteq unresolved \cup DOMAIN byTopic
  BY DEF IInv, Requested
<1>8. Requested'
  BY <1>1, <1>3, <1>4, <1>7 DEF IInv, Requested
<1>9. topics \subseteq goneTopics
  OBVIOUS
<1>10. ASSUME opened PROVE OwnTopic' /\ Subscribed'
  <2>1. \A i \in DOMAIN byId' : TopicOf[byId[i]] \notin topics
    BY <1>4, <1>10 DEF IInv, OwnTopic
  <2>2. OwnTopic'
    BY <1>4, <1>10, <2>1 DEF IInv, OwnTopic
  <2>3. ASSUME NEW t \in DOMAIN byTopic'
        PROVE  /\ byTopic'[t] \in DOMAIN byId'
               /\ t \in DOMAIN channelsByTopic'
               /\ channelsByTopic'[t] = byId'[byTopic'[t]]
    <3> DEFINE i == byTopic[t]
    <3>1. /\ t \in DOMAIN byTopic /\ t \notin topics /\ byTopic'[t] = i
          /\ i \in DOMAIN byId /\ t \in DOMAIN channelsByTopic
          /\ channelsByTopic[t] = byId[i]
      BY <1>4, <1>10 DEF IInv, Subscribed
    <3>2. TopicOf[byId[i]] = t
      BY <3>1 DEF IInv, ChannelsAgree
    <3>3. i \notin lost
      BY <3>1, <3>2
    <3>4. t \notin goneTopics
      BY <3>1, <3>3 DEF IInv, ChannelsAgree
    <3> QED
      BY <1>4, <3>1, <3>3, <3>4
  <2>4. unresolved' \cap DOMAIN channelsByTopic' = {}
    BY <1>3, <1>4, <1>9, <1>10 DEF IInv, Subscribed
  <2>5. \A i \in DOMAIN byId' : i \in Nat /\ i < nextSub'
    BY <1>1, <1>4, <1>10 DEF IInv, Subscribed
  <2> QED
    BY <2>2, <2>3, <2>4, <2>5 DEF Subscribed
<1>11. OwnTopic' /\ Subscribed'
  BY <1>1, <1>2, <1>10 DEF OwnTopic, Subscribed, IInv, Sorts
<1> QED
  BY <1>2, <1>5, <1>6, <1>8, <1>11 DEF IInv

LEMMA SetSubscriptionsKeeps ==
  ASSUME IInv, NEW topics \in SUBSET Topics, SetSubscriptions(topics)
  PROVE  IInv'
<1>1. /\ ~closed /\ wanted' = topics
      /\ UNCHANGED <<closed, client, openTimer, opened, socket, asked, inbox,
                     session, advertised, promises, channelsByTopic,
                     channelsById>>
  BY DEF SetSubscriptions, conn, reqState, server
<1>2. Connected' /\ ChannelsAgree'
  BY <1>1 DEF IInv, Connected, ChannelsAgree
<1>3. CASE ~client
  <2>1. /\ unresolved' = topics /\ kept' = DOMAIN byTopic \ topics
        /\ UNCHANGED <<byTopic, byId, nextSub, subs>> /\ ~opened
    BY <1>3 DEF SetSubscriptions, IInv, Connected
  <2>2. Sorts'
    BY <1>1, <2>1 DEF IInv, Sorts
  <2>3. Requested'
    BY <1>1, <2>1 DEF IInv, Requested, OwnTopic
  <2>4. OwnTopic' /\ Subscribed'
    BY <1>1, <2>1 DEF IInv, OwnTopic, Subscribed
  <2> QED
    BY <1>2, <2>2, <2>3, <2>4 DEF IInv
<1>4. CASE client
  <2> DEFINE off == {byTopic[t] : t \in DOMAIN byTopic \ topics}
             new == topics \ DOMAIN byTopic
             stay == Only(byTopic, topics)
             ids == Without(byId, off)
             found == IF client THEN new \cap DOMAIN channelsByTopic ELSE {}
  <2>1. /\ ProcessUnresolved(new, stay, ids, channelsByTopic,
                             DOMAIN subs \ off)
        /\ kept' = {}
    BY <1>4 DEF SetSubscriptions, Resubscribed
  <2>2. /\ DOMAIN stay = DOMAIN byTopic \cap topics
        /\ \A t \in DOMAIN stay : stay[t] = byTopic[t]
        /\ DOMAIN ids = DOMAIN byId \ off
        /\ \A i \in DOMAIN ids : ids[i] = byId[i]
    BY DEF Only, Without, Restrict
  <2>3. /\ unresolved' = new \ found
        /\ DOMAIN byTopic' = found \cup DOMAIN stay
        /\ nextSub' \in Nat /\ nextSub <= nextSub'
        /\ \A t \in found :
             /\ byTopic'[t] \in DOMAIN byId'
             /\ byId'[byTopic'[t]] = channelsByTopic[t]
        /\ \A t \in DOMAIN stay \ found : byTopic'[t] = stay[t]
        /\ DOMAIN ids \subseteq DOMAIN byId'
        /\ \A i \in DOMAIN byId' :
             \/ /\ i \in Nat /\ nextSub <= i /\ i < nextSub'
                /\ \E t \in found : byTopic'[t] = i
             \/ /\ ~(i \in Nat /\ nextSub <= i /\ i < nextSub')
                /\ i \in DOMAIN ids /\ byId'[i] = ids[i]
        /\ \A i \in DOMAIN subs' : i \in Nat /\ subs'[i] \in Channels
    <3>1. new \subseteq Topics /\ DOMAIN subs \ off \subseteq DOMAIN subs
      OBVIOUS
    <3> HIDE DEF stay, ids, off, new
    <3> QED
      BY <2>1, <3>1, ProcessFacts DEF IInv, Sorts
  <2>0. found = new \cap DOMAIN channelsByTopic
    BY <1>4
  <2> HIDE DEF stay, ids, found
  <2>4. Sorts'
    BY <1>1, <2>3 DEF IInv, Sorts
  <2>5. \A t \in found : TopicOf[byId'[byTopic'[t]]] = t
    BY <2>3, <2>0 DEF IInv, ChannelsAgree
  <2>6. ASSUME NEW i \in DOMAIN ids
        PROVE  /\ TopicOf[byId[i]] \in DOMAIN stay
               /\ stay[TopicOf[byId[i]]] = i
    BY <1>1, <2>2, <2>6 DEF IInv, OwnTopic
  <2>7. found \cap DOMAIN stay = {}
    BY <2>2, <2>0
  <2>8. ASSUME NEW i \in DOMAIN byId'
        PROVE  /\ TopicOf[byId'[i]] \in DOMAIN byTopic'
               /\ byTopic'[TopicOf[byId'[i]]] = i
    <3>1. CASE \E t \in found : byTopic'[t] = i
      BY <2>3, <2>5, <3>1
    <3>2. CASE i \in DOMAIN ids /\ byId'[i] = ids[i]
      BY <2>2, <2>3, <2>6, <2>7, <3>2
    <3> QED
      BY <2>3, <3>1, <3>2
  <2>9. Requested' /\ OwnTopic'
    <3>1. unresolved' \cup DOMAIN byTopic' = topics
      BY <2>2, <2>3, <2>0
    <3> QED
      BY <1>1, <2>8, <3>1 DEF Requested, OwnTopic
  <2>10. Subscribed'
    <3> SUFFICES ASSUME opened PROVE Subscribed'
      BY <1>1 DEF Subscribed
    <3>1. \A i \in DOMAIN ids : i \in DOMAIN byId' /\ byId'[i] = byId[i]
                                /\ i \in Nat /\ i < nextSub
      BY <2>2, <2>3 DEF IInv, Subscribed, Sorts
    <3>2. ASSUME NEW t \in DOMAIN stay
          PROVE  byTopic[t] \in DOMAIN ids
      <4>1. /\ t \in DOMAIN byTopic /\ t \in topics
            /\ byTopic[t] \in DOMAIN byId /\ TopicOf[byId[byTopic[t]]] = t
        BY <2>2 DEF IInv, Subscribed, ChannelsAgree
      <4>2. ASSUME NEW u \in DOMAIN byTopic, byTopic[u] = byTopic[t]
            PROVE  u = t
        BY <4>1, <4>2 DEF IInv, Subscribed, ChannelsAgree
      <4> QED
        BY <2>2, <4>1, <4>2
    <3>3. ASSUME NEW t \in DOMAIN byTopic'
          PROVE  /\ byTopic'[t] \in DOMAIN byId'
                 /\ t \in DOMAIN channelsByTopic
                 /\ channelsByTopic[t] = byId'[byTopic'[t]]
      <4>1. CASE t \in found
        BY <2>3, <2>0, <4>1
      <4>2. CASE t \in DOMAIN stay
        <5>1. byTopic'[t] = byTopic[t] /\ byTopic[t] \in DOMAIN ids
          BY <2>2, <2>3, <2>7, <3>2, <4>2
        <5> QED
          BY <2>2, <3>1, <4>2, <5>1 DEF IInv, Subscribed
      <4> QED
        BY <2>3, <4>1, <4>2
    <3>4. unresolved' \cap DOMAIN channelsByTopic = {}
      BY <2>3, <2>0
    <3>5. \A i \in DOMAIN byId' : i \in Nat /\ i < nextSub'
      BY <2>3, <3>1 DEF IInv, Sorts
    <3> QED
      BY <1>1, <3>3, <3>4, <3>5 DEF Subscribed
  <2> QED
    BY <1>2, <2>4, <2>9, <2>10 DEF IInv
<1> QED
  BY <1>3, <1>4 DEF IInv, Sorts

-----------------------------------------------------------------------------
LEMMA NextIInv == IInv /\ [Next]_vars => IInv'
<1> SUFFICES ASSUME IInv, [Next]_vars PROVE IInv'
  OBVIOUS
<1>1. CASE HandleEvent
  BY <1>1, OnOpenKeeps, OnAdvertiseKeeps, OnUnadvertiseKeeps, OnCloseKeeps,
     OtherEventKeeps
  DEF HandleEvent
<1>2. CASE UserStep
  <2>1. ASSUME NEW pubs \in SUBSET Publishers, SetPublishers(pubs) PROVE IInv'
    BY <2>1, StutterKeeps
    DEF SetPublishers, conn, topicState, topicMaps, reqState, server
  <2> QED
    BY <1>2, <2>1, SetSubscriptionsKeeps, RequestKeeps, CloseKeeps DEF UserStep
<1>3. CASE UNCHANGED vars
  BY <1>3, StutterKeeps
  DEF vars, conn, wire, topicState, topicMaps, reqState, server
<1> QED
  BY <1>1, <1>2, <1>3, OpenKeeps, AcceptKeeps, DropKeeps, AttemptTimeoutKeeps,
     ServerKeeps, AnswersKeeps
  DEF Next

(* The strengthened invariant holds in every reachable state.               *)
THEOREM Inductive == Spec => []IInv
  BY InitIInv, NextIInv, PTL DEF Spec

(* No requested topic is forgotten, and on an open connection each topic    *)
(* with a channel has a subscription of its own, however connections are    *)
(* lost, channels come and go and the subscriptions change meanwhile.       *)
THEOREM NothingForgotten == Spec => []SubscriptionsKept
  BY KeptFollows, Inductive, PTL

-----------------------------------------------------------------------------
(* The types of the other variables.                                        *)

Flags ==
  {attemptTimer, greeted, capable, service, astray} \subseteq BOOLEAN

Maps ==
  /\ wanted \cup kept \subseteq Topics
  /\ \A t \in DOMAIN byTopic : byTopic[t] \in Nat
  /\ \A i \in DOMAIN byId : i \in Nat /\ byId[i] \in Channels
  /\ canceled \cup {firstSub} \subseteq Nat
  /\ channelsById \cup unsupportedIds \subseteq Channels
  /\ channelsById \cap Unsupported = {}

Pubs == unresolvedPubs \cup publications \cup serverPubs \cup wantedPubs
          \subseteq Publishers

(* Every promise is of a call. *)
Requests ==
  /\ calls \in 0..MaxCalls
  /\ Count("asset") + Count("service") <= calls
  /\ serviceCbs \cup assetCbs \cup {fetched} \subseteq 0..MaxCalls
  /\ \A p \in DOMAIN promises : promises[p] \in {"pending", "settled"}

LEMMA CountType == Sorts => \A kind : Count(kind) \in Nat
<1> SUFFICES ASSUME Sorts, NEW kind PROVE Count(kind) \in Nat
  OBVIOUS
<1>1. Promise(kind) \in SUBSET DOMAIN promises
  BY DEF Promise
<1> QED
  BY <1>1, FS_Subset, FS_CardinalityType DEF Count, Sorts

LEMMA TypesFollow == IInv /\ Flags /\ Maps /\ Pubs /\ Requests => TypeOK
<1> SUFFICES ASSUME IInv, Flags, Maps, Pubs, Requests PROVE TypeOK
  OBVIOUS
<1>1. \A kind : Count(kind) \in Nat
  BY CountType DEF IInv
<1>2. {Count("asset"), Count("service")} \subseteq 0..MaxCalls
  BY <1>1, FoxgloveAssumption DEF Requests
<1>3. DOMAIN channelsByTopic \subseteq Topics
      /\ Range(channelsByTopic) \subseteq Channels
  BY FoxgloveAssumption DEF IInv, ChannelsAgree, Maps, Topics, Range
<1>4. Range(byTopic) \subseteq Nat /\ Range(byId) \subseteq Channels
      /\ Range(subs) \subseteq Channels
      /\ Range(promises) \subseteq {"pending", "settled"}
  BY DEF IInv, Sorts, Maps, Requests, Range
<1>5. client \/ (socket = "none" /\ inbox = <<>>)
  BY DEF IInv, Connected
<1> QED
  BY <1>2, <1>3, <1>4, <1>5
  DEF TypeOK, IInv, Sorts, Connected, Requested, Flags, Maps, Pubs, Requests

LEMMA FlagsKeep == Flags /\ [Next]_vars => Flags'
<1> SUFFICES ASSUME Flags, [Next]_vars PROVE Flags'
  OBVIOUS
<1>1. CASE HandleEvent
  BY <1>1
  DEF HandleEvent, OnOpen, OnServerInfo, OnAdvertiseServices, OnAdvertise,
      OnUnadvertise, OnMessage, OnServiceResponse, OnAssetResponse, OnClose,
      CloseConnection, conn, sess, topicState, reqState, Flags
<1>2. CASE UserStep
  BY <1>2
  DEF UserStep, SetSubscriptions, SetPublishers, CallService, FetchAsset,
      Close, conn, sess, topicState, reqState, Flags
<1>3. CASE ServerStep
  BY <1>3
  DEF ServerStep, Advertise, Unadvertise, SendMessage, ServerActs, conn, sess,
      topicState, reqState, Flags
<1>4. CASE Open \/ Accept \/ Drop \/ AttemptTimeout \/ Answers
  BY <1>4
  DEF Open, Accept, Drop, AttemptTimeout, Answers, Answer, conn, sess,
      topicState, reqState, Flags
<1>5. CASE UNCHANGED vars
  BY <1>5 DEF vars, conn, sess, topicState, reqState, Flags
<1> QED
  BY <1>1, <1>2, <1>3, <1>4, <1>5 DEF Next

LEMMA PubsKeep == Pubs /\ [Next]_vars => Pubs'
<1> SUFFICES ASSUME Pubs, [Next]_vars PROVE Pubs'
  OBVIOUS
<1>1. CASE HandleEvent
  BY <1>1
  DEF HandleEvent, OnOpen, OnServerInfo, OnAdvertiseServices, OnAdvertise,
      OnUnadvertise, OnMessage, OnServiceResponse, OnAssetResponse, OnClose,
      SetupPublishers, AdvertiseClient, wire, pubState, Pubs
<1>2. CASE UserStep
  BY <1>2
  DEF UserStep, SetSubscriptions, SetPublishers, AdvertiseClient, CallService,
      FetchAsset, Close, CloseClient, EndSocket, wire, pubState, Pubs
<1>3. CASE ServerStep
  BY <1>3
  DEF ServerStep, Advertise, Unadvertise, SendMessage, ServerActs, pubState,
      Pubs
<1>4. CASE Open \/ Accept \/ Drop \/ AttemptTimeout \/ Answers
  BY <1>4
  DEF Open, Accept, Drop, AttemptTimeout, Answers, Answer, CloseClient,
      EndSocket, wire, pubState, Pubs
<1>5. CASE UNCHANGED vars
  BY <1>5 DEF vars, wire, pubState, Pubs
<1> QED
  BY <1>1, <1>2, <1>3, <1>4, <1>5 DEF Next

(* New subscriptions have numbers, and channels.                            *)
LEMMA ProcessTypes ==
  ASSUME NEW topics, NEW topicMap, NEW idMap, NEW channels, NEW known,
         ProcessUnresolved(topics, topicMap, idMap, channels, known),
         Sorts, topics \subseteq Topics, known \subseteq DOMAIN subs,
         \A t \in DOMAIN topicMap : topicMap[t] \in Nat,
         \A i \in DOMAIN idMap : i \in Nat /\ idMap[i] \in Channels,
         \A t \in DOMAIN channels : channels[t] \in Channels
  PROVE  /\ \A t \in DOMAIN byTopic' : byTopic'[t] \in Nat
         /\ \A i \in DOMAIN byId' : i \in Nat /\ byId'[i] \in Channels
<1> DEFINE found == IF client THEN topics \cap DOMAIN channels ELSE {}
<1>1. /\ DOMAIN byTopic' = found \cup DOMAIN topicMap
      /\ \A t \in found :
           /\ byTopic'[t] \in DOMAIN byId'
           /\ byId'[byTopic'[t]] = channels[t]
      /\ \A t \in DOMAIN topicMap \ found : byTopic'[t] = topicMap[t]
      /\ \A i \in DOMAIN byId' :
           \/ /\ i \in Nat /\ nextSub <= i /\ i < nextSub'
              /\ \E t \in found : byTopic'[t] = i
           \/ /\ ~(i \in Nat /\ nextSub <= i /\ i < nextSub')
              /\ i \in DOMAIN idMap /\ byId'[i] = idMap[i]
  <2>1. /\ nextSub \in Nat /\ advertised \subseteq Channels
        /\ \A i \in DOMAIN subs : i \in Nat /\ subs[i] \in Channels
    BY DEF Sorts
  <2>2. LET some == IF client THEN topics \cap DOMAIN channels ELSE {} IN
        /\ unresolved' = topics \ some
        /\ DOMAIN byTopic' = some \cup DOMAIN topicMap
        /\ nextSub' \in Nat /\ nextSub <= nextSub'
        /\ \A t \in some :
             /\ byTopic'[t] \in DOMAIN byId'
             /\ byId'[byTopic'[t]] = channels[t]
        /\ \A t \in DOMAIN topicMap \ some : byTopic'[t] = topicMap[t]
        /\ DOMAIN idMap \subseteq DOMAIN byId'
        /\ \A i \in DOMAIN byId' :
             \/ /\ i \in Nat /\ nextSub <= i /\ i < nextSub'
                /\ \E t \in some : byTopic'[t] = i
             \/ /\ ~(i \in Nat /\ nextSub <= i /\ i < nextSub')
                /\ i \in DOMAIN idMap /\ byId'[i] = idMap[i]
        /\ \A i \in DOMAIN subs' : i \in Nat /\ subs'[i] \in Channels
    BY <2>1, ProcessFacts
  <2> QED
    BY <2>2
<1>2. found \subseteq DOMAIN channels
  OBVIOUS
<1> HIDE DEF found
<1>3. \A i \in DOMAIN byId' : i \in Nat /\ byId'[i] \in Channels
  BY <1>1, <1>2
<1>4. \A t \in DOMAIN byTopic' : byTopic'[t] \in Nat
  BY <1>1, <1>3
<1> QED
  BY <1>3, <1>4

LEMMA OnAdvertiseMaps == IInv /\ Maps /\ OnAdvertise => Maps'
<1> SUFFICES ASSUME IInv, Maps, OnAdvertise PROVE Maps'
  OBVIOUS
<1> DEFINE new == Head(inbox).channels
           supported == new \ Unsupported
           free == {TopicOf[c] : c \in supported} \ DOMAIN channelsByTopic
<1>1. PICK first \in [free -> supported] :
        /\ \A t \in free : TopicOf[first[t]] = t
        /\ channelsById' = channelsById \cup Range(first)
        /\ channelsByTopic' = Over(first, channelsByTopic)
  BY DEF OnAdvertise
<1>2. /\ Handles("advertise")
      /\ unsupportedIds' = unsupportedIds \cup (new \cap Unsupported)
      /\ ProcessUnresolved(unresolved, byTopic, byId, channelsByTopic',
                           DOMAIN subs)
      /\ UNCHANGED <<wanted, kept, canceled, firstSub>>
  BY DEF OnAdvertise, conn
<1>3. new \subseteq Channels
  <2>1. Head(inbox) \in AnyEvent
    BY <1>2 DEF Handles, IInv, Sorts
  <2> QED
    BY <1>2, <2>1 DEF AnyEvent, Handles
<1> HIDE DEF new
<1>4. Range(first) \subseteq Channels \ Unsupported
  BY <1>3 DEF Range
<1>5. \A t \in DOMAIN channelsByTopic' : channelsByTopic'[t] \in Channels
  BY <1>1, <1>3 DEF Over, IInv, ChannelsAgree, Maps
<1>6. /\ \A t \in DOMAIN byTopic' : byTopic'[t] \in Nat
      /\ \A i \in DOMAIN byId' : i \in Nat /\ byId'[i] \in Channels
  BY <1>2, <1>5, ProcessTypes DEF IInv, Requested, Maps
<1> QED
  BY <1>1, <1>2, <1>3, <1>4, <1>6 DEF Maps

LEMMA SetSubscriptionsMaps ==
  ASSUME IInv, Maps, NEW topics \in SUBSET Topics, SetSubscriptions(topics)
  PROVE  Maps'
<1>1. /\ wanted' = topics
      /\ UNCHANGED <<channelsById, unsupportedIds, firstSub>>
  BY DEF SetSubscriptions, conn
<1>2. CASE ~client
  <2>1. /\ kept' = DOMAIN byTopic \ topics
        /\ UNCHANGED <<byTopic, byId, canceled>>
    BY <1>2 DEF SetSubscriptions
  <2> QED
    BY <1>1, <2>1 DEF Maps, IInv, Requested
<1>3. CASE client
  <2> DEFINE off == {byTopic[t] : t \in DOMAIN byTopic \ topics}
             new == topics \ DOMAIN byTopic
             stay == Only(byTopic, topics)
             ids == Without(byId, off)
  <2>1. /\ ProcessUnresolved(new, stay, ids, channelsByTopic,
                             DOMAIN subs \ off)
        /\ kept' = {} /\ canceled' = canceled \cup off
    BY <1>3 DEF SetSubscriptions, Resubscribed
  <2>2. /\ \A t \in DOMAIN stay : stay[t] \in Nat
        /\ \A i \in DOMAIN ids : i \in Nat /\ ids[i] \in Channels
        /\ new \subseteq Topics /\ off \subseteq Nat
        /\ DOMAIN subs \ off \subseteq DOMAIN subs
    BY DEF Only, Without, Restrict, Maps
  <2>3. \A t \in DOMAIN channelsByTopic : channelsByTopic[t] \in Channels
    BY DEF IInv, ChannelsAgree, Maps
  <2> HIDE DEF stay, ids, off, new
  <2>4. /\ \A t \in DOMAIN byTopic' : byTopic'[t] \in Nat
        /\ \A i \in DOMAIN byId' : i \in Nat /\ byId'[i] \in Channels
    BY <2>1, <2>2, <2>3, ProcessTypes DEF IInv
  <2> QED
    BY <1>1, <2>1, <2>2, <2>4 DEF Maps
<1> QED
  BY <1>2, <1>3

LEMMA OnUnadvertiseMaps == Maps /\ OnUnadvertise => Maps'
<1> SUFFICES ASSUME Maps, OnUnadvertise PROVE Maps'
  OBVIOUS
<1> DEFINE gone == Head(inbox).channels \cap channelsById
           lost == {i \in DOMAIN byId : byId[i] \in gone}
           topics == {TopicOf[byId[i]] : i \in lost}
<1>1. /\ channelsById' = channelsById \ gone
      /\ unsupportedIds' \subseteq unsupportedIds
      /\ byId' = Without(byId, lost) /\ byTopic' = Without(byTopic, topics)
      /\ UNCHANGED <<wanted, kept, canceled, firstSub>>
  BY DEF OnUnadvertise, UnsubscribeChannels, conn
<1>2. /\ DOMAIN byId' \subseteq DOMAIN byId
      /\ \A i \in DOMAIN byId' : byId'[i] = byId[i]
      /\ DOMAIN byTopic' \subseteq DOMAIN byTopic
      /\ \A t \in DOMAIN byTopic' : byTopic'[t] = byTopic[t]
  BY <1>1 DEF Without, Restrict
<1> HIDE DEF gone, lost, topics
<1> QED
  BY <1>1, <1>2 DEF Maps

LEMMA MapsKeep == IInv /\ Maps /\ [Next]_vars => Maps'
<1> SUFFICES ASSUME IInv, Maps, [Next]_vars PROVE Maps'
  OBVIOUS
<1>1. CASE OnAdvertise
  BY <1>1, OnAdvertiseMaps
<1>2. CASE OnUnadvertise
  BY <1>2, OnUnadvertiseMaps
<1>3. ASSUME NEW topics \in SUBSET Topics, SetSubscriptions(topics)
      PROVE  Maps'
  BY <1>3, SetSubscriptionsMaps
<1>4. CASE OnOpen
  <2>1. CASE closed
    BY <1>4, <2>1 DEF OnOpen, conn, topicState, Maps
  <2>2. CASE ~closed
    <3>1. /\ channelsById' = {} /\ byId' = Empty /\ byTopic' = Empty
          /\ firstSub' = nextSub
          /\ UNCHANGED <<wanted, kept, canceled, unsupportedIds>>
      BY <1>4, <2>2 DEF OnOpen
    <3>2. DOMAIN byId' = {} /\ DOMAIN byTopic' = {}
      BY <3>1 DEF Empty
    <3> QED
      BY <3>1, <3>2 DEF Maps, IInv, Sorts
  <2> QED
    BY <2>1, <2>2
<1>5. CASE Open
  BY <1>5 DEF Open, Maps
<1>6. CASE OnServerInfo \/ OnAdvertiseServices \/ OnMessage
             \/ OnServiceResponse \/ OnAssetResponse \/ OnClose
  BY <1>6
  DEF OnServerInfo, OnAdvertiseServices, OnMessage, OnServiceResponse,
      OnAssetResponse, OnClose, conn, topicState, Maps
<1>7. CASE (\E pubs \in SUBSET Publishers : SetPublishers(pubs))
             \/ CallService \/ FetchAsset \/ Close
  BY <1>7
  DEF SetPublishers, CallService, FetchAsset, Close, conn, topicState, Maps
<1>8. CASE ServerStep
  BY <1>8
  DEF ServerStep, Advertise, Unadvertise, SendMessage, ServerActs, conn,
      topicState, Maps
<1>9. CASE Accept \/ Drop \/ AttemptTimeout \/ Answers
  BY <1>9
  DEF Accept, Drop, AttemptTimeout, Answers, Answer, conn, topicState, Maps
<1>10. CASE UNCHANGED vars
  BY <1>10 DEF vars, conn, topicState, Maps
<1> QED
  BY <1>1, <1>2, <1>3, <1>4, <1>5, <1>6, <1>7, <1>8, <1>9, <1>10
  DEF Next, HandleEvent, UserStep

(* A request adds one promise of its kind. *)
LEMMA PromiseCounts ==
  ASSUME IInv, Requests, calls < MaxCalls, calls' = calls + 1,
         NEW kind \in {"service", "asset"}, NEW id,
         promises' = Over(promises, Promised(<<kind, id>>))
  PROVE  /\ calls' \in 0..MaxCalls
         /\ Count("asset")' + Count("service")' <= calls'
         /\ \A p \in DOMAIN promises' : promises'[p] \in {"pending", "settled"}
<1> DEFINE other == IF kind = "service" THEN "asset" ELSE "service"
<1>1. DOMAIN promises' = DOMAIN promises \cup {<<kind, id>>}
  BY DEF Over, Promised
<1>2. Promise(kind)' = Promise(kind) \cup {<<kind, id>>}
  BY <1>1 DEF Promise
<1>3. Promise(other)' = Promise(other)
  BY <1>1 DEF Promise
<1>4. IsFiniteSet(Promise(kind))
  <2>1. Promise(kind) \in SUBSET DOMAIN promises
    BY DEF Promise
  <2> QED
    BY <2>1, FS_Subset DEF IInv, Sorts
<1>5. Count(kind)' = Count(kind) \/ Count(kind)' = Count(kind) + 1
  BY <1>2, <1>4, FS_AddElement DEF Count
<1>6. Count(other)' = Count(other)
  BY <1>3 DEF Count
<1>7. \A k : Count(k) \in Nat
  BY CountType DEF IInv
<1>8. Count("asset")' + Count("service")' <= Count("asset") + Count("service")
                                               + 1
  BY <1>5, <1>6, <1>7
<1>9. Count("asset")' \in Nat /\ Count("service")' \in Nat
  BY <1>5, <1>6, <1>7
<1>10. calls' \in 0..MaxCalls
  BY FoxgloveAssumption DEF Requests
<1>11. Count("asset")' + Count("service")' <= calls'
  BY <1>7, <1>8, <1>9 DEF Requests
<1>12. \A p \in DOMAIN promises' : promises'[p] \in {"pending", "settled"}
  BY DEF Over, Promised, Requests
<1> QED
  BY <1>10, <1>11, <1>12

LEMMA RequestCounts == IInv /\ Requests /\ (CallService \/ FetchAsset)
                         => Requests'
<1> SUFFICES ASSUME IInv, Requests, CallService \/ FetchAsset PROVE Requests'
  OBVIOUS
<1>1. PICK kind \in {"service", "asset"} :
        LET id == Count(kind) + 1 IN
        /\ calls < MaxCalls /\ calls' = calls + 1
        /\ promises' = Over(promises, Promised(<<kind, id>>))
        /\ serviceCbs' \cup assetCbs' \cup {fetched'}
             \subseteq serviceCbs \cup assetCbs \cup {fetched, id}
  BY DEF CallService, FetchAsset
<1> DEFINE id == Count(kind) + 1
<1>2. id \in 0..MaxCalls
  <2>1. \A k : Count(k) \in Nat
    BY CountType DEF IInv
  <2> QED
    BY <1>1, <2>1, FoxgloveAssumption DEF Requests
<1> HIDE DEF id
<1>3. promises' = Over(promises, Promised(<<kind, id>>))
  BY <1>1 DEF id
<1>4. serviceCbs' \cup assetCbs' \cup {fetched'} \subseteq 0..MaxCalls
  <2>1. serviceCbs' \cup assetCbs' \cup {fetched'}
          \subseteq serviceCbs \cup assetCbs \cup {fetched, id}
    BY <1>1 DEF id
  <2> QED
    BY <1>2, <2>1 DEF Requests
<1> QED
  BY <1>1, <1>3, <1>4, PromiseCounts DEF Requests

(* Settling promises leaves their number. *)
LEMMA SettleCounts ==
  ASSUME Requests, NEW S, promises' = Settle(S), UNCHANGED calls,
         serviceCbs' \cup assetCbs' \cup {fetched'}
           \subseteq serviceCbs \cup assetCbs \cup {fetched, 0}
  PROVE  Requests'
<1>1. DOMAIN promises' = DOMAIN promises
  BY DEF Settle
<1>2. Count("asset")' = Count("asset") /\ Count("service")' = Count("service")
  BY <1>1 DEF Count, Promise
<1>3. \A p \in DOMAIN promises' : promises'[p] \in {"pending", "settled"}
  BY DEF Settle, Requests
<1>4. serviceCbs' \cup assetCbs' \cup {fetched'} \subseteq 0..MaxCalls
  BY FoxgloveAssumption DEF Requests
<1> QED
  BY <1>2, <1>3, <1>4 DEF Requests

LEMMA SameCounts ==
  ASSUME IInv, Requests,
         UNCHANGED <<serviceCbs, assetCbs, fetched, promises>>,
         calls' = calls \/ (calls < MaxCalls /\ calls' = calls + 1)
  PROVE  Requests'
<1>1. calls \in Nat /\ calls' \in 0..MaxCalls
  BY FoxgloveAssumption DEF Requests
<1>2. Count("asset")' = Count("asset") /\ Count("service")' = Count("service")
  BY DEF Count, Promise
<1>3. Count("asset") \in Nat /\ Count("service") \in Nat
  BY CountType DEF IInv
<1>4. Count("asset")' + Count("service")' <= calls'
  <2> DEFINE a == Count("asset") b == Count("service")
  <2>1. a + b <= calls /\ (calls' = calls \/ calls' = calls + 1)
    BY DEF Requests
  <2> HIDE DEF a, b
  <2>2. a + b <= calls'
    <3>1. a \in Nat /\ b \in Nat
      BY <1>3 DEF a, b
    <3> QED
      BY <1>1, <2>1, <3>1
  <2> QED
    BY <1>2, <2>2 DEF a, b
<1> QED
  BY <1>1, <1>4 DEF Requests

LEMMA RequestsKeep == IInv /\ Requests /\ [Next]_vars => Requests'
<1> SUFFICES ASSUME IInv, Requests, [Next]_vars PROVE Requests'
  OBVIOUS
<1>1. CASE CallService \/ FetchAsset
  BY <1>1, RequestCounts
<1>2. CASE OnOpen \/ OnServerInfo \/ OnServiceResponse \/ OnAssetResponse
  <2>1. UNCHANGED calls
    BY <1>2
    DEF OnOpen, OnServerInfo, OnServiceResponse, OnAssetResponse, Handles,
        count
  <2>2. CASE UNCHANGED <<serviceCbs, assetCbs, fetched, promises>>
    BY <2>1, <2>2, SameCounts
  <2>3. CASE ~UNCHANGED <<serviceCbs, assetCbs, fetched, promises>>
    <3>1. PICK S : promises' = Settle(S)
      BY <1>2, <2>3
      DEF OnOpen, OnServerInfo, OnServiceResponse, OnAssetResponse, conn,
          reqState, ResetSessionState
    <3>2. serviceCbs' \cup assetCbs' \cup {fetched'}
            \subseteq serviceCbs \cup assetCbs \cup {fetched, 0}
      BY <1>2, <2>3
      DEF OnOpen, OnServerInfo, OnServiceResponse, OnAssetResponse, reqState,
          ResetSessionState
    <3> QED
      BY <2>1, <3>1, <3>2, SettleCounts
  <2> QED
    BY <2>2, <2>3
<1>3. CASE OnAdvertiseServices \/ OnAdvertise \/ OnUnadvertise \/ OnMessage
             \/ OnClose
  BY <1>3, SameCounts
  DEF OnAdvertiseServices, OnAdvertise, OnUnadvertise, OnMessage, OnClose,
      Handles, reqState, count
<1>4. CASE (\E topics \in SUBSET Topics : SetSubscriptions(topics))
             \/ (\E pubs \in SUBSET Publishers : SetPublishers(pubs)) \/ Close
  BY <1>4, SameCounts
  DEF SetSubscriptions, SetPublishers, Close, reqState, count
<1>5. CASE ServerStep
  BY <1>5, SameCounts
  DEF ServerStep, Advertise, Unadvertise, SendMessage, ServerActs, reqState
<1>6. CASE Open \/ Accept \/ Drop \/ AttemptTimeout \/ Answers
  BY <1>6, SameCounts
  DEF Open, Accept, Drop, AttemptTimeout, Answers, Answer, reqState, count
<1>7. CASE UNCHANGED vars
  BY <1>7, SameCounts DEF vars, reqState, count
<1> QED
  BY <1>1, <1>2, <1>3, <1>4, <1>5, <1>6, <1>7 DEF Next, HandleEvent, UserStep

LEMMA InitTypes == Init => Flags /\ Maps /\ Pubs /\ Requests
<1> SUFFICES ASSUME Init PROVE Flags /\ Maps /\ Pubs /\ Requests
  OBVIOUS
<1>1. Flags /\ Pubs
  BY DEF Init, Flags, Pubs
<1>2. Maps
  BY DEF Init, Empty, Maps
<1>3. Requests
  <2>1. DOMAIN promises = {}
    BY DEF Init, Empty
  <2>2. \A kind : Promise(kind) = {}
    BY <2>1 DEF Promise
  <2>3. \A kind : Count(kind) = 0
    BY <2>2, FS_EmptySet DEF Count
  <2> QED
    BY <2>1, <2>3, FoxgloveAssumption DEF Init, Requests
<1> QED
  BY <1>1, <1>2, <1>3

(* Every variable keeps its type. *)
THEOREM TypeCorrect == Spec => []TypeOK
<1>1. Init => Flags /\ Maps /\ Pubs /\ Requests
  BY InitTypes
<1>2. IInv /\ (Flags /\ Maps /\ Pubs /\ Requests) /\ [Next]_vars
        => (Flags /\ Maps /\ Pubs /\ Requests)'
  BY FlagsKeep, MapsKeep, PubsKeep, RequestsKeep
<1> QED
  BY <1>1, <1>2, Inductive, TypesFollow, PTL DEF Spec

-----------------------------------------------------------------------------
(* When player and server agree: the events that the player has not handled *)
(* make up the difference.                                                  *)

(* The events s tell that c is (un)advertised; do so after the n-th. *)
Said(s, op, c) == \E n \in DOMAIN s : s[n].op = op /\ c \in s[n].channels
SaidAfter(s, n, op, c) ==
  \E m \in DOMAIN s : m > n /\ s[m].op = op /\ c \in s[m].channels

(* The last that s tells of a channel is true. *)
NewsRight(s, adv) ==
  \A n \in DOMAIN s :
    /\ s[n].op = "advertise" =>
         \A c \in s[n].channels \ adv : SaidAfter(s, n, "unadvertise", c)
    /\ s[n].op = "unadvertise" =>
         \A c \in s[n].channels \cap adv : SaidAfter(s, n, "advertise", c)

Alone(c) == \A d \in Channels \ Unsupported : TopicOf[d] = TopicOf[c] => d = c

(* What s does not tell is known. *)
KnownRight(s, adv, known) ==
  /\ \A c \in known \ adv : Said(s, "unadvertise", c)
  /\ \A c \in adv \ (Unsupported \cup known) :
       Alone(c) => Said(s, "advertise", c)

Phases ==
  /\ closed => socket = "none"
  /\ greeted => closed \/ opened
  /\ socket = "connecting" => inbox = <<>> /\ ~opened
  /\ ~closed => \A n \in DOMAIN inbox :
                  inbox[n].op = "open" => n = 1 /\ ~opened

Known == IF opened THEN channelsById ELSE {}

Announced ==
  socket = "open" =>
    NewsRight(inbox, advertised) /\ KnownRight(inbox, advertised, Known)

SubsKnown ==
  /\ byId = [i \in DOMAIN byId |-> byId[i]]
  /\ socket # "open" => DOMAIN subs = {}
  /\ \A i \in DOMAIN subs :
       /\ i < nextSub
       /\ \/ i \in DOMAIN byId /\ byId[i] = subs[i]
          \/ opened /\ i < firstSub
  /\ opened => firstSub <= nextSub /\ \A i \in DOMAIN byId : firstSub <= i
  /\ opened /\ socket = "open" =>
       \A i \in DOMAIN byId \ DOMAIN subs : Said(inbox, "unadvertise", byId[i])

Expected(m) ==
  /\ m.sub < nextSub
  /\ m.sub \in DOMAIN byId => byId[m.sub] = m.channel
  /\ m.sub \in DOMAIN byId \/ m.sub \in canceled \/ m.again
       \/ (opened /\ m.sub < firstSub)

MessagesKnown ==
  /\ ~astray
  /\ \A n \in DOMAIN inbox : inbox[n].op = "message" =>
       /\ Expected(inbox[n])
       /\ ~inbox[n].again =>
            \A k \in DOMAIN inbox :
              k < n /\ inbox[k].op = "unadvertise" =>
                inbox[n].channel \notin inbox[k].channels

PubsKnown == opened /\ socket = "open" => publications \subseteq serverPubs

AgreeInv ==
  Maps /\ Phases /\ Announced /\ SubsKnown /\ MessagesKnown /\ PubsKnown

LEMMA AgreeFollows == IInv /\ AgreeInv => ServerAgrees
<1> SUFFICES ASSUME IInv, AgreeInv, Quiet
             PROVE  /\ Restrict(subs, DOMAIN subs \ 0..(firstSub - 1)) = byId
                    /\ channelsById \subseteq advertised
                    /\ \A c \in advertised \ Unsupported :
                         \/ c \in channelsById
                         \/ \E d \in Channels \ (Unsupported \cup {c}) :
                              TopicOf[d] = TopicOf[c]
                    /\ publications \subseteq serverPubs
  BY DEF AgreeInv, MessagesKnown, ServerAgrees
<1>1. /\ socket = "open" /\ opened /\ DOMAIN inbox = {}
      /\ Known = channelsById
  BY DEF Quiet, AgreeInv, Phases, Known
<1>2. \A op, c : ~Said(inbox, op, c)
  BY <1>1 DEF Said
<1>3. /\ channelsById \subseteq advertised
      /\ \A c \in advertised \ Unsupported : c \notin channelsById => ~Alone(c)
  BY <1>1, <1>2 DEF AgreeInv, Announced, KnownRight
<1>4. \A c \in Channels : ~Alone(c) =>
        \E d \in Channels \ (Unsupported \cup {c}) : TopicOf[d] = TopicOf[c]
  BY DEF Alone
<1>5. Restrict(subs, DOMAIN subs \ 0..(firstSub - 1)) = byId
  <2> DEFINE heard == DOMAIN subs \ 0..(firstSub - 1)
  <2>1. /\ DOMAIN byId \subseteq DOMAIN subs
        /\ \A i \in DOMAIN subs :
             \/ i \in DOMAIN byId /\ byId[i] = subs[i]
             \/ i < firstSub
        /\ \A i \in DOMAIN byId : firstSub <= i
    BY <1>1, <1>2 DEF AgreeInv, SubsKnown
  <2>2. \A i \in DOMAIN subs : i \in Nat
    BY DEF IInv, Sorts
  <2>3. firstSub \in Int
    BY DEF AgreeInv, Maps
  <2>4. heard = DOMAIN byId
    BY <2>1, <2>2, <2>3
  <2>5. \A i \in DOMAIN byId : byId[i] = subs[i]
    BY <2>1, <2>2, <2>3
  <2>6. Restrict(subs, heard) = [i \in DOMAIN byId |-> byId[i]]
    BY <2>4, <2>5 DEF Restrict
  <2> QED
    BY <2>6 DEF AgreeInv, SubsKnown
<1> QED
  BY <1>1, <1>3, <1>4, <1>5 DEF AgreeInv, PubsKnown, IInv, Sorts

(* The events that are left when the first is handled. *)
LEMMA SaidTail ==
  ASSUME NEW s \in Seq(AnyEvent), s # <<>>
  PROVE  /\ \A op, c : Said(s, op, c) =>
              \/ Said(Tail(s), op, c)
              \/ Head(s).op = op /\ c \in Head(s).channels
         /\ \A op, c : SaidAfter(s, 1, op, c) => Said(Tail(s), op, c)
         /\ \A n \in DOMAIN Tail(s) : \A op, c :
              SaidAfter(s, n + 1, op, c) => SaidAfter(Tail(s), n, op, c)
<1> DEFINE t == Tail(s)
<1>1. /\ \A m \in DOMAIN s : m \in Nat /\ (m = 1 \/ m > 1)
      /\ \A m \in DOMAIN s : m > 1 => m - 1 \in DOMAIN t /\ t[m - 1] = s[m]
      /\ DOMAIN t \subseteq Nat
      /\ Head(s) = s[1]
  OBVIOUS
<1> HIDE DEF t
<1>2. ASSUME NEW op, NEW c, Said(s, op, c)
      PROVE  Said(t, op, c) \/ (Head(s).op = op /\ c \in Head(s).channels)
  BY <1>1, <1>2 DEF Said
<1>3. ASSUME NEW op, NEW c, SaidAfter(s, 1, op, c) PROVE Said(t, op, c)
  BY <1>1, <1>3 DEF Said, SaidAfter
<1>4. ASSUME NEW n \in DOMAIN t, NEW op, NEW c, SaidAfter(s, n + 1, op, c)
      PROVE  SaidAfter(t, n, op, c)
  <2>1. PICK m \in DOMAIN s : m > n + 1 /\ s[m].op = op /\ c \in s[m].channels
    BY <1>4 DEF SaidAfter
  <2>2. m - 1 \in DOMAIN t /\ t[m - 1] = s[m] /\ m - 1 > n
    BY <1>1, <2>1
  <2> QED
    BY <2>1, <2>2 DEF SaidAfter
<1> QED
  BY <1>2, <1>3, <1>4 DEF t

(* Another event is told. *)
LEMMA SaidAppend ==
  ASSUME NEW s \in Seq(AnyEvent), NEW e \in AnyEvent
  PROVE  LET t == Append(s, e) IN
         /\ \A op, c : Said(s, op, c) => Said(t, op, c)
         /\ \A op : \A c \in e.channels : e.op = op => Said(t, op, c)
         /\ \A n \in DOMAIN s : \A op, c :
              /\ SaidAfter(s, n, op, c) => SaidAfter(t, n, op, c)
              /\ e.op = op /\ c \in e.channels => SaidAfter(t, n, op, c)
         /\ \A n \in DOMAIN t :
              \/ n \in DOMAIN s /\ t[n] = s[n]
              \/ /\ n \notin DOMAIN s /\ t[n] = e
                 /\ \A m \in DOMAIN s : m < n /\ n # 1
<1> DEFINE t == Append(s, e)
<1>1. /\ DOMAIN s \subseteq DOMAIN t /\ \A n \in DOMAIN s : t[n] = s[n]
      /\ Len(s) + 1 \in DOMAIN t /\ t[Len(s) + 1] = e
      /\ \A n \in DOMAIN s : n \in Nat /\ n < Len(s) + 1 /\ Len(s) + 1 # 1
      /\ \A n \in DOMAIN t : n \in DOMAIN s \/ n = Len(s) + 1
      /\ Len(s) \in Nat
  OBVIOUS
<1> HIDE DEF t
<1>2. \A op, c : Said(s, op, c) => Said(t, op, c)
  BY <1>1 DEF Said
<1>3. \A op : \A c \in e.channels : e.op = op => Said(t, op, c)
  BY <1>1 DEF Said
<1>4. \A n \in DOMAIN s : \A op, c :
        /\ SaidAfter(s, n, op, c) => SaidAfter(t, n, op, c)
        /\ e.op = op /\ c \in e.channels => SaidAfter(t, n, op, c)
  BY <1>1 DEF SaidAfter
<1>5. \A n \in DOMAIN t :
        \/ n \in DOMAIN s /\ t[n] = s[n]
        \/ /\ n \notin DOMAIN s /\ t[n] = e
           /\ \A m \in DOMAIN s : m < n /\ n # 1
  BY <1>1
<1> QED
  BY <1>2, <1>3, <1>4, <1>5 DEF t

(* What the events tell of channels stays true when a step tells, or hears, *)
(* nothing of channels.                                                     *)
LEMMA NewsTail ==
  ASSUME NEW s \in Seq(AnyEvent), s # <<>>, NEW adv, NewsRight(s, adv)
  PROVE  /\ NewsRight(Tail(s), adv)
         /\ Head(s).op = "advertise" =>
              \A c \in Head(s).channels \ adv : Said(Tail(s), "unadvertise", c)
         /\ Head(s).op = "unadvertise" =>
              \A c \in Head(s).channels \cap adv : Said(Tail(s), "advertise", c)
<1> DEFINE t == Tail(s)
<1>1. /\ 1 \in DOMAIN s /\ Head(s) = s[1]
      /\ \A n \in DOMAIN t : n \in Nat /\ n + 1 \in DOMAIN s /\ t[n] = s[n + 1]
  BY TailFacts
<1>2. /\ \A op, c : SaidAfter(s, 1, op, c) => Said(t, op, c)
      /\ \A n \in DOMAIN t : \A op, c :
           SaidAfter(s, n + 1, op, c) => SaidAfter(t, n, op, c)
  BY SaidTail
<1> HIDE DEF t
<1>3. NewsRight(t, adv)
  BY <1>1, <1>2 DEF NewsRight
<1>4. /\ Head(s).op = "advertise" =>
           \A c \in Head(s).channels \ adv : Said(t, "unadvertise", c)
      /\ Head(s).op = "unadvertise" =>
           \A c \in Head(s).channels \cap adv : Said(t, "advertise", c)
  BY <1>1, <1>2 DEF NewsRight
<1> QED
  BY <1>3, <1>4 DEF t

About(e) == e.op \in {"advertise", "unadvertise"}

LEMMA NewsAppend ==
  ASSUME NEW s \in Seq(AnyEvent), NEW e \in AnyEvent, NEW t, t = Append(s, e),
         NEW adv, NewsRight(s, adv), ~About(e)
  PROVE  NewsRight(t, adv)
<1>1. /\ \A op, c : Said(s, op, c) => Said(t, op, c)
      /\ \A op : \A c \in e.channels : e.op = op => Said(t, op, c)
      /\ \A n \in DOMAIN s : \A op, c :
           /\ SaidAfter(s, n, op, c) => SaidAfter(t, n, op, c)
           /\ e.op = op /\ c \in e.channels => SaidAfter(t, n, op, c)
      /\ \A n \in DOMAIN t :
           \/ n \in DOMAIN s /\ t[n] = s[n]
           \/ /\ n \notin DOMAIN s /\ t[n] = e
              /\ \A m \in DOMAIN s : m < n /\ n # 1
  BY SaidAppend
<1>2. ASSUME NEW n \in DOMAIN t, About(t[n])
      PROVE  n \in DOMAIN s /\ t[n] = s[n]
  BY <1>1, <1>2
<1>3. ASSUME NEW n \in DOMAIN t
      PROVE  /\ t[n].op = "advertise" =>
                  \A c \in t[n].channels \ adv :
                    SaidAfter(t, n, "unadvertise", c)
             /\ t[n].op = "unadvertise" =>
                  \A c \in t[n].channels \cap adv :
                    SaidAfter(t, n, "advertise", c)
  <2>1. CASE About(t[n])
    <3>1. n \in DOMAIN s /\ t[n] = s[n]
      BY <1>2, <2>1
    <3>2. \A op, c : SaidAfter(s, n, op, c) => SaidAfter(t, n, op, c)
      BY <1>1, <3>1
    <3> QED
      BY <3>1, <3>2 DEF NewsRight
  <2>2. CASE ~About(t[n])
    BY <2>2 DEF About
  <2> QED
    BY <2>1, <2>2
<1> QED
  BY <1>3 DEF NewsRight

(* How the inbox may change without a word on channels. *)
Neutral ==
  \/ inbox' = inbox
  \/ inbox # <<>> /\ ~About(Head(inbox)) /\ inbox' = Tail(inbox)
  \/ \E e \in AnyEvent : ~About(e) /\ inbox' = Append(inbox, e)

LEMMA NeutralNews ==
  ASSUME inbox \in Seq(AnyEvent), Neutral
  PROVE  /\ \A op \in {"advertise", "unadvertise"} : \A c :
              Said(inbox, op, c) => Said(inbox', op, c)
         /\ \A adv : NewsRight(inbox, adv) => NewsRight(inbox', adv)
<1>1. CASE inbox' = inbox
  BY <1>1
<1>2. CASE inbox # <<>> /\ ~About(Head(inbox)) /\ inbox' = Tail(inbox)
  <2>1. \A adv : NewsRight(inbox, adv) => NewsRight(Tail(inbox), adv)
    BY <1>2, NewsTail
  <2>2. \A op, c : Said(inbox, op, c) =>
           \/ Said(Tail(inbox), op, c)
           \/ Head(inbox).op = op /\ c \in Head(inbox).channels
    BY <1>2, SaidTail
  <2> QED
    BY <1>2, <2>1, <2>2 DEF About
<1>3. ASSUME NEW e \in AnyEvent, ~About(e), inbox' = Append(inbox, e)
      PROVE  /\ \A op, c : Said(inbox, op, c) => Said(inbox', op, c)
             /\ \A adv : NewsRight(inbox, adv) => NewsRight(inbox', adv)
  <2>1. \A op, c : Said(inbox, op, c) => Said(inbox', op, c)
    BY <1>3, SaidAppend
  <2>2. \A adv : NewsRight(inbox, adv) => NewsRight(inbox', adv)
    BY <1>3, NewsAppend
  <2> QED
    BY <2>1, <2>2
<1> QED
  BY <1>1, <1>2, <1>3 DEF Neutral

(* The messages on their way stay expected. *)
StillExpected ==
  \A n \in DOMAIN inbox : inbox[n].op = "message" =>
    \A m : m = inbox[n] => Expected(m)'

LEMMA MessagesSame ==
  ASSUME MessagesKnown, StillExpected, UNCHANGED <<inbox, astray>>
  PROVE  MessagesKnown'
  BY DEF MessagesKnown, StillExpected, Expected

LEMMA MessagesTail ==
  ASSUME inbox \in Seq(AnyEvent), inbox # <<>>, inbox' = Tail(inbox),
         MessagesKnown, StillExpected, ~astray'
  PROVE  MessagesKnown'
<1>1. \A n \in DOMAIN inbox' :
        n \in Nat /\ n + 1 \in DOMAIN inbox /\ inbox'[n] = inbox[n + 1]
  BY TailFacts
<1>2. ASSUME NEW n \in DOMAIN inbox', inbox'[n].op = "message"
      PROVE  /\ Expected(inbox[n])'
             /\ ~inbox'[n].again =>
                  \A k \in DOMAIN inbox' :
                    k < n /\ inbox'[k].op = "unadvertise" =>
                      inbox'[n].channel \notin inbox'[k].channels
  <2>1. PICK m : m = inbox[n + 1]
    OBVIOUS
  <2>2. Expected(m)' /\ m = inbox'[n]
    BY <1>1, <1>2, <2>1 DEF StillExpected
  <2>3. /\ inbox'[n].sub < nextSub'
        /\ inbox'[n].sub \in DOMAIN byId' =>
             byId'[inbox'[n].sub] = inbox'[n].channel
        /\ inbox'[n].sub \in DOMAIN byId' \/ inbox'[n].sub \in canceled'
             \/ inbox'[n].again \/ (opened' /\ inbox'[n].sub < firstSub')
    BY <2>2 DEF Expected
  <2>4. ~inbox'[n].again =>
          \A k \in DOMAIN inbox' :
            k < n /\ inbox'[k].op = "unadvertise" =>
              inbox'[n].channel \notin inbox'[k].channels
    BY <1>1, <1>2 DEF MessagesKnown
  <2> QED
    BY <2>3, <2>4 DEF Expected
<1> QED
  BY <1>2 DEF MessagesKnown

LEMMA MessagesAppend ==
  ASSUME inbox \in Seq(AnyEvent), NEW e \in AnyEvent,
         inbox' = Append(inbox, e), e.op # "message",
         MessagesKnown, StillExpected, UNCHANGED astray
  PROVE  MessagesKnown'
<1>1. \A n \in DOMAIN inbox' :
        \/ n \in DOMAIN inbox /\ inbox'[n] = inbox[n]
        \/ /\ n \notin DOMAIN inbox /\ inbox'[n] = e
           /\ \A m \in DOMAIN inbox : m < n /\ n # 1
  BY SaidAppend
<1> QED
  BY <1>1 DEF MessagesKnown, StillExpected, Expected

(* What the server tells. *)
LEMMA ServerTells ==
  ASSUME IInv, ServerStep
  PROVE  /\ socket = "open"
         /\ UNCHANGED <<closed, socket, greeted, opened>>
         /\ \E e \in AnyEvent : e.op # "open" /\ inbox' = Append(inbox, e)
<1>1. socket = "open" /\ UNCHANGED <<closed, socket, greeted, opened>>
  BY DEF ServerStep, Advertise, Unadvertise, SendMessage, ServerActs, conn
<1>2. ASSUME NEW c \in Channels, Advertise(c) \/ Unadvertise(c)
      PROVE  \E e \in AnyEvent : e.op # "open" /\ inbox' = Append(inbox, e)
  <2>1. PICK op \in {"advertise", "unadvertise"} :
          inbox' = Append(inbox, ChannelsEvent(op, {c}))
    BY <1>2 DEF Advertise, Unadvertise, Tell
  <2>2. ChannelsEvent(op, {c}) \in AnyEvent
    BY DEF ChannelsEvent, AnyEvent
  <2>3. ChannelsEvent(op, {c}).op # "open"
    BY DEF ChannelsEvent
  <2> QED
    BY <2>1, <2>2, <2>3
<1>3. ASSUME NEW i \in DOMAIN subs, SendMessage(i)
      PROVE  \E e \in AnyEvent : e.op # "open" /\ inbox' = Append(inbox, e)
  <2> DEFINE again == \E n \in DOMAIN inbox :
                        /\ inbox[n].op = "unadvertise"
                        /\ subs[i] \in inbox[n].channels
             e == [op |-> "message", sub |-> i, channel |-> subs[i],
                   again |-> again]
  <2>1. e \in AnyEvent /\ e.op # "open"
    BY DEF IInv, Sorts, AnyEvent
  <2>2. inbox' = Append(inbox, e)
    BY <1>3 DEF SendMessage, Tell
  <2> HIDE DEF e
  <2> QED
    BY <2>1, <2>2
<1> QED
  BY <1>1, <1>2, <1>3 DEF ServerStep

LEMMA AnswerTells ==
  ASSUME IInv, Answers
  PROVE  /\ socket = "open"
         /\ UNCHANGED <<closed, socket, greeted, opened>>
         /\ \E e \in AnyEvent :
              e.op \in {"service", "asset"} /\ inbox' = Append(inbox, e)
<1>1. PICK request \in asked : Answer(request)
  BY DEF Answers
<1> DEFINE e == [op |-> request[1], id |-> request[2]]
<1>2. e \in AnyEvent /\ e.op \in {"service", "asset"}
  BY DEF IInv, Sorts, AnyEvent
<1>3. /\ inbox' = Append(inbox, e)
      /\ UNCHANGED <<closed, socket, greeted, opened>>
  BY <1>1 DEF Answer, conn
<1>4. socket = "open"
  BY DEF IInv, Connected
<1> HIDE DEF e
<1> QED
  BY <1>2, <1>3, <1>4

-----------------------------------------------------------------------------
(* The phases of a connection. *)

OpenFirst(s, known) ==
  \A n \in DOMAIN s : s[n].op = "open" => n = 1 /\ ~known

LEMMA OpenFirstTail ==
  ASSUME NEW s \in Seq(AnyEvent), s # <<>>, NEW known, OpenFirst(s, known)
  PROVE  \A n \in DOMAIN Tail(s) : Tail(s)[n].op # "open"
<1>1. \A n \in DOMAIN Tail(s) :
        n \in Nat /\ n >= 1 /\ n + 1 \in DOMAIN s /\ Tail(s)[n] = s[n + 1]
  OBVIOUS
<1> QED
  BY <1>1 DEF OpenFirst

LEMMA OpenFirstAppend ==
  ASSUME NEW s \in Seq(AnyEvent), NEW e \in AnyEvent, NEW known,
         OpenFirst(s, known), e.op # "open"
  PROVE  OpenFirst(Append(s, e), known)
<1> DEFINE t == Append(s, e)
<1>1. \A n \in DOMAIN t :
        \/ n \in DOMAIN s /\ t[n] = s[n]
        \/ /\ n \notin DOMAIN s /\ t[n] = e
           /\ \A m \in DOMAIN s : m < n /\ n # 1
  BY SaidAppend
<1> HIDE DEF t
<1>2. OpenFirst(t, known)
  BY <1>1 DEF OpenFirst
<1> QED
  BY <1>2 DEF t

(* What a step appends to the inbox is never the first event, "open". *)
LEMMA ToldPhases ==
  ASSUME IInv, Phases, NEW e \in AnyEvent, inbox' = Append(inbox, e),
         e.op # "open", socket' \in {"none", "open"}, closed => closed',
         closed' => socket' = "none",
         UNCHANGED <<greeted, opened>>
  PROVE  Phases'
<1>1. ~closed' => OpenFirst(inbox', opened')
  BY OpenFirstAppend DEF Phases, OpenFirst, IInv, Sorts
<1> QED
  BY <1>1 DEF Phases, OpenFirst

LEMMA EndPhases ==
  ASSUME IInv, Phases, EndSocket, closed => closed',
         UNCHANGED <<greeted, opened>>
  PROVE  Phases'
  BY ToldPhases DEF EndSocket, Event, AnyEvent

LEMMA SamePhases ==
  ASSUME Phases, closed => closed', closed' => socket' = "none",
         UNCHANGED <<greeted, opened, inbox, socket>>
  PROVE  Phases'
  BY DEF Phases

LEMMA ClosePhases ==
  ASSUME IInv, Phases, CloseClient, closed => closed',
         UNCHANGED <<greeted, opened>>
  PROVE  Phases'
<1>1. CASE client /\ socket # "none"
  BY <1>1, EndPhases DEF CloseClient
<1>2. CASE ~(client /\ socket # "none")
  <2>1. UNCHANGED <<socket, inbox>>
    BY <1>2 DEF CloseClient, wire
  <2>2. socket = "none"
    BY <1>2 DEF IInv, Connected
  <2> QED
    BY <2>1, <2>2, SamePhases
<1> QED
  BY <1>1, <1>2

LEMMA HandlePhases == IInv /\ Phases /\ HandleEvent => Phases'
<1> SUFFICES ASSUME IInv, Phases, HandleEvent PROVE Phases'
  OBVIOUS
<1>1. /\ inbox # <<>> /\ inbox' = Tail(inbox)
      /\ UNCHANGED <<closed, socket>>
  BY DEF HandleEvent, OnOpen, OnServerInfo, OnAdvertiseServices, OnAdvertise,
         OnUnadvertise, OnMessage, OnServiceResponse, OnAssetResponse, OnClose,
         Handles, conn, wire
<1>2. ~closed => \A n \in DOMAIN inbox' : inbox'[n].op # "open"
  BY <1>1, OpenFirstTail DEF Phases, OpenFirst, IInv, Sorts
<1>3. greeted' => closed' \/ opened'
  <2>1. CASE OnServerInfo
    <3>1. Handles("serverInfo") /\ UNCHANGED opened
      BY <2>1 DEF OnServerInfo
    <3>2. closed \/ opened
      BY <3>1 DEF Handles, IInv, Connected
    <3> QED
      BY <1>1, <3>1, <3>2
  <2>2. CASE OnOpen
    <3>1. UNCHANGED greeted /\ (opened' \/ opened' = opened)
      BY <2>2 DEF OnOpen, conn
    <3> QED
      BY <1>1, <3>1 DEF Phases
  <2>3. CASE OnClose
    BY <2>3 DEF OnClose
  <2>4. CASE OnAdvertiseServices \/ OnAdvertise \/ OnUnadvertise \/ OnMessage
               \/ OnServiceResponse \/ OnAssetResponse
    <3>1. UNCHANGED <<greeted, opened>>
      BY <2>4
      DEF OnAdvertiseServices, OnAdvertise, OnUnadvertise, OnMessage,
          OnServiceResponse, OnAssetResponse, conn
    <3> QED
      BY <1>1, <3>1 DEF Phases
  <2> QED
    BY <2>1, <2>2, <2>3, <2>4 DEF HandleEvent
<1> QED
  BY <1>1, <1>2, <1>3 DEF Phases

LEMMA PhasesKeep == IInv /\ Phases /\ [Next]_vars => Phases'
<1> SUFFICES ASSUME IInv, Phases, [Next]_vars PROVE Phases'
  OBVIOUS
<1>1. CASE Accept
  <2>1. /\ socket = "connecting" /\ socket' = "open" /\ inbox' = Greeting
        /\ UNCHANGED <<closed, greeted, opened>>
    BY <1>1 DEF Accept, conn
  <2>2. \A n \in DOMAIN Greeting : Greeting[n].op = "open" => n = 1
    BY DEF Greeting, Event, ChannelsEvent
  <2> QED
    BY <2>1, <2>2 DEF Phases
<1>2. CASE Open
  <2>1. /\ openTimer /\ UNCHANGED <<closed, greeted, opened, inbox>>
        /\ \/ UNCHANGED socket
           \/ ~closed /\ socket' = "connecting"
    BY <1>2 DEF Open
  <2>2. inbox = <<>> /\ ~opened
    BY <2>1 DEF IInv, Connected
  <2> QED
    BY <2>1, <2>2 DEF Phases
<1>3. CASE ServerStep \/ Answers
  <2>1. /\ socket = "open" /\ UNCHANGED <<closed, socket, greeted, opened>>
        /\ \E e \in AnyEvent : e.op # "open" /\ inbox' = Append(inbox, e)
    BY <1>3, ServerTells, AnswerTells
  <2> QED
    BY <2>1, ToldPhases DEF Phases
<1>4. CASE Drop
  BY <1>4, EndPhases DEF Drop, conn
<1>5. CASE AttemptTimeout \/ Close
  BY <1>5, ClosePhases DEF AttemptTimeout, Close
<1>6. CASE UserStep
  <2>1. ASSUME ~Close
        PROVE  UNCHANGED <<closed, socket, greeted, opened, inbox>>
    BY <1>6, <2>1
    DEF UserStep, SetSubscriptions, SetPublishers, CallService, FetchAsset,
        conn
  <2> QED
    BY <1>5, <2>1, SamePhases DEF Phases
<1>7. CASE UNCHANGED vars
  BY <1>7, SamePhases DEF vars, conn, wire, Phases
<1> QED
  BY <1>1, <1>2, <1>3, <1>4, <1>5, <1>6, <1>7, HandlePhases DEF Next

-----------------------------------------------------------------------------
(* The server knows what is published. *)

LEMMA PublishedKeep == IInv /\ Phases /\ PubsKnown /\ [Next]_vars => PubsKnown'
<1> SUFFICES ASSUME IInv, Phases, PubsKnown, [Next]_vars,
                    opened', socket' = "open"
             PROVE  publications' \subseteq serverPubs'
  BY DEF PubsKnown
<1>1. CASE OnOpen
  <2>1. CASE closed
    BY <1>1, <2>1 DEF OnOpen, conn, wire, pubState, PubsKnown
  <2>2. CASE ~closed
    BY <1>1, <2>2 DEF OnOpen
  <2> QED
    BY <2>1, <2>2
<1>2. CASE OnServerInfo
  <2>1. UNCHANGED <<opened, socket>> /\ SetupPublishers
    BY <1>2 DEF OnServerInfo
  <2> QED
    BY <2>1 DEF SetupPublishers, AdvertiseClient, PubsKnown
<1>3. ASSUME NEW pubs \in SUBSET Publishers, SetPublishers(pubs)
      PROVE  publications' \subseteq serverPubs'
  <2>1. UNCHANGED <<opened, socket>>
    BY <1>3 DEF SetPublishers, conn
  <2>2. client
    BY <2>1 DEF IInv, Connected
  <2> QED
    BY <1>3, <2>1, <2>2 DEF SetPublishers, AdvertiseClient, PubsKnown
<1>4. CASE OnAdvertiseServices \/ OnAdvertise \/ OnUnadvertise \/ OnMessage
             \/ OnServiceResponse \/ OnAssetResponse \/ OnClose
  BY <1>4
  DEF OnAdvertiseServices, OnAdvertise, OnUnadvertise, OnMessage,
      OnServiceResponse, OnAssetResponse, OnClose, conn, wire, pubState,
      PubsKnown
<1>5. CASE (\E topics \in SUBSET Topics : SetSubscriptions(topics))
             \/ CallService \/ FetchAsset
  BY <1>5
  DEF SetSubscriptions, CallService, FetchAsset, conn, pubState, PubsKnown
<1>6. CASE Close \/ Drop \/ AttemptTimeout
  BY <1>6
  DEF Close, Drop, AttemptTimeout, CloseClient, EndSocket, conn, wire,
      pubState, PubsKnown
<1>7. CASE Open \/ Accept
  BY <1>7 DEF Open, Accept, Phases, conn, pubState, PubsKnown
<1>8. CASE ServerStep
  BY <1>8
  DEF ServerStep, Advertise, Unadvertise, SendMessage, ServerActs, conn,
      pubState, PubsKnown
<1>9. CASE Answers
  BY <1>9 DEF Answers, Answer, conn, pubState, PubsKnown
<1>10. CASE UNCHANGED vars
  BY <1>10 DEF vars, conn, wire, pubState, PubsKnown
<1> QED
  BY <1>1, <1>2, <1>3, <1>4, <1>5, <1>6, <1>7, <1>8, <1>9, <1>10
  DEF Next, HandleEvent, UserStep

-----------------------------------------------------------------------------
(* Channels, subscriptions and messages. *)

Links == Announced /\ SubsKnown /\ MessagesKnown

linkVars == <<opened, socket, advertised, subs, byId, channelsById, nextSub,
              firstSub, canceled>>

(* A step that says nothing of channels, subscriptions and messages.        *)
LEMMA QuietKeeps ==
  ASSUME IInv, Links, UNCHANGED linkVars, Neutral, MessagesKnown'
  PROVE  Links'
<1>1. /\ \A op \in {"advertise", "unadvertise"} : \A c :
           Said(inbox, op, c) => Said(inbox', op, c)
      /\ \A adv : NewsRight(inbox, adv) => NewsRight(inbox', adv)
  BY NeutralNews DEF IInv, Sorts
<1>2. Announced'
  BY <1>1 DEF Links, Announced, KnownRight, Known, linkVars
<1>3. SubsKnown'
  BY <1>1 DEF Links, SubsKnown, linkVars
<1> QED
  BY <1>2, <1>3 DEF Links

LEMMA LinksExpected ==
  ASSUME MessagesKnown, UNCHANGED linkVars
  PROVE  StillExpected
  BY DEF MessagesKnown, StillExpected, Expected, linkVars

LEMMA IdleKeeps ==
  ASSUME IInv, Links, UNCHANGED linkVars, UNCHANGED <<inbox, astray>>
  PROVE  Links'
<1>1. MessagesKnown'
  BY LinksExpected, MessagesSame DEF Links
<1> QED
  BY <1>1, QuietKeeps DEF Neutral

LEMMA HeardKeeps ==
  ASSUME IInv, Links, UNCHANGED linkVars, inbox # <<>>, inbox' = Tail(inbox),
         ~About(Head(inbox)), ~astray'
  PROVE  Links'
<1>1. MessagesKnown'
  BY LinksExpected, MessagesTail DEF Links, IInv, Sorts
<1> QED
  BY <1>1, QuietKeeps DEF Neutral

LEMMA ToldLinks ==
  ASSUME IInv, Links, UNCHANGED linkVars, UNCHANGED astray,
         NEW e \in AnyEvent, inbox' = Append(inbox, e),
         ~About(e), e.op # "message"
  PROVE  Links'
<1>1. MessagesKnown'
  BY LinksExpected, MessagesAppend DEF Links, IInv, Sorts
<1> QED
  BY <1>1, QuietKeeps DEF Neutral

(* The socket ends; what it knew is forgotten. *)
LEMMA EndLinks ==
  ASSUME IInv, Links, EndSocket,
         UNCHANGED <<opened, byId, firstSub, canceled, astray>>
  PROVE  Links'
<1>1. /\ socket' = "none" /\ DOMAIN subs' = {} /\ UNCHANGED nextSub
      /\ inbox' = Append(inbox, Event("close"))
  BY DEF EndSocket, Empty
<1>2. StillExpected
  BY <1>1 DEF Links, MessagesKnown, StillExpected, Expected
<1>3. Event("close") \in AnyEvent /\ Event("close").op # "message"
  BY DEF Event, AnyEvent
<1>4. MessagesKnown'
  BY <1>1, <1>2, <1>3, MessagesAppend DEF Links, IInv, Sorts
<1>5. Announced'
  BY <1>1 DEF Announced
<1>6. SubsKnown'
  BY <1>1 DEF Links, SubsKnown
<1> QED
  BY <1>4, <1>5, <1>6 DEF Links

LEMMA CloseLinks ==
  ASSUME IInv, Links, CloseClient,
         UNCHANGED <<opened, byId, channelsById, firstSub, canceled, astray,
                     advertised>>
  PROVE  Links'
<1>1. CASE client /\ socket # "none"
  BY <1>1, EndLinks DEF CloseClient
<1>2. CASE ~(client /\ socket # "none")
  BY <1>2, IdleKeeps DEF CloseClient, wire, linkVars
<1> QED
  BY <1>1, <1>2

(* A message that comes is expected. *)
LEMMA OnMessageLinks == IInv /\ Maps /\ Links /\ OnMessage => Links'
<1> SUFFICES ASSUME IInv, Maps, Links, OnMessage PROVE Links'
  OBVIOUS
<1>1. /\ inbox # <<>> /\ inbox' = Tail(inbox) /\ Head(inbox).op = "message"
      /\ UNCHANGED linkVars
  BY DEF OnMessage, Handles, conn, wire, server, linkVars
<1>2. ~astray'
  <2>1. 1 \in DOMAIN inbox /\ Head(inbox) = inbox[1]
        /\ Head(inbox) \in AnyEvent
    BY <1>1, TailFacts DEF IInv, Sorts
  <2>2. Expected(Head(inbox)) /\ ~astray
    BY <1>1, <2>1 DEF Links, MessagesKnown
  <2>3. PICK m \in AnyEvent : m = Head(inbox)
    BY <2>1
  <2>4. m.sub \in Nat
    BY <1>1, <2>3 DEF AnyEvent
  <2>5. firstSub \in Nat
    BY DEF Maps
  <2> QED
    BY <2>2, <2>3, <2>4, <2>5 DEF OnMessage, Expected
<1>3. ~About(Head(inbox))
  BY <1>1 DEF About
<1> QED
  BY <1>1, <1>2, <1>3, HeardKeeps

LEMMA OnOpenLinks == IInv /\ Phases /\ Maps /\ Links /\ OnOpen => Links'
<1> SUFFICES ASSUME IInv, Phases, Maps, Links, OnOpen PROVE Links'
  OBVIOUS
<1>1. /\ inbox # <<>> /\ inbox' = Tail(inbox) /\ Head(inbox).op = "open"
      /\ UNCHANGED <<wire, advertised, closed, astray, canceled>>
  BY DEF OnOpen, Handles, conn, server, topicState
<1>2. ~About(Head(inbox)) /\ 1 \in DOMAIN inbox /\ Head(inbox) = inbox[1]
  BY <1>1, TailFacts DEF About, IInv, Sorts
<1>3. CASE closed
  <2>1. UNCHANGED linkVars
    BY <1>1, <1>3 DEF OnOpen, conn, wire, topicState, linkVars
  <2> QED
    BY <1>1, <1>2, <2>1, HeardKeeps DEF Links, MessagesKnown
<1>4. CASE ~closed
  <2>1. /\ ~opened /\ opened' /\ channelsById' = {} /\ byId' = Empty
        /\ firstSub' = nextSub
    BY <1>1, <1>2, <1>4 DEF OnOpen, Phases
  <2>2. UNCHANGED <<socket, nextSub, subs>>
    BY <1>1 DEF wire
  <2>3. DOMAIN byId' = {} /\ byId' = [i \in DOMAIN byId' |-> byId'[i]]
    BY <2>1 DEF Empty
  <2>4. /\ \A op \in {"advertise", "unadvertise"} : \A c :
             Said(inbox, op, c) => Said(inbox', op, c)
        /\ \A adv : NewsRight(inbox, adv) => NewsRight(inbox', adv)
    BY <1>1, <1>2, NeutralNews DEF Neutral, IInv, Sorts
  <2>5. Announced'
    BY <1>1, <2>1, <2>2, <2>4 DEF Links, Announced, KnownRight, Known
  <2>6. SubsKnown'
    <3>1. nextSub \in Nat
      BY DEF IInv, Sorts
    <3> QED
      BY <2>1, <2>2, <2>3, <3>1 DEF Links, SubsKnown
  <2>7. StillExpected
    <3>1. ASSUME NEW n \in DOMAIN inbox, inbox[n].op = "message",
                 NEW m, m = inbox[n]
          PROVE  Expected(m)'
      <4>1. m.sub < nextSub
        BY <3>1 DEF Links, MessagesKnown, Expected
      <4> QED
        BY <2>1, <2>2, <2>3, <4>1 DEF Expected
    <3> QED
      BY <3>1 DEF StillExpected
  <2>8. MessagesKnown'
    BY <1>1, <2>7, MessagesTail DEF Links, MessagesKnown, IInv, Sorts
  <2> QED
    BY <2>5, <2>6, <2>8 DEF Links
<1> QED
  BY <1>3, <1>4

(* Without a connection there is nothing to agree about. *)
LEMMA DownLinks ==
  ASSUME Links, socket' # "open", socket # "open", inbox' = <<>>, ~opened',
         UNCHANGED <<subs, byId, astray>>
  PROVE  Links'
<1>1. DOMAIN inbox' = {} /\ DOMAIN subs' = {}
  BY DEF Links, SubsKnown
<1>2. Announced'
  BY DEF Announced
<1>3. SubsKnown'
  BY <1>1 DEF Links, SubsKnown
<1>4. MessagesKnown'
  BY <1>1 DEF Links, MessagesKnown
<1> QED
  BY <1>2, <1>3, <1>4 DEF Links

LEMMA OnCloseLinks == IInv /\ Links /\ OnClose => Links'
<1> SUFFICES ASSUME IInv, Links, OnClose PROVE Links'
  OBVIOUS
<1>1. /\ inbox # <<>> /\ Head(inbox).op = "close" /\ inbox' = Tail(inbox)
      /\ ~opened' /\ UNCHANGED <<socket, subs, byId, astray>>
  BY DEF OnClose, Handles, wire, topicState
<1>2. Len(inbox) = 1 /\ socket = "none"
  <2>1. 1 \in DOMAIN inbox /\ Head(inbox) = inbox[1]
    BY <1>1, TailFacts DEF IInv, Sorts
  <2> QED
    BY <1>1, <2>1 DEF IInv, Connected
<1>3. inbox' = <<>>
  <2>1. /\ inbox' \in Seq(AnyEvent) /\ Len(inbox') = Len(inbox) - 1
    BY <1>1, TailFacts DEF IInv, Sorts
  <2>2. Len(inbox') = 0
    BY <1>2, <2>1
  <2> QED
    BY <2>1, <2>2
<1> QED
  BY <1>1, <1>2, <1>3, DownLinks

LEMMA OpenLinks == IInv /\ Links /\ Open => Links'
<1> SUFFICES ASSUME IInv, Links, Open PROVE Links'
  OBVIOUS
<1>1. /\ openTimer /\ UNCHANGED <<opened, inbox, subs, byId, astray>>
      /\ UNCHANGED socket \/ socket' = "connecting"
  BY DEF Open
<1>2. inbox = <<>> /\ ~opened /\ socket = "none"
  BY <1>1 DEF IInv, Connected
<1> QED
  BY <1>1, <1>2, DownLinks

LEMMA AcceptLinks == IInv /\ Phases /\ Links /\ Accept => Links'
<1> SUFFICES ASSUME IInv, Phases, Links, Accept PROVE Links'
  OBVIOUS
<1>1. /\ socket = "connecting" /\ socket' = "open" /\ inbox' = Greeting
      /\ UNCHANGED <<opened, advertised, subs, byId, nextSub, astray>>
  BY DEF Accept, conn, server, topicState
<1>2. /\ DOMAIN Greeting = {1, 2, 3, 4}
      /\ Greeting[1].op = "open" /\ Greeting[2].op = "serverInfo"
      /\ Greeting[3].op = "advertiseServices"
      /\ Greeting[4].op = "advertise" /\ Greeting[4].channels = advertised
  BY DEF Greeting, Event, ChannelsEvent
<1>3. ~opened /\ DOMAIN subs = {}
  BY <1>1 DEF Phases, Links, SubsKnown
<1>4. Announced'
  <2>1. NewsRight(Greeting, advertised)
    BY <1>2 DEF NewsRight
  <2>2. \A c \in advertised : Said(Greeting, "advertise", c)
    BY <1>2 DEF Said
  <2> QED
    BY <1>1, <1>3, <2>1, <2>2 DEF Announced, KnownRight, Known
<1>5. SubsKnown'
  BY <1>1, <1>3 DEF Links, SubsKnown
<1>6. MessagesKnown'
  BY <1>1, <1>2 DEF Links, MessagesKnown
<1> QED
  BY <1>4, <1>5, <1>6 DEF Links

-----------------------------------------------------------------------------
(* The server. *)

LEMMA AdvertiseLinks ==
  ASSUME IInv, Links, NEW c \in Channels, Advertise(c)
  PROVE  Links'
<1> DEFINE e == ChannelsEvent("advertise", {c})
<1>1. /\ socket = "open" /\ c \notin advertised
      /\ advertised' = advertised \cup {c} /\ inbox' = Append(inbox, e)
      /\ UNCHANGED <<opened, socket, subs, byId, channelsById, nextSub,
                     firstSub, canceled, astray>>
  BY DEF Advertise, ServerActs, Tell, conn, topicState
<1>2. e \in AnyEvent /\ e.op = "advertise" /\ e.channels = {c}
  BY DEF ChannelsEvent, AnyEvent
<1> HIDE DEF e
<1>3. /\ \A op, d : Said(inbox, op, d) => Said(inbox', op, d)
      /\ Said(inbox', "advertise", c)
      /\ \A n \in DOMAIN inbox : \A op, d :
           SaidAfter(inbox, n, op, d) => SaidAfter(inbox', n, op, d)
      /\ \A n \in DOMAIN inbox : SaidAfter(inbox', n, "advertise", c)
      /\ \A n \in DOMAIN inbox' :
           \/ n \in DOMAIN inbox /\ inbox'[n] = inbox[n]
           \/ n \notin DOMAIN inbox /\ inbox'[n] = e
  <2>1. inbox \in Seq(AnyEvent)
    BY DEF IInv, Sorts
  <2>2. LET t == Append(inbox, e) IN
        /\ \A op, d : Said(inbox, op, d) => Said(t, op, d)
        /\ \A op : \A d \in e.channels : e.op = op => Said(t, op, d)
        /\ \A n \in DOMAIN inbox : \A op, d :
             /\ SaidAfter(inbox, n, op, d) => SaidAfter(t, n, op, d)
             /\ e.op = op /\ d \in e.channels => SaidAfter(t, n, op, d)
        /\ \A n \in DOMAIN t :
             \/ n \in DOMAIN inbox /\ t[n] = inbox[n]
             \/ /\ n \notin DOMAIN inbox /\ t[n] = e
                /\ \A m \in DOMAIN inbox : m < n /\ n # 1
    BY <1>2, <2>1, SaidAppend
  <2> QED
    BY <1>1, <1>2, <2>2
<1>4. NewsRight(inbox', advertised')
  BY <1>1, <1>2, <1>3 DEF Links, Announced, NewsRight
<1>5. KnownRight(inbox', advertised', Known')
  BY <1>1, <1>3 DEF Links, Announced, KnownRight, Known
<1>6. Announced'
  BY <1>4, <1>5 DEF Announced
<1>7. SubsKnown'
  BY <1>1, <1>3 DEF Links, SubsKnown
<1>8. StillExpected
  BY <1>1 DEF Links, MessagesKnown, StillExpected, Expected
<1>9. MessagesKnown'
  BY <1>1, <1>2, <1>8, MessagesAppend DEF Links, IInv, Sorts
<1> QED
  BY <1>6, <1>7, <1>9 DEF Links

LEMMA UnadvertiseLinks ==
  ASSUME IInv, Maps, Links, NEW c \in Channels, Unadvertise(c)
  PROVE  Links'
<1> DEFINE e == ChannelsEvent("unadvertise", {c})
<1>1. /\ socket = "open" /\ c \in advertised
      /\ advertised' = advertised \ {c} /\ inbox' = Append(inbox, e)
      /\ subs' = Without(subs, {i \in DOMAIN subs : subs[i] = c})
      /\ UNCHANGED <<opened, socket, byId, channelsById, nextSub, firstSub,
                     canceled, astray>>
  BY DEF Unadvertise, ServerActs, Tell, conn, topicState
<1>2. e \in AnyEvent /\ e.op = "unadvertise" /\ e.channels = {c}
  BY DEF ChannelsEvent, AnyEvent
<1>3. /\ \A i \in DOMAIN subs' : i \in DOMAIN subs /\ subs'[i] = subs[i]
      /\ \A i \in DOMAIN subs : i \in DOMAIN subs' \/ subs[i] = c
  BY <1>1 DEF Without, Restrict
<1> HIDE DEF e
<1>4. /\ \A op, d : Said(inbox, op, d) => Said(inbox', op, d)
      /\ Said(inbox', "unadvertise", c)
      /\ \A n \in DOMAIN inbox : \A op, d :
           SaidAfter(inbox, n, op, d) => SaidAfter(inbox', n, op, d)
      /\ \A n \in DOMAIN inbox : SaidAfter(inbox', n, "unadvertise", c)
      /\ \A n \in DOMAIN inbox' :
           \/ n \in DOMAIN inbox /\ inbox'[n] = inbox[n]
           \/ n \notin DOMAIN inbox /\ inbox'[n] = e
  <2>1. inbox \in Seq(AnyEvent)
    BY DEF IInv, Sorts
  <2>2. LET t == Append(inbox, e) IN
        /\ \A op, d : Said(inbox, op, d) => Said(t, op, d)
        /\ \A op : \A d \in e.channels : e.op = op => Said(t, op, d)
        /\ \A n \in DOMAIN inbox : \A op, d :
             /\ SaidAfter(inbox, n, op, d) => SaidAfter(t, n, op, d)
             /\ e.op = op /\ d \in e.channels => SaidAfter(t, n, op, d)
        /\ \A n \in DOMAIN t :
             \/ n \in DOMAIN inbox /\ t[n] = inbox[n]
             \/ /\ n \notin DOMAIN inbox /\ t[n] = e
                /\ \A m \in DOMAIN inbox : m < n /\ n # 1
    BY <1>2, <2>1, SaidAppend
  <2> QED
    BY <1>1, <1>2, <2>2
<1>5. NewsRight(inbox', advertised')
  BY <1>1, <1>2, <1>4 DEF Links, Announced, NewsRight
<1>6. KnownRight(inbox', advertised', Known')
  BY <1>1, <1>4 DEF Links, Announced, KnownRight, Known
<1>7. Announced'
  BY <1>5, <1>6 DEF Announced
<1>8. SubsKnown'
  <2>1. ASSUME opened, NEW i \in DOMAIN byId, i \notin DOMAIN subs'
        PROVE  Said(inbox', "unadvertise", byId[i])
    <3>1. CASE i \notin DOMAIN subs
      BY <1>1, <1>4, <2>1, <3>1 DEF Links, SubsKnown
    <3>2. CASE i \in DOMAIN subs
      <4>1. subs[i] = c /\ firstSub <= i /\ i \in Nat /\ firstSub \in Nat
        BY <1>3, <2>1, <3>2 DEF Links, SubsKnown, IInv, Sorts, Maps
      <4>2. byId[i] = subs[i]
        BY <3>2, <4>1 DEF Links, SubsKnown
      <4> QED
        BY <1>4, <4>1, <4>2
    <3> QED
      BY <3>1, <3>2
  <2> QED
    BY <1>1, <1>3, <2>1 DEF Links, SubsKnown
<1>9. StillExpected
  BY <1>1 DEF Links, MessagesKnown, StillExpected, Expected
<1>10. MessagesKnown'
  BY <1>1, <1>2, <1>9, MessagesAppend DEF Links, IInv, Sorts
<1> QED
  BY <1>7, <1>8, <1>10 DEF Links

LEMMA SendMessageLinks ==
  ASSUME IInv, Maps, Links, NEW i \in DOMAIN subs, SendMessage(i)
  PROVE  Links'
<1> DEFINE again == \E n \in DOMAIN inbox :
                      /\ inbox[n].op = "unadvertise"
                      /\ subs[i] \in inbox[n].channels
<1>1. PICK e : e = [op |-> "message", sub |-> i, channel |-> subs[i],
                    again |-> again]
  OBVIOUS
<1>2. inbox' = Append(inbox, e) /\ UNCHANGED linkVars /\ UNCHANGED astray
  BY <1>1 DEF SendMessage, ServerActs, Tell, conn, topicState, linkVars
<1>3. /\ e \in AnyEvent /\ e.op = "message" /\ e.sub = i
      /\ e.channel = subs[i] /\ (e.again <=> again)
  BY <1>1 DEF IInv, Sorts, AnyEvent
<1>4. Neutral
  BY <1>2, <1>3 DEF Neutral, About
<1>5. Expected(e)
  <2>1. i \in Nat /\ firstSub \in Nat
    BY DEF IInv, Sorts, Maps
  <2>2. i \in DOMAIN byId => byId[i] = subs[i]
    BY <2>1 DEF Links, SubsKnown
  <2> QED
    BY <1>3, <2>2 DEF Links, SubsKnown, Expected
<1>6. \A n \in DOMAIN inbox' :
        \/ n \in DOMAIN inbox /\ inbox'[n] = inbox[n]
        \/ /\ n \notin DOMAIN inbox /\ inbox'[n] = e
           /\ \A m \in DOMAIN inbox : m < n /\ n # 1
  BY <1>2, <1>3, SaidAppend DEF IInv, Sorts
<1>7. \A m : Expected(m) => Expected(m)'
  BY <1>2 DEF Expected, linkVars
<1>8. MessagesKnown'
  <2> SUFFICES ASSUME NEW n \in DOMAIN inbox', inbox'[n].op = "message"
               PROVE  /\ Expected(inbox[n])'
                      /\ ~inbox'[n].again =>
                           \A k \in DOMAIN inbox' :
                             k < n /\ inbox'[k].op = "unadvertise" =>
                               inbox'[n].channel \notin inbox'[k].channels
    BY <1>2 DEF Links, MessagesKnown
  <2>1. PICK m : m = inbox'[n]
    OBVIOUS
  <2>2. Expected(m)'
    BY <1>5, <1>6, <1>7, <2>1 DEF Links, MessagesKnown
  <2>3. Expected(inbox[n])'
    BY <2>1, <2>2 DEF Expected
  <2>4. ASSUME ~inbox'[n].again, NEW k \in DOMAIN inbox', k < n,
               inbox'[k].op = "unadvertise"
        PROVE  inbox'[n].channel \notin inbox'[k].channels
    <3>1. k \in DOMAIN inbox /\ inbox'[k] = inbox[k]
      BY <1>3, <1>6, <2>4
    <3>2. CASE n \in DOMAIN inbox /\ inbox'[n] = inbox[n]
      BY <2>4, <3>1, <3>2 DEF Links, MessagesKnown
    <3>3. CASE inbox'[n] = e
      BY <1>3, <2>4, <3>1, <3>3
    <3> QED
      BY <1>6, <3>2, <3>3
  <2> QED
    BY <2>3, <2>4
<1> QED
  BY <1>2, <1>4, <1>8, QuietKeeps

-----------------------------------------------------------------------------
(* Subscriptions that are made. *)

IsNew(i) == i \in Nat /\ nextSub <= i /\ i < nextSub'

LEMMA ProcessSubs ==
  ASSUME NEW topics, NEW topicMap, NEW idMap, NEW channels, NEW known,
         ProcessUnresolved(topics, topicMap, idMap, channels, known),
         topics \subseteq Topics, nextSub \in Nat,
         \A i \in DOMAIN subs : i \in Nat /\ i < nextSub,
         known \subseteq DOMAIN subs
  PROVE  /\ nextSub' \in Nat /\ nextSub <= nextSub'
         /\ byId' = [i \in DOMAIN byId' |-> byId'[i]]
         /\ \A i \in DOMAIN byId' :
              \/ /\ IsNew(i)
                 /\ \E t \in topics \cap DOMAIN channels :
                      byId'[i] = channels[t]
              \/ ~IsNew(i) /\ i \in DOMAIN idMap /\ byId'[i] = idMap[i]
         /\ DOMAIN idMap \subseteq DOMAIN byId'
         /\ socket # "open" => subs' = subs
         /\ socket = "open" =>
              /\ known \subseteq DOMAIN subs'
              /\ \A i \in DOMAIN subs' :
                   \/ IsNew(i) /\ i \in DOMAIN byId' /\ byId'[i] = subs'[i]
                   \/ i \in known /\ subs'[i] = subs[i]
              /\ \A i \in DOMAIN byId' :
                   IsNew(i) /\ byId'[i] \in advertised => i \in DOMAIN subs'
<1> DEFINE found == IF client THEN topics \cap DOMAIN channels ELSE {}
           n == Cardinality(found)
           ids == nextSub..(nextSub + n - 1)
<1>1. n \in Nat
  <2>1. IsFiniteSet(found)
    <3>1. found \in SUBSET Topics
      OBVIOUS
    <3> HIDE DEF found
    <3> QED
      BY <3>1, TopicsFinite, FS_Subset
  <2> QED
    BY <2>1, FS_CardinalityType
<1>2. PICK id \in Bijection(found, ids) :
        LET new == [i \in ids |-> channels[CHOOSE t \in found : id[t] = i]]
        IN /\ byId' = Over(new, idMap)
           /\ nextSub' = nextSub + n
           /\ subs' = IF socket = "open"
                      THEN Over(Restrict(new, {i \in ids :
                                                 new[i] \in advertised}),
                                Restrict(subs, known))
                      ELSE subs
  BY DEF ProcessUnresolved
<1> DEFINE new == [i \in ids |-> channels[CHOOSE t \in found : id[t] = i]]
           told == {i \in ids : new[i] \in advertised}
<1> HIDE DEF n
<1>3. found \subseteq topics \cap DOMAIN channels
  OBVIOUS
<1> HIDE DEF found
<1>4. \A i \in ids : \E t \in found : id[t] = i
  BY DEF Bijection, Surjection
<1>5. \A i : i \in ids <=> IsNew(i)
  BY <1>1, <1>2 DEF IsNew
<1>6. nextSub' \in Nat /\ nextSub <= nextSub'
  BY <1>1, <1>2
<1> HIDE DEF ids
<1>7. \A i \in ids : \E t \in topics \cap DOMAIN channels : new[i] = channels[t]
  <2> TAKE i \in ids
  <2>1. (CHOOSE t \in found : id[t] = i) \in found
    BY <1>4
  <2> QED
    BY <1>3, <2>1
<1>8. DOMAIN new = ids
  OBVIOUS
<1>9. /\ byId' = Over(new, idMap)
      /\ socket = "open" =>
           subs' = Over(Restrict(new, told), Restrict(subs, known))
      /\ socket # "open" => subs' = subs
  BY <1>2
<1>10. told \subseteq ids /\ \A i \in ids : new[i] \in advertised => i \in told
  OBVIOUS
<1> HIDE DEF new, told
<1>11. /\ DOMAIN byId' = ids \cup DOMAIN idMap
       /\ \A i \in ids : byId'[i] = new[i]
       /\ \A i \in DOMAIN idMap \ ids : byId'[i] = idMap[i]
  BY <1>8, <1>9 DEF Over
<1>12. byId' = [i \in DOMAIN byId' |-> byId'[i]]
  BY <1>8, <1>9 DEF Over
<1>13. ASSUME socket = "open"
       PROVE  /\ DOMAIN subs' = told \cup known
              /\ \A i \in told : subs'[i] = new[i]
              /\ \A i \in known \ told : subs'[i] = subs[i]
  <2> DEFINE f == Restrict(new, told)
             g == Restrict(subs, known)
  <2>1. /\ DOMAIN f = told /\ DOMAIN g = known
        /\ \A i \in told : f[i] = new[i]
        /\ \A i \in known : g[i] = subs[i]
    BY DEF Restrict
  <2>2. subs' = Over(f, g)
    BY <1>9, <1>13
  <2> HIDE DEF f, g
  <2> QED
    BY <2>1, <2>2 DEF Over
<1>14. \A i \in DOMAIN byId' :
         \/ /\ IsNew(i)
            /\ \E t \in topics \cap DOMAIN channels : byId'[i] = channels[t]
         \/ ~IsNew(i) /\ i \in DOMAIN idMap /\ byId'[i] = idMap[i]
  BY <1>5, <1>7, <1>11
<1>15. ASSUME socket = "open"
       PROVE  /\ known \subseteq DOMAIN subs'
              /\ \A i \in DOMAIN subs' :
                   \/ IsNew(i) /\ i \in DOMAIN byId' /\ byId'[i] = subs'[i]
                   \/ i \in known /\ subs'[i] = subs[i]
              /\ \A i \in DOMAIN byId' :
                   IsNew(i) /\ byId'[i] \in advertised => i \in DOMAIN subs'
  BY <1>5, <1>10, <1>11, <1>13, <1>15
<1> QED
  BY <1>6, <1>9, <1>11, <1>12, <1>14, <1>15

(* What is subscribed beyond off is known to both, or its channel is about  *)
(* to be gone.                                                              *)
LEMMA ProcessKnown ==
  ASSUME IInv, Maps, SubsKnown, NEW off,
         NEW topics, NEW topicMap, NEW idMap, NEW channels, NEW known,
         ProcessUnresolved(topics, topicMap, idMap, channels, known),
         topics \subseteq Topics, known = DOMAIN subs \ off,
         DOMAIN idMap = DOMAIN byId \ off,
         \A i \in DOMAIN idMap : idMap[i] = byId[i],
         UNCHANGED <<opened, firstSub, socket>>,
         opened /\ socket = "open" =>
           /\ \A i \in DOMAIN byId \ DOMAIN subs :
                Said(inbox', "unadvertise", byId[i])
           /\ \A t \in topics \cap DOMAIN channels :
                channels[t] \notin advertised =>
                  Said(inbox', "unadvertise", channels[t])
  PROVE  /\ SubsKnown' /\ nextSub' \in Nat /\ nextSub <= nextSub'
         /\ \A i \in DOMAIN byId' :
              IsNew(i) \/ (i \in DOMAIN byId /\ byId'[i] = byId[i])
         /\ DOMAIN byId \ off \subseteq DOMAIN byId'
<1>1. /\ nextSub \in Nat /\ firstSub \in Nat
      /\ \A i \in DOMAIN subs : i \in Nat /\ i < nextSub
      /\ \A i \in DOMAIN byId : i \in Nat
      /\ known \subseteq DOMAIN subs
  BY DEF IInv, Sorts, Maps, SubsKnown
<1>2. /\ nextSub' \in Nat /\ nextSub <= nextSub'
      /\ byId' = [i \in DOMAIN byId' |-> byId'[i]]
      /\ \A i \in DOMAIN byId' :
           \/ /\ IsNew(i)
              /\ \E t \in topics \cap DOMAIN channels : byId'[i] = channels[t]
           \/ ~IsNew(i) /\ i \in DOMAIN idMap /\ byId'[i] = idMap[i]
      /\ DOMAIN idMap \subseteq DOMAIN byId'
      /\ socket # "open" => subs' = subs
      /\ socket = "open" =>
           /\ known \subseteq DOMAIN subs'
           /\ \A i \in DOMAIN subs' :
                \/ IsNew(i) /\ i \in DOMAIN byId' /\ byId'[i] = subs'[i]
                \/ i \in known /\ subs'[i] = subs[i]
           /\ \A i \in DOMAIN byId' :
                IsNew(i) /\ byId'[i] \in advertised => i \in DOMAIN subs'
  BY <1>1, ProcessSubs
<1>3. \A i \in DOMAIN byId' :
        IsNew(i) \/ (i \in DOMAIN byId /\ byId'[i] = byId[i])
  BY <1>2
<1>4. \A i : IsNew(i) => i \in Nat /\ nextSub <= i /\ i < nextSub'
  BY DEF IsNew
<1>5. ASSUME NEW i \in DOMAIN subs'
      PROVE  /\ i < nextSub'
             /\ \/ i \in DOMAIN byId' /\ byId'[i] = subs'[i]
                \/ opened /\ i < firstSub
  <2>1. CASE socket # "open"
    BY <1>2, <2>1 DEF SubsKnown
  <2>2. CASE socket = "open" /\ IsNew(i) /\ i \in DOMAIN byId'
               /\ byId'[i] = subs'[i]
    BY <1>4, <2>2
  <2>3. CASE socket = "open" /\ i \in known /\ subs'[i] = subs[i]
    <3>1. i \in Nat /\ i < nextSub /\ i \notin off
      BY <1>1, <2>3
    <3>2. i < nextSub' /\ ~IsNew(i)
      BY <1>1, <1>2, <1>4, <3>1
    <3>3. i \in DOMAIN byId => i \in DOMAIN byId' /\ byId'[i] = byId[i]
      BY <1>2, <3>1, <3>2
    <3> QED
      BY <2>3, <3>2, <3>3 DEF SubsKnown
  <2> QED
    BY <1>2, <2>1, <2>2, <2>3
<1>6. ASSUME opened
      PROVE  firstSub <= nextSub' /\ \A i \in DOMAIN byId' : firstSub <= i
  <2>1. firstSub <= nextSub /\ \A i \in DOMAIN byId : firstSub <= i
    BY <1>6 DEF SubsKnown
  <2> QED
    BY <1>1, <1>2, <1>3, <1>4, <2>1
<1>7. ASSUME opened, socket = "open", NEW i \in DOMAIN byId',
             i \notin DOMAIN subs'
      PROVE  Said(inbox', "unadvertise", byId'[i])
  <2>1. CASE IsNew(i)
    BY <1>2, <1>7, <2>1
  <2>2. CASE ~IsNew(i)
    <3>1. i \in DOMAIN idMap /\ byId'[i] = byId[i]
      BY <1>2, <2>2
    <3>2. i \notin DOMAIN subs
      BY <1>2, <1>7, <3>1
    <3> QED
      BY <1>7, <3>1, <3>2
  <2> QED
    BY <2>1, <2>2
<1>8. socket' # "open" => DOMAIN subs' = {}
  BY <1>2 DEF SubsKnown
<1>9. SubsKnown'
  BY <1>2, <1>5, <1>6, <1>7, <1>8 DEF SubsKnown
<1> QED
  BY <1>2, <1>3, <1>9

LEMMA ProcessExpected ==
  ASSUME IInv, MessagesKnown, NEW off, nextSub \in Nat,
         nextSub' \in Nat, nextSub <= nextSub',
         \A i \in DOMAIN byId' :
           IsNew(i) \/ (i \in DOMAIN byId /\ byId'[i] = byId[i]),
         DOMAIN byId \ off \subseteq DOMAIN byId',
         canceled \cup off \subseteq canceled',
         UNCHANGED <<opened, firstSub>>
  PROVE  StillExpected
<1> SUFFICES ASSUME NEW n \in DOMAIN inbox, inbox[n].op = "message",
                    NEW m, m = inbox[n]
             PROVE  Expected(m)'
  BY DEF StillExpected
<1>1. m.sub \in Nat
  <2>1. m \in AnyEvent
    BY DEF IInv, Sorts
  <2> QED
    BY <2>1 DEF AnyEvent
<1>2. Expected(m)
  BY DEF MessagesKnown
<1>3. m.sub < nextSub /\ ~IsNew(m.sub)
  BY <1>1, <1>2 DEF Expected, IsNew
<1> QED
  BY <1>1, <1>2, <1>3 DEF Expected

LEMMA OnAdvertiseLinks == IInv /\ Phases /\ Maps /\ Links /\ OnAdvertise
                            => Links'
<1> SUFFICES ASSUME IInv, Phases, Maps, Links, OnAdvertise PROVE Links'
  OBVIOUS
<1> DEFINE told == Head(inbox).channels
           supported == told \ Unsupported
           free == {TopicOf[c] : c \in supported} \ DOMAIN channelsByTopic
<1>1. /\ Handles("advertise") /\ inbox # <<>> /\ inbox' = Tail(inbox)
      /\ Head(inbox).op = "advertise"
      /\ UNCHANGED <<closed, client, openTimer, opened, firstSub, socket,
                     asked, advertised, canceled, astray>>
  BY DEF OnAdvertise, Handles, conn, server
<1>2. PICK first \in [free -> supported] :
        /\ \A t \in free : TopicOf[first[t]] = t
        /\ channelsById' = channelsById \cup Range(first)
        /\ channelsByTopic' = Over(first, channelsByTopic)
  BY DEF OnAdvertise
<1>3. ProcessUnresolved(unresolved, byTopic, byId, channelsByTopic',
                        DOMAIN subs)
  BY DEF OnAdvertise
<1>4. told \subseteq Channels
  <2>1. Head(inbox) \in AnyEvent
    BY <1>1, TailFacts DEF IInv, Sorts
  <2> QED
    BY <1>1, <2>1 DEF AnyEvent
<1>5. closed \/ opened
  BY <1>1 DEF IInv, Connected
<1>6. Range(first) \subseteq told
  BY DEF Range
<1>7. ASSUME NEW c \in supported, Alone(c)
      PROVE  c \in channelsById'
  <2>1. CASE TopicOf[c] \in free
    <3>1. /\ first[TopicOf[c]] \in Channels \ Unsupported
          /\ TopicOf[first[TopicOf[c]]] = TopicOf[c]
      BY <1>2, <1>4, <2>1
    <3>2. first[TopicOf[c]] = c
      BY <1>7, <3>1 DEF Alone
    <3> QED
      BY <1>2, <2>1, <3>2 DEF Range
  <2>2. CASE TopicOf[c] \notin free
    <3>1. TopicOf[c] \in DOMAIN channelsByTopic
      BY <2>2
    <3>2. /\ channelsByTopic[TopicOf[c]] \in channelsById
          /\ TopicOf[channelsByTopic[TopicOf[c]]] = TopicOf[c]
      BY <3>1 DEF IInv, ChannelsAgree
    <3>3. channelsByTopic[TopicOf[c]] = c
      BY <1>7, <3>2 DEF Alone, Maps
    <3> QED
      BY <1>2, <3>2, <3>3
  <2> QED
    BY <2>1, <2>2
<1> HIDE DEF told
<1>8. /\ \A op, c : Said(inbox, op, c) =>
           Said(inbox', op, c) \/ (op = "advertise" /\ c \in told)
      /\ \A adv : NewsRight(inbox, adv) =>
           /\ NewsRight(inbox', adv)
           /\ \A c \in told \ adv : Said(inbox', "unadvertise", c)
  <2>1. inbox \in Seq(AnyEvent)
    BY DEF IInv, Sorts
  <2>2. \A op, c : Said(inbox, op, c) =>
          \/ Said(Tail(inbox), op, c)
          \/ Head(inbox).op = op /\ c \in Head(inbox).channels
    BY <1>1, <2>1, SaidTail
  <2>3. \A adv : NewsRight(inbox, adv) =>
          /\ NewsRight(Tail(inbox), adv)
          /\ Head(inbox).op = "advertise" =>
               \A c \in Head(inbox).channels \ adv :
                 Said(Tail(inbox), "unadvertise", c)
    BY <1>1, <2>1, NewsTail
  <2> QED
    BY <1>1, <2>2, <2>3 DEF told
<1> HIDE DEF free
<1>9. ASSUME socket = "open", opened
      PROVE  /\ NewsRight(inbox', advertised)
             /\ KnownRight(inbox', advertised, channelsById')
  <2>1. /\ NewsRight(inbox, advertised)
        /\ KnownRight(inbox, advertised, channelsById)
    BY <1>9 DEF Links, Announced, Known
  <2>2. ASSUME NEW c \in channelsById' \ advertised
        PROVE  Said(inbox', "unadvertise", c)
    BY <1>2, <1>6, <1>8, <2>1, <2>2 DEF KnownRight
  <2>3. ASSUME NEW c \in advertised \ (Unsupported \cup channelsById'),
               Alone(c)
        PROVE  Said(inbox', "advertise", c)
    BY <1>2, <1>7, <1>8, <2>1, <2>3 DEF KnownRight
  <2> QED
    BY <1>8, <2>1, <2>2, <2>3 DEF KnownRight
<1>10. Announced'
  <2>1. socket = "open" => opened
    BY <1>5 DEF Phases
  <2> QED
    BY <1>1, <1>9, <2>1 DEF Announced, Known
<1>11. ASSUME NEW t \in DOMAIN channelsByTopic'
       PROVE  channelsByTopic'[t] \in channelsById'
  BY <1>2 DEF Over, Range, IInv, ChannelsAgree
<1>12. /\ SubsKnown' /\ nextSub' \in Nat /\ nextSub <= nextSub'
       /\ \A i \in DOMAIN byId' :
            IsNew(i) \/ (i \in DOMAIN byId /\ byId'[i] = byId[i])
       /\ DOMAIN byId \ {} \subseteq DOMAIN byId'
  <2>1. ASSUME opened, socket = "open"
        PROVE  /\ \A i \in DOMAIN byId \ DOMAIN subs :
                    Said(inbox', "unadvertise", byId[i])
               /\ \A t \in unresolved \cap DOMAIN channelsByTopic' :
                    channelsByTopic'[t] \notin advertised =>
                      Said(inbox', "unadvertise", channelsByTopic'[t])
    <3>1. \A i \in DOMAIN byId \ DOMAIN subs :
            Said(inbox, "unadvertise", byId[i])
      BY <2>1 DEF Links, SubsKnown
    <3> QED
      BY <1>8, <1>9, <1>11, <2>1, <3>1 DEF KnownRight
  <2>2. unresolved \subseteq Topics
    BY DEF IInv, Requested
  <2>3. DOMAIN subs = DOMAIN subs \ {} /\ DOMAIN byId = DOMAIN byId \ {}
    OBVIOUS
  <2> QED
    BY <1>1, <1>3, <2>1, <2>2, <2>3, ProcessKnown DEF Links
<1>13. StillExpected
  <2>1. nextSub \in Nat /\ canceled \cup {} \subseteq canceled'
    BY <1>1 DEF IInv, Sorts
  <2> QED
    BY <1>1, <1>12, <2>1, ProcessExpected DEF Links
<1>14. MessagesKnown'
  BY <1>1, <1>13, MessagesTail DEF Links, MessagesKnown, IInv, Sorts
<1> QED
  BY <1>10, <1>12, <1>14 DEF Links

LEMMA OnUnadvertiseLinks == IInv /\ Phases /\ Maps /\ Links /\ OnUnadvertise
                              => Links'
<1> SUFFICES ASSUME IInv, Phases, Maps, Links, OnUnadvertise PROVE Links'
  OBVIOUS
<1> DEFINE removed == Head(inbox).channels
           gone == removed \cap channelsById
           lost == {i \in DOMAIN byId : byId[i] \in gone}
<1>1. /\ inbox # <<>> /\ inbox' = Tail(inbox)
      /\ Head(inbox).op = "unadvertise"
      /\ UNCHANGED <<closed, opened, firstSub, socket, nextSub, advertised,
                     canceled, astray>>
  BY DEF OnUnadvertise, Handles, conn, server
<1>2. /\ channelsById' = channelsById \ gone
      /\ byId' = Without(byId, lost) /\ subs' = Without(subs, lost)
  BY DEF OnUnadvertise, UnsubscribeChannels
<1>3. /\ DOMAIN byId' = DOMAIN byId \ lost
      /\ \A i \in DOMAIN byId' : byId'[i] = byId[i]
      /\ DOMAIN subs' = DOMAIN subs \ lost
      /\ \A i \in DOMAIN subs' : subs'[i] = subs[i]
      /\ byId' = [i \in DOMAIN byId' |-> byId'[i]]
  <2>1. Without(byId, lost) = [i \in DOMAIN byId \ lost |-> byId[i]]
    BY DEF Without, Restrict
  <2>2. Without(subs, lost) = [i \in DOMAIN subs \ lost |-> subs[i]]
    BY DEF Without, Restrict
  <2> HIDE DEF lost
  <2> QED
    BY <1>2, <2>1, <2>2
<1>4. closed \/ opened
  BY <1>1 DEF IInv, Connected
<1> HIDE DEF removed
<1>5. /\ \A op, c : Said(inbox, op, c) =>
           Said(inbox', op, c) \/ (op = "unadvertise" /\ c \in removed)
      /\ \A adv : NewsRight(inbox, adv) =>
           /\ NewsRight(inbox', adv)
           /\ \A c \in removed \cap adv : Said(inbox', "advertise", c)
  <2>1. inbox \in Seq(AnyEvent)
    BY DEF IInv, Sorts
  <2>2. \A op, c : Said(inbox, op, c) =>
          \/ Said(Tail(inbox), op, c)
          \/ Head(inbox).op = op /\ c \in Head(inbox).channels
    BY <1>1, <2>1, SaidTail
  <2>3. \A adv : NewsRight(inbox, adv) =>
          /\ NewsRight(Tail(inbox), adv)
          /\ Head(inbox).op = "unadvertise" =>
               \A c \in Head(inbox).channels \cap adv :
                 Said(Tail(inbox), "advertise", c)
    BY <1>1, <2>1, NewsTail
  <2> QED
    BY <1>1, <2>2, <2>3 DEF removed
<1>6. ASSUME socket = "open", opened
      PROVE  /\ NewsRight(inbox', advertised)
             /\ KnownRight(inbox', advertised, channelsById')
  <2>1. /\ NewsRight(inbox, advertised)
        /\ KnownRight(inbox, advertised, channelsById)
    BY <1>6 DEF Links, Announced, Known
  <2>2. ASSUME NEW c \in channelsById' \ advertised
        PROVE  Said(inbox', "unadvertise", c)
    <3>1. c \in channelsById \ advertised /\ c \notin removed
      BY <1>2, <2>2
    <3> QED
      BY <1>5, <2>1, <3>1 DEF KnownRight
  <2>3. ASSUME NEW c \in advertised \ (Unsupported \cup channelsById'),
               Alone(c)
        PROVE  Said(inbox', "advertise", c)
    <3>1. CASE c \in channelsById
      <4>1. c \in removed
        BY <1>2, <2>3, <3>1
      <4> QED
        BY <1>5, <2>1, <2>3, <4>1
    <3>2. CASE c \notin channelsById
      <4>1. Said(inbox, "advertise", c)
        BY <2>1, <2>3, <3>2 DEF KnownRight
      <4> QED
        BY <1>5, <4>1
    <3> QED
      BY <3>1, <3>2
  <2> QED
    BY <1>5, <2>1, <2>2, <2>3 DEF KnownRight
<1>7. Announced'
  <2>1. socket = "open" => opened
    BY <1>4 DEF Phases
  <2> QED
    BY <1>1, <1>6, <2>1 DEF Announced, Known
<1>8. SubsKnown'
  <2>1. ASSUME opened, NEW i \in DOMAIN byId PROVE byId[i] \in channelsById
    BY <2>1 DEF IInv, OwnTopic, Subscribed, ChannelsAgree
  <2>2. ASSUME opened, socket = "open", NEW i \in DOMAIN byId' \ DOMAIN subs'
        PROVE  Said(inbox', "unadvertise", byId'[i])
    <3>1. /\ i \in DOMAIN byId \ DOMAIN subs /\ byId'[i] = byId[i]
          /\ byId[i] \notin gone
      BY <1>3, <2>2
    <3>2. Said(inbox, "unadvertise", byId[i])
      BY <2>2, <3>1 DEF Links, SubsKnown
    <3>3. byId[i] \notin removed
      BY <2>1, <2>2, <3>1
    <3> QED
      BY <1>5, <3>1, <3>2, <3>3
  <2> QED
    BY <1>1, <1>3, <2>2 DEF Links, SubsKnown
<1>9. StillExpected
  <2> SUFFICES ASSUME NEW n \in DOMAIN inbox, inbox[n].op = "message",
                      NEW m, m = inbox[n]
               PROVE  Expected(m)'
    BY DEF StillExpected
  <2>1. /\ Expected(m)
        /\ ~m.again => \A k \in DOMAIN inbox :
             k < n /\ inbox[k].op = "unadvertise" =>
               m.channel \notin inbox[k].channels
    BY DEF Links, MessagesKnown
  <2>2. 1 \in DOMAIN inbox /\ Head(inbox) = inbox[1] /\ 1 < n
    <3>1. 1 \in DOMAIN inbox /\ Head(inbox) = inbox[1] /\ n # 1
      BY <1>1, TailFacts DEF IInv, Sorts
    <3>2. inbox \in Seq(AnyEvent)
      BY DEF IInv, Sorts
    <3>3. n \in Nat /\ n >= 1
      BY <3>2
    <3> QED
      BY <3>1, <3>3
  <2>3. ~m.again => m.channel \notin removed
    BY <1>1, <2>1, <2>2 DEF removed
  <2>4. m.sub \in DOMAIN byId /\ ~m.again => m.sub \in DOMAIN byId'
    BY <1>3, <2>1, <2>3 DEF Expected
  <2> QED
    BY <1>1, <1>3, <2>1, <2>4 DEF Expected
<1>10. MessagesKnown'
  BY <1>1, <1>9, MessagesTail DEF Links, MessagesKnown, IInv, Sorts
<1> QED
  BY <1>7, <1>8, <1>10 DEF Links

LEMMA SetSubscriptionsLinks ==
  ASSUME IInv, Maps, Links, NEW topics \in SUBSET Topics,
         SetSubscriptions(topics)
  PROVE  Links'
<1>1. UNCHANGED <<opened, firstSub, socket, inbox, channelsById, advertised,
                  astray>>
  BY DEF SetSubscriptions, conn, server
<1>2. CASE ~client
  <2>1. UNCHANGED linkVars
    BY <1>1, <1>2 DEF SetSubscriptions, linkVars
  <2> QED
    BY <1>1, <2>1, IdleKeeps
<1>3. CASE client
  <2> DEFINE off == {byTopic[t] : t \in DOMAIN byTopic \ topics}
             new == topics \ DOMAIN byTopic
             stay == Only(byTopic, topics)
             ids == Without(byId, off)
  <2>1. /\ ProcessUnresolved(new, stay, ids, channelsByTopic,
                             DOMAIN subs \ off)
        /\ canceled' = canceled \cup off
    BY <1>3 DEF SetSubscriptions, Resubscribed
  <2>2. /\ new \subseteq Topics /\ DOMAIN ids = DOMAIN byId \ off
        /\ \A i \in DOMAIN ids : ids[i] = byId[i]
    BY DEF Without, Restrict
  <2> HIDE DEF off, new, stay, ids
  <2>3. ASSUME opened, socket = "open"
        PROVE  /\ \A i \in DOMAIN byId \ DOMAIN subs :
                    Said(inbox', "unadvertise", byId[i])
               /\ \A t \in new \cap DOMAIN channelsByTopic :
                    channelsByTopic[t] \notin advertised =>
                      Said(inbox', "unadvertise", channelsByTopic[t])
    <3>1. \A t \in DOMAIN channelsByTopic : channelsByTopic[t] \in channelsById
      BY DEF IInv, ChannelsAgree
    <3> QED
      BY <1>1, <2>3, <3>1
      DEF Links, SubsKnown, Announced, KnownRight, Known
  <2>4. /\ SubsKnown' /\ nextSub' \in Nat /\ nextSub <= nextSub'
        /\ \A i \in DOMAIN byId' :
             IsNew(i) \/ (i \in DOMAIN byId /\ byId'[i] = byId[i])
        /\ DOMAIN byId \ off \subseteq DOMAIN byId'
    BY <1>1, <2>1, <2>2, <2>3, ProcessKnown DEF Links
  <2>5. StillExpected
    <3>1. nextSub \in Nat /\ canceled \cup off \subseteq canceled'
      BY <2>1 DEF IInv, Sorts
    <3> QED
      BY <1>1, <2>4, <3>1, ProcessExpected DEF Links
  <2>6. MessagesKnown'
    BY <1>1, <2>5, MessagesSame DEF Links
  <2>7. Announced'
    BY <1>1 DEF Links, Announced, KnownRight, Known
  <2> QED
    BY <2>4, <2>6, <2>7 DEF Links
<1> QED
  BY <1>2, <1>3 DEF IInv, Sorts

-----------------------------------------------------------------------------
LEMMA LinksKeep ==
  IInv /\ Phases /\ Maps /\ Links /\ [Next]_vars => Links'
<1> SUFFICES ASSUME IInv, Phases, Maps, Links, [Next]_vars PROVE Links'
  OBVIOUS
<1>1. CASE HandleEvent
  <2>1. CASE OnServerInfo \/ OnAdvertiseServices \/ OnServiceResponse
               \/ OnAssetResponse
    <3>1. /\ inbox # <<>> /\ ~About(Head(inbox)) /\ inbox' = Tail(inbox)
          /\ UNCHANGED linkVars /\ UNCHANGED astray
      BY <2>1
      DEF OnServerInfo, OnAdvertiseServices, OnServiceResponse,
          OnAssetResponse, Handles, About, conn, wire, topicState, server,
          linkVars
    <3> QED
      BY <3>1, HeardKeeps DEF Links, MessagesKnown
  <2> QED
    BY <1>1, <2>1, OnOpenLinks, OnAdvertiseLinks, OnUnadvertiseLinks,
       OnMessageLinks, OnCloseLinks
    DEF HandleEvent
<1>2. CASE UserStep
  <2>1. ASSUME (\E pubs \in SUBSET Publishers : SetPublishers(pubs))
                 \/ CallService \/ FetchAsset
        PROVE  Links'
    <3>1. UNCHANGED linkVars /\ UNCHANGED <<inbox, astray>>
      BY <2>1
      DEF SetPublishers, CallService, FetchAsset, conn, topicState, server,
          linkVars
    <3> QED
      BY <3>1, IdleKeeps
  <2>2. ASSUME Close PROVE Links'
    BY <2>2, CloseLinks DEF Close, topicState, server
  <2> QED
    BY <1>2, <2>1, <2>2, SetSubscriptionsLinks DEF UserStep
<1>3. CASE ServerStep
  BY <1>3, AdvertiseLinks, UnadvertiseLinks, SendMessageLinks DEF ServerStep
<1>4. CASE Answers
  <2>1. PICK e \in AnyEvent :
          e.op \in {"service", "asset"} /\ inbox' = Append(inbox, e)
    BY <1>4, AnswerTells
  <2>2. UNCHANGED linkVars /\ UNCHANGED astray
    BY <1>4 DEF Answers, Answer, conn, topicState, server, linkVars
  <2> QED
    BY <2>1, <2>2, ToldLinks DEF About
<1>5. CASE Drop
  BY <1>5, EndLinks DEF Drop, conn, topicState
<1>6. CASE AttemptTimeout
  BY <1>6, CloseLinks DEF AttemptTimeout, topicState, server
<1>7. CASE UNCHANGED vars
  BY <1>7, IdleKeeps DEF vars, conn, wire, topicState, server, linkVars
<1> QED
  BY <1>1, <1>2, <1>3, <1>4, <1>5, <1>6, <1>7, OpenLinks, AcceptLinks DEF Next

LEMMA InitAgree == Init => AgreeInv
<1> SUFFICES ASSUME Init PROVE AgreeInv
  OBVIOUS
<1>1. /\ DOMAIN byId = {} /\ DOMAIN subs = {} /\ DOMAIN inbox = {}
      /\ byId = [i \in DOMAIN byId |-> byId[i]]
  BY DEF Init, Empty
<1>2. Maps
  BY InitTypes
<1>3. Phases /\ Announced /\ MessagesKnown /\ PubsKnown
  BY <1>1 DEF Init, Phases, Announced, MessagesKnown, PubsKnown
<1>4. SubsKnown
  BY <1>1 DEF Init, SubsKnown
<1> QED
  BY <1>2, <1>3, <1>4 DEF AgreeInv

(* When player and server have nothing to tell each other they agree on the *)
(* channels, the subscriptions and what is published, and no message has    *)
(* come for nothing: for any channels and any number of calls, of the       *)
(* server's changes and of lost connections.                                *)
THEOREM PlayerAndServerAgree == Spec => []ServerAgrees
<1>1. IInv /\ AgreeInv /\ [Next]_vars => AgreeInv'
  BY PhasesKeep, PublishedKeep, MapsKeep, LinksKeep DEF AgreeInv, Links
<1> QED
  BY <1>1, InitAgree, AgreeFollows, Inductive, PTL DEF Spec

=============================================================================
