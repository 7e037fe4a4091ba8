----------------------------- MODULE Messenger -----------------------------
(***************************************************************************)
(* One running LAN messenger (Lan-Messenger/): its list of peers, the      *)
(* rooms it has joined, the peers of each room, and the windows that show  *)
(* them.  The other messengers and the UDP network between them are the    *)
(* environment: any datagram some messenger may send can arrive at any     *)
(* time, so losses, duplicates, delays and reorderings are all behaviours. *)
(* Each messenger starts on a host of its own, named like its ID; one of   *)
(* them may get another address.                                           *)
(* Every slot runs to its end in the Qt event loop, with the slots its     *)
(* signals call: one action each.                                          *)
(***************************************************************************)
EXTENDS Integers, Sequences, FiniteSets

CONSTANTS
    Ids,            \* peer IDs, "name@domain"
    BadIds,         \* those whose name has an "@" of its own
    Me,             \* _mypeer.ID()
    RoomIds,        \* the peers that enter rooms
    Talkers,        \* the peers that send and get private messages
    Movers,         \* the messengers that may get another address
    NewHost,        \* the address that one messenger moves to
    NoHost,         \* QHostAddress()
    DualStack,      \* the socket is one for IPv6 that takes IPv4 as well
    Rooms,
    Expiry,         \* 10 seconds, in timer periods of 5 seconds
    Day,            \* timer periods in a day
    MaxJoins        \* bound: length of _rooms

ASSUME MessengerAssumption ==
    /\ IsFiniteSet(Ids)
    /\ BadIds \subseteq Ids /\ RoomIds \subseteq Ids /\ Talkers \subseteq Ids
    /\ Movers \subseteq Ids
    /\ Me \in Ids /\ NewHost \notin Ids /\ NoHost \notin Ids \cup {NewHost}
    /\ DualStack \in BOOLEAN
    /\ Expiry \in Nat /\ Day \in Nat /\ Expiry < Day /\ MaxJoins \in Nat

VARIABLES
    time,           \* QTime::currentTime(), from midnight
    due,            \* the timer has run out and its slot has not run
    peers,          \* _peers
    rooms,          \* _rooms
    roomslist,      \* _roomslist, a missing key being an empty list
    rms,            \* the rooms with a window
    shown,          \* the users listed in a room's window
    pms,            \* the peers with a chat window
    moved           \* the messenger that has moved to NewHost, NoHost at first

roomVars == <<rooms, roomslist, rms, shown>>
vars == <<time, due, peers, rooms, roomslist, rms, shown, pms, moved>>

Peer == [id : Ids \ BadIds, host : Ids \cup {NewHost}, lastseen : 0 .. (Day - 1)]

TypeOK ==
    /\ time \in 0 .. (Day - 1)
    /\ due \in BOOLEAN
    /\ peers \in Seq(Peer)
    /\ rooms \in Seq(Rooms) /\ Len(rooms) <= MaxJoins
    /\ roomslist \in [Rooms -> Seq(Peer)]
    /\ rms \subseteq Rooms
    /\ shown \in [Rooms -> Seq(Ids)]
    /\ pms \subseteq Ids
    /\ moved \in Ids \cup {NoHost}

---------------------------------------------------------------------------
IdsOf(list) == [i \in DOMAIN list |-> list[i].id]

Knows(list, id) == \E i \in DOMAIN list : list[i].id = id

\* Fault: the two times are swapped.
IsOld_Swapped(peer) == peer.lastseen - time > Expiry

\* Lastseen.secsTo(QTime::currentTime()) > 10.  QTime has no date: past
\* midnight the difference is negative.
IsOld(peer) == time - peer.lastseen > Expiry

\* The elements that stay in the first n places of a list, for every n, when
\* those in the places gone are removed.
Kept(list, gone) ==
    LET kept[n \in 0 .. Len(list)] ==
            IF n = 0 THEN <<>>
            ELSE IF n \in gone THEN kept[n - 1]
                 ELSE Append(kept[n - 1], list[n])
    IN  kept

\* The list without the elements in these places.
Without(list, gone) == Kept(list, gone)[Len(list)]

\* Fault: the loop begins with the second peer.
Removed_NotFirst(list) ==
    LET removed[n \in 0 .. Len(list)] ==
            n > 1 /\ IsOld(list[n]) /\ ~ removed[n - 1]
    IN  removed

\* The loops that look for old peers: removeAt(i) and then i++, so the peer
\* that moves into the place of a removed one is stepped over.
Removed(list) ==
    LET removed[n \in 0 .. Len(list)] ==
            n # 0 /\ IsOld(list[n]) /\ ~ removed[n - 1]
    IN  removed

Prune(list) == Without(list, {n \in DOMAIN list : Removed(list)[n]})

\* The lists of the rooms after the first n entries of _rooms, for every n: a
\* room that was joined twice is there twice, and is looked through twice.
Visited ==
    LET visited[n \in 0 .. Len(rooms)] ==
            IF n = 0 THEN roomslist
            ELSE [visited[n - 1] EXCEPT ![rooms[n]] = Prune(@)]
    IN  visited

NewPeer(id, sender) == [id |-> id, host |-> sender, lastseen |-> time]

\* Fault: a peer that is known already is appended again.
Heard_AppendsAlways(list, id, sender) ==
    IF id \in BadIds THEN list ELSE Append(list, NewPeer(id, sender))

\* Fault: an ID that does not split in two is taken.
Heard_AnyId(list, id, sender) ==
    IF Knows(list, id) THEN list ELSE Append(list, NewPeer(id, sender))

\* A peer announces itself: a known one is only seen again and keeps its
\* address, a new one is appended if its ID splits in two at "@".
Heard(list, id, sender) ==
    IF Knows(list, id)
    THEN [i \in DOMAIN list |->
            IF list[i].id = id THEN [list[i] EXCEPT !.lastseen = time] ELSE list[i]]
    ELSE IF id \in BadIds THEN list
         ELSE Append(list, NewPeer(id, sender))

\* The addresses that id has had: its datagrams come from one of them, a late one
\* perhaps from the old one.
Hosts(id) == {id} \cup (IF moved = id THEN {NewHost} ELSE {})

\* sender.toString() is that of an address in _myips, which are those of the
\* start.  A dual-stack socket writes every sender "::ffff:a.b.c.d", the
\* interfaces say "a.b.c.d": then no address is found to be the own one.
IsMine(host) == host = Me /\ ~ DualStack

\* onReadyRead: where datagrams of id come from that are looked into.
Senders(id) == {host \in Hosts(id) : ~ IsMine(host)}

\* Fault: the address of the last peer is taken.
AddressOf_Last(id) == IF Knows(peers, id) THEN peers[Len(peers)].host ELSE NoHost

\* The address of a private message: null when the peer is not listed.
AddressOf(id) ==
    IF Knows(peers, id)
    THEN peers[CHOOSE i \in DOMAIN peers : peers[i].id = id].host
    ELSE NoHost

\* makeRoomWindow: the open window, or a new one that lists nobody.
MakeRoomWindow(room) ==
    /\ rms' = rms \cup {room}
    /\ shown' = IF room \in rms THEN shown ELSE [shown EXCEPT ![room] = <<>>]

Joined(room) == \E i \in DOMAIN rooms : rooms[i] = room

---------------------------------------------------------------------------
Init ==
    /\ time \in 0 .. (Day - 1)
    /\ due = FALSE
    /\ peers = <<>>
    /\ rooms = <<>>
    /\ roomslist = [r \in Rooms |-> <<>>]
    /\ rms = {}
    /\ shown = [r \in Rooms |-> <<>>]
    /\ pms = {}
    /\ moved = NoHost

\* Five seconds pass; the event loop runs the timer's slot before the next five
\* have passed.
Tick ==
    /\ ~ due
    /\ time' = (time + 1) % Day
    /\ due' = TRUE
    /\ UNCHANGED <<peers, roomVars, pms, moved>>

\* Fault: the windows are not told who has left.
OnTimerdiscovery_NotShown ==
    /\ due
    /\ due' = FALSE
    /\ peers' = Prune(peers)
    /\ roomslist' = [r \in Rooms |-> IF Joined(r) THEN Prune(roomslist[r])
                                               ELSE roomslist[r]]
    /\ UNCHANGED <<time, rooms, rms, shown, pms, moved>>

\* onTimerdiscovery, with onUpdateList and onRoomListUpdated.
OnTimerdiscovery ==
    LET pruned == Visited[Len(rooms)]
        left   == {r \in Rooms : pruned[r] # roomslist[r]}
    IN
    /\ due
    /\ due' = FALSE
    /\ peers' = Prune(peers)
    /\ roomslist' = pruned
    /\ rms' = rms \cup left
    /\ shown' = [r \in Rooms |-> IF r \in left THEN IdsOf(pruned[r]) ELSE shown[r]]
    /\ UNCHANGED <<time, rooms, pms, moved>>

\* processTheDatagram, "DISCOVERY".
Discovery(id) ==
    /\ \E sender \in Senders(id) : peers' = Heard(peers, id, sender)
    /\ UNCHANGED <<time, due, roomVars, pms, moved>>

\* processTheDatagram, "ROOMLIST", with onRoomListUpdated.
RoomList(room, id) ==
    /\ Joined(room)
    /\ \E sender \in Senders(id) :
        roomslist' = [roomslist EXCEPT ![room] = Heard(@, id, sender)]
    /\ IF Len(roomslist'[room]) # Len(roomslist[room])
       THEN /\ rms' = rms \cup {room}
            /\ shown' = [shown EXCEPT ![room] = IdsOf(roomslist'[room])]
       ELSE UNCHANGED <<rms, shown>>
    /\ UNCHANGED <<time, due, peers, rooms, pms, moved>>

\* processTheDatagram, "ROOM", with onReceivedRoom.
RoomText(room) ==
    /\ Joined(room)
    /\ MakeRoomWindow(room)
    /\ UNCHANGED <<time, due, peers, rooms, roomslist, pms, moved>>

\* makePMWindow
MakePMWindow(id) ==
    /\ pms' = pms \cup {id}
    /\ UNCHANGED <<time, due, peers, roomVars, moved>>

\* processTheDatagram, "PM", with onReceivedPM; and a double click on a user.
PM(id) == Senders(id) # {} /\ MakePMWindow(id)

OpenPM(id) ==
    /\ Knows(peers, id) \/ \E r \in rms : \E i \in DOMAIN shown[r] : shown[r][i] = id
    /\ MakePMWindow(id)

\* onPMClosed
OnPMClosed(id) ==
    /\ id \in pms
    /\ pms' = pms \ {id}
    /\ UNCHANGED <<time, due, peers, roomVars, moved>>

\* onJoinRoom: nothing keeps the user from joining a room twice.
OnJoinRoom(room) ==
    /\ Len(rooms) < MaxJoins
    /\ MakeRoomWindow(room)
    /\ rooms' = Append(rooms, room)
    /\ UNCHANGED <<time, due, peers, roomslist, pms, moved>>

\* Fault: leaveRoom removes one occurrence.
OnRoomClosed_LeavesOnce(room) ==
    /\ room \in rms
    /\ rms' = rms \ {room}
    /\ rooms' = Without(rooms, {CHOOSE i \in DOMAIN rooms : rooms[i] = room})
    /\ UNCHANGED <<time, due, peers, roomslist, shown, pms, moved>>

\* onRoomClosed: the peers of the room stay in _roomslist.
OnRoomClosed(room) ==
    /\ room \in rms
    /\ rms' = rms \ {room}
    /\ rooms' = Without(rooms, {i \in DOMAIN rooms : rooms[i] = room})
    /\ UNCHANGED <<time, due, peers, roomslist, shown, pms, moved>>

\* A messenger, perhaps this one, gets another address.
Move(id) ==
    /\ moved = NoHost
    /\ moved' = id
    /\ UNCHANGED <<time, due, peers, roomVars, pms>>

Receive ==
    \/ \E id \in Ids : Discovery(id)
    \/ \E id \in Talkers : PM(id)
    \/ \E room \in Rooms : RoomText(room) \/ \E id \in RoomIds : RoomList(room, id)

User ==
    \/ \E id \in Talkers : OpenPM(id) \/ OnPMClosed(id)
    \/ \E room \in Rooms : OnJoinRoom(room) \/ OnRoomClosed(room)

Next == Tick \/ OnTimerdiscovery \/ Receive \/ User \/ \E id \in Movers : Move(id)

\* Time passes and the event loop runs the timer's slot; nothing makes a peer
\* send, the network deliver or the user act.
Spec == Init /\ [][Next]_vars /\ WF_vars(Tick) /\ WF_vars(OnTimerdiscovery)

---------------------------------------------------------------------------
\* A room has a window exactly as long as it is joined: a datagram that comes
\* after the user has closed the window opens no new one, and joining twice
\* does not outlive one closing.
WindowIffJoined == \A r \in Rooms : r \in rms <=> Joined(r)

\* A list names a peer once, however often and however late it is announced.
NamedOnce ==
    LET Once(list) == \A i, j \in DOMAIN list : list[i].id = list[j].id => i = j
    IN  Once(peers) /\ \A r \in Rooms : Once(roomslist[r])

\* The window of a room lists those who are in the messenger's list of the room,
\* or nobody at all when the room has just been joined again: whoever the timer
\* drops or steps over, the two do not drift apart.  That list is not looked
\* through while the room is not joined, so that a window may well list peers
\* that are long gone, after others of the room have announced themselves.
WindowFollowsList ==
    \A r \in rms : shown[r] \in {<<>>, IdsOf(roomslist[r])}

OldIn(list) == {i \in DOMAIN list : IsOld(list[i])}
Halved(list, left) == 2 * Cardinality(OldIn(left)) <= Cardinality(OldIn(list))

\* Though the loop steps over peers, each time the timer's slot runs at least half
\* of the old ones go: from the list of peers, and from that of each joined
\* room, also from one that nobody has looked through for long.
HalfOfTheOldLeave ==
    [][due /\ ~ due' =>
          /\ Halved(peers, peers')
          /\ \A r \in Rooms : Joined(r) => Halved(roomslist[r], roomslist'[r])]_vars

\* The loop may step over a peer again and again, but each time it has removed
\* another one that was listed before it: on the day it was last seen no peer
\* stays longer than that takes.
CaughtInTheEnd ==
    \A i \in DOMAIN peers :
        time - peers[i].lastseen <= Expiry + Cardinality(Ids \ BadIds)

\* A private message to a listed peer goes to that peer and to nobody else: to the
\* host where it is, or, since the address is that of the first datagram since
\* it was last absent, to the one where it was before it moved.
MessagesArrive ==
    \A id \in pms : Knows(peers, id) => AddressOf(id) \in Hosts(id)

Silent(id) == <>[][~ Discovery(id)]_vars

\* A peer that falls silent leaves the list, unless it was last seen so late on
\* a day that it did not get old before midnight.
SilentPeersLeave ==
    \A id \in Ids \ BadIds :
        Silent(id) =>
            <>[](\A i \in DOMAIN peers :
                    peers[i].id = id => peers[i].lastseen + Expiry + 1 >= Day)

\* Every peer that falls silent leaves the list ("chekc for olds").
OldPeersLeave ==
    \A id \in Ids \ BadIds : Silent(id) => <>[](~ Knows(peers, id))
============================================================================
