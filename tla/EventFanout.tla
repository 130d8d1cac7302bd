----------------------------- MODULE EventFanout -----------------------------
(***************************************************************************)
(* From the shared stream to the browsers, for one workspace.              *)
(*                                                                         *)
(*   - the outbox adds the committed events of the workspace to a Redis    *)
(*     stream, at least once and, across transactions, in any order;       *)
(*   - the reader of every API instance calls XREAD again and again, from  *)
(*     "$" until its first message and then from its last one, and drops   *)
(*     what a bounded set of event ids says it has seen;                   *)
(*   - the hub of the instance puts an event into the line of every        *)
(*     subscribed connection, and takes the connections of a removed       *)
(*     member off its table;                                               *)
(*   - a connection checks its user's membership before every frame.       *)
(*                                                                         *)
(* A batch of messages is consumed as single messages with nothing in      *)
(* between, and an XREAD from a known position answers when its message is *)
(* consumed; only an XREAD from "$" depends on when it begins.  What a     *)
(* presence frame says is left out: it is checked like any other frame.    *)
(***************************************************************************)
EXTENDS Integers, Sequences, FiniteSets, SequencesExt

CONSTANTS
    Instance,   \* API instances
    Conn,       \* connections; each is opened at most once
    User,       \* members, and those who were; the owner is not one of them
    UserOf,     \* UserOf[c]: who opens connection c
    SeenLimit,  \* seenEventLimit
    MaxEvents,  \* bound on committed events
    MaxFaults   \* bound on duplicates, failures and restarts

ASSUME FanoutAssumption ==
    /\ UserOf \in [Conn -> User]
    /\ SeenLimit \in Nat \ {0}
    /\ MaxEvents \in Nat /\ MaxFaults \in Nat

\* A value of UserOf for model checking: every connection is of one member.
OneMember == [c \in Conn |-> CHOOSE u \in User : TRUE]

VARIABLES
    log,        \* committed changes, in commit order; their number is their id
    stream,     \* odf:workspace-events: event ids
    active,     \* redisActive
    cursor,     \* streamCursors: a stream position, or Latest
    reading,    \* an XREAD from "$" is under way
    start,      \* the end of the stream when the last such XREAD began
    seen,       \* seenEventIds, oldest first
    status,     \* status of a connection
    at,         \* the instance that serves it
    subscribed, \* connections in the hubs' tables
    queue,      \* frames in the promise chain of a connection
    cleared,    \* the check of the first frame has passed
    faults,
    \* History, which no action reads:
    dispatched, \* events an instance has given to its hub
    missed,     \* an XREAD from "$" has skipped a message
    since,      \* length of dispatched when a connection subscribed
    written     \* events written to a connection that is not closed

database == <<log, stream>>
reader == <<active, cursor, reading, start, seen, dispatched, missed>>
connection == <<status, at, since>>
delivery == <<queue, cleared, written>>
vars == <<database, reader, connection, subscribed, delivery, faults>>

Latest == 0         \* "$"
Presence == 0       \* a presence frame
Entry == [change : {"saved"}] \cup [change : {"added", "removed"}, user : User]
Committed == 1 .. Len(log)

TypeOK ==
    /\ log \in Seq(Entry) /\ Len(log) <= MaxEvents
    /\ stream \in Seq(Committed)
    /\ active \in [Instance -> BOOLEAN]
    /\ cursor \in [Instance -> 0 .. Len(stream)]
    /\ reading \in [Instance -> BOOLEAN]
    /\ start \in [Instance -> 0 .. Len(stream)]
    /\ seen \in [Instance -> Seq(Committed)]
    /\ \A i \in Instance : Len(seen[i]) <= SeenLimit
    /\ status \in [Conn -> {"new", "admitted", "gone", "open", "ending", "closed"}]
    /\ at \in [Conn -> Instance]
    /\ subscribed \subseteq Conn
    /\ queue \in [Conn -> Seq({Presence} \cup Committed)]
    /\ cleared \in [Conn -> BOOLEAN]
    /\ faults \in 0 .. MaxFaults
    /\ dispatched \in [Instance -> Seq(Committed)]
    /\ missed \in [Instance -> BOOLEAN]
    /\ since \in [Conn -> Nat]
    /\ written \in [Conn -> Seq(Committed)]

Init ==
    /\ log = <<>> /\ stream = <<>>
    /\ active = [i \in Instance |-> TRUE]
    /\ cursor = [i \in Instance |-> Latest]
    /\ reading = [i \in Instance |-> FALSE]
    /\ start = [i \in Instance |-> 0]
    /\ seen = [i \in Instance |-> <<>>]
    /\ status = [c \in Conn |-> "new"]
    /\ at \in [Conn -> Instance]
    /\ subscribed = {}
    /\ queue = [c \in Conn |-> <<>>]
    /\ cleared = [c \in Conn |-> FALSE]
    /\ faults = 0
    /\ dispatched = [i \in Instance |-> <<>>]
    /\ missed = [i \in Instance |-> FALSE]
    /\ since = [c \in Conn |-> 0]
    /\ written = [c \in Conn |-> <<>>]

Fault == faults < MaxFaults /\ faults' = faults + 1

-----------------------------------------------------------------------------
(* The database and the outbox. *)

Removes(k, u) == log[k] = [change |-> "removed", user |-> u]
Adds(k, u) == log[k] = [change |-> "added", user |-> u]

\* Whether u is a member after the first n changes.  All users are at first.
MemberAfter(u, n) ==
    \A k \in 1 .. n : Removes(k, u) => \E l \in k + 1 .. n : Adds(l, u)
IsMember(u) == MemberAfter(u, Len(log))

(* A change of the workspace and its event, in one transaction. *)
Commit(entry) ==
    /\ Len(log) < MaxEvents
    /\ log' = Append(log, entry)
    /\ UNCHANGED <<stream, reader, connection, subscribed, delivery, faults>>

\* A save by the owner, who always is a member.
Save == Commit([change |-> "saved"])

Change(u) == Commit([change |-> IF IsMember(u) THEN "removed" ELSE "added", user |-> u])

Publish == \E k \in 1 .. Len(log) :
    /\ k \in Range(stream) => Fault
    /\ k \notin Range(stream) => UNCHANGED faults
    /\ stream' = Append(stream, k)
    /\ UNCHANGED <<log, reader, connection, subscribed, delivery>>

-----------------------------------------------------------------------------
(* The hub.  Frames for a response that has ended are dropped. *)

Served(i) == {c \in subscribed : at[c] = i}
Live(i) == {c \in Served(i) : status[c] = "open"}

\* The connections that the removal of a member takes off the table.
Revoked(i, e) == {c \in Served(i) : Removes(e, UserOf[c])}

\* receiveSharedEvent: the event, and presence after a change of members.
FramesFor(c, i, e) ==
    IF log[e].change = "saved" \/ c \in Revoked(i, e) THEN <<e>> ELSE <<e, Presence>>

Receive(i, e) ==
    /\ queue' = [c \in Conn |->
          IF c \in Live(i) THEN queue[c] \o FramesFor(c, i, e) ELSE queue[c]]
    /\ subscribed' = subscribed \ Revoked(i, e)

\* publishPresence, to the connections of S.
Announce(S) == [c \in Conn |-> IF c \in S THEN Append(queue[c], Presence) ELSE queue[c]]

-----------------------------------------------------------------------------
(* The reader. *)

\* readLoop: an XREAD from "$" reaches Redis.
Read(i) ==
    /\ active[i] /\ ~reading[i] /\ cursor[i] = Latest
    /\ reading' = [reading EXCEPT ![i] = TRUE]
    /\ start' = [start EXCEPT ![i] = Len(stream)]
    /\ missed' = [missed EXCEPT ![i] = @ \/ start[i] < Len(stream)]
    /\ UNCHANGED <<database, active, cursor, seen, dispatched, connection, subscribed, delivery, faults>>

\* It blocks until nothing has arrived for readBlockMilliseconds.
TimeOut(i) ==
    /\ reading[i]
    /\ start[i] = Len(stream)
    /\ reading' = [reading EXCEPT ![i] = FALSE]
    /\ UNCHANGED <<database, active, cursor, start, seen, dispatched, missed>>
    /\ UNCHANGED <<connection, subscribed, delivery, faults>>

(* BoundedSet.add of an id that is not in the set. *)
Remember(s, e) == IF Len(s) < SeenLimit THEN Append(s, e) ELSE Tail(Append(s, e))

\* What the reader has behind it.
Position(i) == IF cursor[i] = Latest THEN start[i] ELSE cursor[i]

\* Variant: the cursor moves to the end of the stream.
MovedToEnd(i) == Len(stream)

(* streamCursors: the message that has been read. *)
MovedTo(i) == Position(i) + 1

(* consume: one message. *)
Consume(i) ==
    /\ active[i]
    /\ cursor[i] = Latest => reading[i]
    /\ Position(i) < Len(stream)
    /\ reading' = [reading EXCEPT ![i] = FALSE]
    /\ cursor' = [cursor EXCEPT ![i] = MovedTo(i)]
    /\ start' = [start EXCEPT ![i] = 0]
    /\ LET e == stream[Position(i) + 1]
       IN  IF e \in Range(seen[i])
           THEN UNCHANGED <<seen, dispatched, queue, subscribed>>
           ELSE /\ seen' = [seen EXCEPT ![i] = Remember(@, e)]
                /\ dispatched' = [dispatched EXCEPT ![i] = Append(@, e)]
                /\ Receive(i, e)
    /\ UNCHANGED <<database, active, missed, connection, cleared, written, faults>>

\* disableRedis: the instance stays without Redis, and is degraded.
Disable(i) ==
    /\ active[i]
    /\ Fault
    /\ active' = [active EXCEPT ![i] = FALSE]
    /\ reading' = [reading EXCEPT ![i] = FALSE]
    /\ UNCHANGED <<database, cursor, start, seen, dispatched, missed, connection, subscribed, delivery>>

\* The instance starts again, and its connections are lost.
Restart(i) ==
    /\ Fault
    /\ active' = [active EXCEPT ![i] = TRUE]
    /\ cursor' = [cursor EXCEPT ![i] = Latest]
    /\ reading' = [reading EXCEPT ![i] = FALSE]
    /\ start' = [start EXCEPT ![i] = Len(stream)]
    /\ seen' = [seen EXCEPT ![i] = <<>>]
    /\ dispatched' = [dispatched EXCEPT ![i] = <<>>]
    /\ missed' = [missed EXCEPT ![i] = FALSE]
    /\ LET lost == {c \in Conn : at[c] = i /\ status[c] # "new"}
       IN  /\ status' = [c \in Conn |-> IF c \in lost THEN "closed" ELSE status[c]]
           /\ subscribed' = subscribed \ lost
           /\ queue' = [c \in Conn |-> IF c \in lost THEN <<>> ELSE queue[c]]
           /\ cleared' = [c \in Conn |-> IF c \in lost THEN FALSE ELSE cleared[c]]
           /\ written' = [c \in Conn |-> IF c \in lost THEN <<>> ELSE written[c]]
    /\ UNCHANGED <<database, at, since>>

-----------------------------------------------------------------------------
(* A connection. *)

\* requireWorkspaceMember.
Request(c) ==
    /\ status[c] = "new"
    /\ status' = [status EXCEPT ![c] = IF IsMember(UserOf[c]) THEN "admitted" ELSE "closed"]
    /\ UNCHANGED <<database, reader, at, since, subscribed, delivery, faults>>

\* The client leaves before there is a handler for it.
Leave(c) ==
    /\ status[c] = "admitted"
    /\ status' = [status EXCEPT ![c] = "gone"]
    /\ UNCHANGED <<database, reader, at, since, subscribed, delivery, faults>>

Enter(c) ==
    /\ status[c] \in {"admitted", "gone"}
    /\ c \notin subscribed
    /\ subscribed' = subscribed \cup {c}
    /\ status' = [status EXCEPT ![c] = IF @ = "admitted" THEN "open" ELSE @]
    /\ since' = [since EXCEPT ![c] = Len(dispatched[at[c]])]
    /\ UNCHANGED <<database, reader, at, cleared, written, faults>>

\* Variant: a new subscription is not announced.
SubscribeQuietly(c) == Enter(c) /\ UNCHANGED queue

(* subscribe: presence goes to all connections, the new one included. *)
Subscribe(c) ==
    /\ Enter(c)
    /\ queue' = Announce(IF status[c] = "admitted" THEN Live(at[c]) \cup {c} ELSE Live(at[c]))

End(c) ==
    /\ status' = [status EXCEPT ![c] = "ending"]
    /\ queue' = [queue EXCEPT ![c] = <<>>]
    /\ cleared' = [cleared EXCEPT ![c] = FALSE]

OwnRemoval(c, f) == f # Presence /\ Removes(f, UserOf[c])

\* Variant: the membership is not read again.
CheckNot(c) ==
    /\ status[c] = "open" /\ queue[c] # <<>> /\ ~cleared[c]
    /\ cleared' = [cleared EXCEPT ![c] = TRUE]
    /\ UNCHANGED <<status, queue, written>>
    /\ UNCHANGED <<database, reader, at, since, subscribed, faults>>

(* The next frame: the user's own removal is written and ends the stream;  *)
(* for any other the membership is read first.                             *)
Check(c) ==
    /\ status[c] = "open" /\ queue[c] # <<>> /\ ~cleared[c]
    /\ \/ /\ OwnRemoval(c, Head(queue[c]))
          /\ written' = [written EXCEPT ![c] = Append(@, Head(queue[c]))]
          /\ End(c)
       \/ /\ ~OwnRemoval(c, Head(queue[c])) /\ ~IsMember(UserOf[c])
          /\ End(c)
          /\ UNCHANGED written
       \/ /\ ~OwnRemoval(c, Head(queue[c])) /\ IsMember(UserOf[c])
          /\ cleared' = [cleared EXCEPT ![c] = TRUE]
          /\ UNCHANGED <<status, queue, written>>
    /\ UNCHANGED <<database, reader, at, since, subscribed, faults>>

\* The membership cannot be read: the stream ends.
CheckFails(c) ==
    /\ status[c] = "open" /\ queue[c] # <<>> /\ ~cleared[c]
    /\ Fault
    /\ End(c)
    /\ UNCHANGED <<database, reader, at, since, subscribed, written>>

\* Variant: frames do not wait for the frames before them.
WriteLatest(c) ==
    /\ status[c] = "open" /\ cleared[c]
    /\ written' = [written EXCEPT ![c] =
          IF Last(queue[c]) = Presence THEN @ ELSE Append(@, Last(queue[c]))]
    /\ queue' = [queue EXCEPT ![c] = Front(@)]
    /\ cleared' = [cleared EXCEPT ![c] = FALSE]
    /\ UNCHANGED <<database, reader, connection, subscribed, faults>>

(* The frame whose check has passed is written. *)
Write(c) ==
    /\ status[c] = "open" /\ cleared[c]
    /\ written' = [written EXCEPT ![c] =
          IF Head(queue[c]) = Presence THEN @ ELSE Append(@, Head(queue[c]))]
    /\ queue' = [queue EXCEPT ![c] = Tail(@)]
    /\ cleared' = [cleared EXCEPT ![c] = FALSE]
    /\ UNCHANGED <<database, reader, connection, subscribed, faults>>

\* disconnect: presence goes to the connections that stay.
Disconnect(c) ==
    /\ status' = [status EXCEPT ![c] = "closed"]
    /\ subscribed' = subscribed \ {c}
    /\ queue' = [Announce(Live(at[c]) \ {c}) EXCEPT ![c] = <<>>]
    /\ cleared' = [cleared EXCEPT ![c] = FALSE]
    /\ written' = [written EXCEPT ![c] = <<>>]
    /\ UNCHANGED <<database, reader, at, since, faults>>

HangUp(c) == status[c] = "open" /\ Disconnect(c)
Close(c) == status[c] = "ending" /\ Disconnect(c)

-----------------------------------------------------------------------------
Reader(i) == Read(i) \/ TimeOut(i) \/ Consume(i)
Broken(i) == Disable(i) \/ Restart(i)
Deliver(c) == Subscribe(c) \/ Check(c) \/ Write(c) \/ Close(c)
Client(c) == Request(c) \/ Leave(c) \/ HangUp(c) \/ CheckFails(c)
Next ==
    \/ Save
    \/ \E u \in User : Change(u)
    \/ Publish
    \/ \E i \in Instance : Reader(i) \/ Broken(i)
    \/ \E c \in Conn : Deliver(c) \/ Client(c)

Spec == Init /\ [][Next]_vars

(* The read loop and the promise chains go on.  Nobody has to commit,      *)
(* publish, connect or leave.                                              *)
FairSpec == Spec
    /\ \A i \in Instance : WF_vars(Reader(i))
    /\ \A c \in Conn : WF_vars(Deliver(c))

-----------------------------------------------------------------------------
Allowed(c, e) == OwnRemoval(c, e) \/ \E n \in e .. Len(log) : MemberAfter(UserOf[c], n)

(* "A revoked client never receives a later workspace payload": an event   *)
(* that was written to a connection was committed before some moment at    *)
(* which its user was a member, or it is the user's own removal.           *)
NoPayloadAfterRevocation ==
    \A c \in Conn : \A j \in 1 .. Len(written[c]) : Allowed(c, written[c][j])

(* The same event reaches a hub a second time only after at least          *)
(* SeenLimit other events: that is how long its id is remembered.          *)
DuplicatesNeedEviction == \A i \in Instance : \A j, k \in 1 .. Len(dispatched[i]) :
    j < k /\ dispatched[i][j] = dispatched[i][k] => k - j > SeenLimit

(* What a subscribed client has received, and what is still in its line,   *)
(* is what its instance has dispatched since it subscribed, in that order: *)
(* nothing is dropped, doubled or overtaken on the way, and the instance   *)
(* itself repeats an event only when it has forgotten it.                  *)
EventsIn(line, n) == Cardinality({j \in 1 .. n : line[j] # Presence})

Follows(first, sent, line, told) ==
    /\ first + Len(sent) + EventsIn(line, Len(line)) = Len(told)
    /\ \A j \in DOMAIN sent : sent[j] = told[first + j]
    /\ \A j \in DOMAIN line : line[j] # Presence =>
          line[j] = told[first + Len(sent) + EventsIn(line, j)]

FollowsDispatch(c) == Follows(since[c], written[c], queue[c], dispatched[at[c]])

DeliveredAsDispatched ==
    /\ DuplicatesNeedEviction
    /\ \A c \in subscribed : status[c] = "open" => FollowsDispatch(c)

(* What DeliveredAsDispatched rests on besides: nothing is in line for a   *)
(* connection that was never open, and a subscribed one has been asked for.*)
LineInv == \A c \in Conn :
    /\ c \in subscribed /\ status[c] = "open" => FollowsDispatch(c)
    /\ status[c] \in {"new", "admitted", "gone"} => written[c] = <<>> /\ queue[c] = <<>>
    /\ c \in subscribed => status[c] \notin {"new", "admitted"}

(* The invariant the proofs use: what a check has cleared may be written,  *)
(* and an instance remembers the last events it has dispatched.            *)
ClearedInv == \A c \in Conn : cleared[c] =>
    queue[c] # <<>> /\ (queue[c][1] # Presence => Allowed(c, queue[c][1]))

SeenInv == \A i \in Instance :
    /\ Len(seen[i]) = IF Len(dispatched[i]) < SeenLimit THEN Len(dispatched[i]) ELSE SeenLimit
    /\ \A j \in 1 .. Len(seen[i]) :
          seen[i][j] = dispatched[i][Len(dispatched[i]) - Len(seen[i]) + j]

FanoutInv == TypeOK /\ ClearedInv /\ SeenInv /\ NoPayloadAfterRevocation /\ DuplicatesNeedEviction

Excused(i) == missed[i] \/ ~active[i]

(* Once the removal of a member is on the stream, the member's connections *)
(* end, those whose check ran before the removal and whose subscription    *)
(* came after it included, unless the reader has lost the event.           *)
RevocationCloses == \A c \in Conn :
    (/\ status[c] = "open" /\ ~IsMember(UserOf[c])
     /\ \E k \in Range(stream) : /\ Removes(k, UserOf[c])
                                 /\ \A l \in k + 1 .. Len(log) : ~Removes(l, UserOf[c]))
    ~> (status[c] # "open" \/ IsMember(UserOf[c]) \/ Excused(at[c]))

\* Messages that the reader of i has not reached.
Ahead(i) == {stream[n] : n \in Position(i) + 1 .. Len(stream)}

(* A message that the reader has not reached arrives at every connection   *)
(* of the instance that stays open, unless an XREAD from "$" has skipped a *)
(* message or the instance is without Redis.                               *)
MembersCatchUp == \A c \in Conn : \A k \in 1 .. MaxEvents :
    (/\ c \in subscribed /\ status[c] = "open"
     /\ k \in Ahead(at[c]) \ Range(dispatched[at[c]]))
    ~> (k \in Range(written[c]) \/ status[c] # "open" \/ Excused(at[c]))
=============================================================================
