------------------------------ MODULE EventFeed ------------------------------
(***************************************************************************)
(* The event feed of one session (api/websocket.py): the list of its       *)
(* listeners, the broadcasts that walk it, and the task that pings every   *)
(* listener and drops those that do not answer.  Each send and each wait   *)
(* is an await, at which a listener may come, leave, or answer.            *)
(***************************************************************************)
EXTENDS Integers, Sequences, FiniteSets, SequencesExt

CONSTANTS
  Sockets,    \* connections that are ever made
  LastEvent,  \* bound on the number of broadcasts
  LastRound   \* bound on the number of rounds of pings

VARIABLES
  conns,     \* _connections[session]: the list itself, which broadcasts walk
  listObject,\* which list that is: an empty one is thrown away
  endpoint,  \* where the handler of each connection is
  gone,      \* connections whose peer has left: sending and receiving raise
  ponging,   \* _pong_events[session]: the connections that have an event
  ponged,    \* the events that are set
  keeper,    \* the task of _keepalive_tasks[session]
  cast,      \* the broadcast under way
  events,    \* broadcasts so far
  rounds,    \* rounds of pings so far
  owed,      \* history: listeners since before the broadcast under way
  heard,     \* history: listeners that were sent the event under way
  shifted,   \* history: a listener it had passed left the list under it
  answered,  \* history: listeners that answered the ping they were sent
  pinged     \* history: listeners the current round is done with

feedVars == <<conns, listObject, endpoint, gone, ponging, ponged, keeper, cast,
              events, rounds, owed, heard, shifted, answered, pinged>>
castVars   == <<cast, events, owed, heard>>
keeperVars == <<keeper, rounds, answered, pinged>>

NoOne    == 0
NoKeeper == [at |-> "none", todo |-> <<>>, waits |-> FALSE, dead |-> {}]
Asleep   == [NoKeeper EXCEPT !.at = "asleep"]
NoCast   == [at |-> 0, list |-> 0, dead |-> {}]

-----------------------------------------------------------------------------
(* Bugs the code could have; each stands in for a definition below.        *)

StopsAtDead(s)     == IF s \in gone THEN 1 + Len(conns) ELSE cast.at + 1
KeepsEvent(s)      == ponged' = ponged

-----------------------------------------------------------------------------

FeedInit ==
  /\ conns = <<>> /\ listObject = 0 /\ endpoint = [s \in Sockets |-> "none"]
  /\ gone = {} /\ ponging = {} /\ ponged = {} /\ keeper = NoKeeper /\ cast = NoCast
  /\ events = 0 /\ rounds = 0 /\ owed = {} /\ heard = {} /\ shifted = FALSE
  /\ answered = {} /\ pinged = {}

\* disconnect: the task is cancelled with the last listener.
KeeperAfter(left) == IF left = <<>> THEN NoKeeper ELSE keeper

\* The list without the connections of S: the j-th of those that stay.
Staying(S) == {i \in 1 .. Len(conns) : conns[i] \notin S}
Rank(S, i) == Cardinality({k \in Staying(S) : k <= i})
LeftWithout(S) ==
  [j \in 1 .. Cardinality(Staying(S)) |-> conns[CHOOSE i \in Staying(S) : Rank(S, i) = j]]

ListAfter(left) == IF conns # <<>> /\ left = <<>> THEN listObject + 1 ELSE listObject

Passed(S) == \E i \in 1 .. Len(conns) : i < cast.at /\ conns[i] \in S

\* disconnect of every connection of S, one after the other without an await.
Disconnects(S) ==
  /\ conns' = LeftWithout(S) /\ listObject' = ListAfter(LeftWithout(S))
  /\ ponging' = ponging \ S
  /\ endpoint' = [s \in Sockets |-> IF s \in S /\ endpoint[s] = "listening"
                                     THEN "dropped" ELSE endpoint[s]]

\* What a broadcast under way makes of it.
LeaveUnderCast(S) ==
  /\ owed' = owed \ S
  /\ shifted' = (shifted \/ (cast.list = listObject /\ Passed(S)))

-----------------------------------------------------------------------------
(* ws_transfer and its connection.                                         *)

\* The session exists, the handshake is answered; the lowest unused number.
Accepts(s) ==
  /\ endpoint[s] = "none" /\ \A r \in Sockets : r < s => endpoint[r] # "none"
  /\ endpoint' = [endpoint EXCEPT ![s] = "accepted"]
  /\ UNCHANGED <<conns, listObject, gone, ponging, ponged, castVars, keeperVars, shifted>>

\* connect, after the await: the first listener starts the task.
Connects(s) ==
  /\ endpoint[s] = "accepted"
  /\ endpoint' = [endpoint EXCEPT ![s] = "listening"]
  /\ conns' = Append(conns, s) /\ ponging' = ponging \cup {s}
  /\ keeper' = IF conns = <<>> THEN Asleep ELSE keeper
  /\ UNCHANGED <<listObject, gone, ponged, castVars, rounds, answered, pinged, shifted>>

\* The window is closed, or the network is lost.
PeerLeaves(s) ==
  /\ endpoint[s] \notin {"none", "ended"} /\ s \notin gone
  /\ gone' = gone \cup {s}
  /\ UNCHANGED <<conns, listObject, endpoint, ponging, ponged, castVars, keeperVars, shifted>>

\* receive_json raises: a second disconnect of a dropped connection does nothing.
EndpointEnds(s) ==
  /\ endpoint[s] \in {"listening", "dropped"} /\ s \in gone
  /\ conns' = LeftWithout({s}) /\ listObject' = ListAfter(conns')
  /\ ponging' = ponging \ {s} /\ LeaveUnderCast({s})
  /\ keeper' = KeeperAfter(conns')
  /\ endpoint' = [endpoint EXCEPT ![s] = "ended"]
  /\ UNCHANGED <<gone, ponged, cast, events, heard, rounds, answered, pinged>>

\* signal_pong; a dropped connection is still read, and has no event any more.
PongArrives(s) ==
  /\ endpoint[s] \in {"listening", "dropped"} /\ s \notin gone
  /\ keeper.at = "pinging" /\ keeper.todo # <<>> /\ Head(keeper.todo) = s
  /\ s \in ponging /\ s \notin ponged
  /\ ponged' = ponged \cup {s} /\ answered' = answered \cup {s}
  /\ UNCHANGED <<conns, listObject, endpoint, gone, ponging, castVars, keeper,
                 rounds, pinged, shifted>>

-----------------------------------------------------------------------------
(* broadcast                                                               *)

CastBegins ==
  /\ cast = NoCast /\ events < LastEvent
  /\ events' = events + 1
  /\ cast' = [at |-> 1, list |-> listObject, dead |-> {}]
  /\ owed' = ToSet(conns) /\ heard' = {} /\ shifted' = FALSE
  /\ UNCHANGED <<conns, listObject, endpoint, gone, ponging, ponged, keeperVars>>

CastGoesOn == cast # NoCast /\ cast.list = listObject /\ cast.at <= Len(conns)

\* A send that raises does not end the walk.
NextIndex(s) == cast.at + 1

\* The next element of the list, at the index the iterator has reached.
CastSends ==
  /\ CastGoesOn
  /\ LET s == conns[cast.at]
     IN  /\ heard' = IF s \in gone THEN heard ELSE heard \cup {s}
         /\ cast' = [cast EXCEPT
              !.at = NextIndex(s),
              !.dead = IF s \in gone THEN @ \cup {s} ELSE @]
  /\ UNCHANGED <<conns, listObject, endpoint, gone, ponging, ponged, keeperVars,
                 events, owed, shifted>>

CastEnds ==
  /\ cast # NoCast /\ ~CastGoesOn
  /\ Disconnects(cast.dead)
  /\ keeper' = KeeperAfter(conns')
  /\ cast' = NoCast /\ owed' = {} /\ heard' = {} /\ shifted' = FALSE
  /\ UNCHANGED <<gone, ponged, events, rounds, answered, pinged>>

-----------------------------------------------------------------------------
(* _keepalive_loop: a copy of the list, one listener after the other.      *)

KeeperWakes ==
  /\ keeper = Asleep /\ rounds < LastRound
  /\ rounds' = rounds + 1
  /\ keeper' = [Asleep EXCEPT !.at = "clearing", !.todo = conns]
  /\ answered' = {} /\ pinged' = {}
  /\ UNCHANGED <<conns, listObject, endpoint, gone, ponging, ponged, castVars, shifted>>

\* The event is cleared before the ping leaves, so that no answer is missed.
ClearsEvent(s) == ponged' = ponged \ ({s} \cap ponging)

KeeperClears ==
  /\ keeper.at = "clearing" /\ keeper.todo # <<>>
  /\ LET s == Head(keeper.todo)
     IN  /\ ClearsEvent(s)
         /\ answered' = answered \ {s}
         /\ keeper' = [keeper EXCEPT !.at = "pinging", !.waits = s \in ponging]
  /\ UNCHANGED <<conns, listObject, endpoint, gone, ponging, castVars, rounds, pinged, shifted>>

\* send_json raises, the answer is there, or KEEPALIVE_TIMEOUT has passed; a
\* listener without an event has left, and sending to it raises.
KeeperMovesOn(dead) ==
  /\ pinged' = IF keeper.waits THEN pinged \cup {Head(keeper.todo)} ELSE pinged
  /\ keeper' = [keeper EXCEPT !.at = "clearing", !.todo = Tail(@),
       !.dead = IF dead THEN @ \cup {Head(keeper.todo)} ELSE @]
  /\ UNCHANGED <<conns, listObject, endpoint, gone, ponging, ponged, castVars,
                 rounds, answered, shifted>>

Waiting == keeper.at = "pinging" /\ keeper.waits

KeeperCannotSend == keeper.at = "pinging" /\ Head(keeper.todo) \in gone /\ KeeperMovesOn(TRUE)
KeeperIsAnswered == Waiting /\ Head(keeper.todo) \in ponged /\ KeeperMovesOn(FALSE)
KeeperTimesOut   == Waiting /\ Head(keeper.todo) \notin ponged /\ KeeperMovesOn(TRUE)

\* The dropped connections stay open; without listeners the task cancels itself.
KeeperEndsRound ==
  /\ keeper.at = "clearing" /\ keeper.todo = <<>>
  /\ Disconnects(keeper.dead) /\ LeaveUnderCast(keeper.dead)
  /\ keeper' = IF conns' = <<>> THEN NoKeeper ELSE Asleep
  /\ answered' = {} /\ pinged' = {}
  /\ UNCHANGED <<gone, ponged, cast, events, heard, rounds>>

-----------------------------------------------------------------------------

FeedNext ==
  \/ \E s \in Sockets :
       \/ Accepts(s) \/ Connects(s) \/ PeerLeaves(s) \/ EndpointEnds(s) \/ PongArrives(s)
  \/ CastBegins \/ CastSends \/ CastEnds
  \/ KeeperWakes \/ KeeperClears \/ KeeperCannotSend
  \/ KeeperIsAnswered \/ KeeperTimesOut \/ KeeperEndsRound

FeedSpec == FeedInit /\ [][FeedNext]_feedVars

-----------------------------------------------------------------------------
(* Properties                                                              *)

(* A broadcast reaches every listener that was in the list from its begin  *)
(* to its end and whose peer is there (websocket.py:78, "all listeners of  *)
(* a session"), however many of the others turn out dead.  It does not     *)
(* when one that the walk has passed leaves the list meanwhile: the rest   *)
(* moves down by one and the walk skips a listener.                        *)
ListenersHear ==
  cast # NoCast /\ ~CastGoesOn /\ ~shifted => owed \subseteq heard \cup gone

(* Whether a listener is dropped is decided by its own answer to the ping  *)
(* of this round: an answer on time keeps it, even one that is there       *)
(* before the task starts to wait, and silence loses it even when an       *)
(* earlier round was answered.                                             *)
PongDecides == keeper.at \notin {"none", "asleep"} =>
  /\ keeper.dead \cap answered \subseteq gone
  /\ pinged \ keeper.dead \subseteq answered
=============================================================================
