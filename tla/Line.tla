---------------------------------- MODULE Line ---------------------------------
(***************************************************************************)
(* What the connection to the server promises its users, whatever locks    *)
(* bring it about: they take turns.  A turn is a fixed number of pieces,   *)
(* and until it has had all of them nobody else puts anything on the line, *)
(* takes anything from it, or begins a turn.  The far end reads, writes    *)
(* and hangs up when it likes.                                             *)
(***************************************************************************)
EXTENDS Integers

CONSTANTS
  Users,
  Talkers,            \* the users that write; the others read
  Pieces,             \* how many pieces a turn of each user has
  Room                \* pieces the line holds

VARIABLES
  inside,             \* the users whose turn it is
  left,               \* pieces this turn still has
  room,               \* pieces the line can still take
  unread,             \* how much the far end wrote and nobody has read
  peer,               \* is the far end there?
  up                  \* FALSE once everything has stopped

vars == <<inside, left, room, unread, peer, up>>

Init ==
  /\ inside = {} /\ left = 0
  /\ room = Room /\ unread = 0
  /\ peer = "open"
  /\ up = TRUE

Begin(user) ==
  /\ inside = {}
  /\ inside' = {user}
  /\ left' = Pieces[user]
  /\ UNCHANGED <<room, unread, peer, up>>

\* A piece of the turn; the last one ends it.
Piece(user) ==
  /\ inside = {user}
  /\ left' = left - 1
  /\ inside' = IF left = 1 THEN {} ELSE inside

\* With the far end gone a piece is lost, and may be the end of everything.
Write(user) ==
  /\ user \in Talkers
  /\ Piece(user)
  /\ \/ peer = "open" /\ room > 0 /\ room' = room - 1 /\ up' = up
     \/ peer = "closed" /\ room' = room /\ up' \in {up, FALSE}
  /\ UNCHANGED <<unread, peer>>

Read(user) ==
  /\ user \notin Talkers
  /\ Piece(user)
  /\ unread' \in 0..unread
  /\ UNCHANGED <<room, peer, up>>

-----------------------------------------------------------------------------
(* The far end.                                                            *)

Says ==
  /\ peer = "open"
  /\ unread' > unread
  /\ UNCHANGED <<inside, left, room, peer, up>>

Hears ==
  /\ peer = "open" /\ room < Room
  /\ room' = room + 1
  /\ UNCHANGED <<inside, left, unread, peer, up>>

HangsUp ==
  /\ peer' = "closed"
  /\ UNCHANGED <<inside, left, room, unread, up>>

Halt ==
  /\ up' = FALSE
  /\ UNCHANGED <<inside, left, room, unread, peer>>

Next ==
  /\ up
  /\ \/ \E user \in Users : Begin(user) \/ Write(user) \/ Read(user)
     \/ Says \/ Hears \/ HangsUp
     \/ Halt

Spec == Init /\ [][Next]_vars

=============================================================================
