------------------------------- MODULE Jukebox -------------------------------
(***************************************************************************)
(* What the commands of discord-bot promise of a guild's music: songs wait *)
(* in the order they were queued, at most Capacity of them, and are on one *)
(* at a time.  The only ways out of the line are a song's turn, which is   *)
(* the first one's when nothing is on, and a stop, which clears the line   *)
(* from its front.  A song that is on ends at any time: it runs out, fails *)
(* to start, is skipped or stopped, or the bot leaves.                     *)
(***************************************************************************)
EXTENDS Integers, Sequences

CONSTANTS Songs, NoSong, Capacity

VARIABLES
    waiting,    \* the songs in line, first to play first
    on          \* the song whose turn it is

Init == waiting = <<>> /\ on = NoSong

Add(s) ==
    /\ Len(waiting) < Capacity
    /\ waiting' = Append(waiting, s) /\ UNCHANGED on

Begin ==
    /\ on = NoSong /\ waiting # <<>>
    /\ on' = Head(waiting) /\ waiting' = Tail(waiting)

End ==
    /\ on # NoSong
    /\ on' = NoSong /\ UNCHANGED waiting

Clear ==
    /\ waiting # <<>>
    /\ waiting' = Tail(waiting) /\ UNCHANGED on

Next == (\E s \in Songs : Add(s)) \/ Begin \/ End \/ Clear

Spec == Init /\ [][Next]_<<waiting, on>>
=============================================================================
