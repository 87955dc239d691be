----------------------------- MODULE MCWatchTime -----------------------------
(* A message of each kind, to the east and to the west and with a half     *)
(* hour on either side; one of them sets the clock back.                   *)
EXTENDS WatchTime
Message(kind, secs, half) == [kind |-> kind, secs |-> secs, half |-> half]
MCMessages == {Message("full", 100, 4), Message("full", 0, -11),
               Message("full", 100, 11),
               Message("zoneless", 100, 0), Message("garbled", 0, 0),
               Message("cut", 3, 0), Message("far", 100, 0),
               Message("late", 0, -4)}
MCGarbage == {-1, 3}
MCSteps == {61501}
=============================================================================
