---------------------------- MODULE UpdateJourney ----------------------------
(***************************************************************************)
(* What the update coordinator promises an operator, without the files,    *)
(* commits, locks and retries it uses to keep it:                          *)
(*                                                                         *)
(*   - an installation leaves the release it is at only along the path     *)
(*     that was planned from there, one release after the other;           *)
(*   - a release is ticked off only while it is the one deployed;          *)
(*   - until the whole path is ticked off there is a way back, to the      *)
(*     release the journey began with, and no other journey begins.        *)
(*                                                                         *)
(* Crashes, failed hops and new runs are not seen here: they neither move  *)
(* the installation nor change what is left of its way.                    *)
(* UpdateCoordinator implements this specification.                        *)
(***************************************************************************)
EXTENDS Sequences

CONSTANTS Versions, Path(_, _), FirstVersion, NoPath

VARIABLES at,    \* the release that is deployed
          home,  \* the release a restored snapshot would bring back
          left   \* the releases of the path that are not ticked off

jvars == <<at, home, left>>

Init == at = FirstVersion /\ home = FirstVersion /\ left = <<>>

\* A snapshot is complete, and the path is planned from where it was taken.
Depart == /\ left = <<>> /\ home = at
          /\ \E t \in Versions : Path(at, t) # NoPath /\ left' = Path(at, t)
          /\ UNCHANGED <<at, home>>

Move == /\ left # <<>> /\ at' = Head(left)
        /\ UNCHANGED <<home, left>>

TickOff == /\ left # <<>> /\ at = Head(left)
           /\ left' = Tail(left)
           /\ UNCHANGED <<at, home>>

\* The path is complete: from now on there is no way back.
Settle == /\ left = <<>> /\ home' = at
          /\ UNCHANGED <<at, left>>

Next == Depart \/ Move \/ TickOff \/ Settle

Spec == Init /\ [][Next]_jvars
=============================================================================
