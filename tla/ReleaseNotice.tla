---------------------------- MODULE ReleaseNotice ----------------------------
(***************************************************************************)
(* What the status page promises about "a release is going out", without   *)
(* saying how it is stored.  One notice at most is up.  It goes up when a  *)
(* release is announced, names that release, and comes down when that      *)
(* release is reported finished, when another one is announced, or by      *)
(* itself when its time runs out.  Module Releases implements this with a  *)
(* log of releases (ingest.py, store_release_event and current_release).   *)
(***************************************************************************)
EXTENDS Integers

CONSTANTS
  Versions,           \* the releases the pipeline can announce
  NoVersion,          \* "no notice is up"
  MinLength,          \* shortest time one announcement keeps the notice up
  MaxLength           \* longest time one announcement keeps the notice up

VARIABLES
  now,                \* the time
  shown,              \* the release the notice names, or NoVersion
  until               \* when the notice comes down by itself, 0 when none is up

vars == <<now, shown, until>>

Init ==
  /\ now \in Nat
  /\ shown = NoVersion
  /\ until = 0

\* An announcement puts the notice up for v, in place of any other.  One for
\* the release already shown can only move the end of the notice further away.
Announce(v, end) ==
  /\ shown' = v
  /\ until' = IF shown = v /\ until > end THEN until ELSE end
  /\ UNCHANGED now

\* The release the notice names is over.
Withdraw ==
  /\ shown # NoVersion
  /\ shown' = NoVersion
  /\ until' = 0
  /\ UNCHANGED now

\* Time passes, and the notice comes down by itself at the end of its time.
Tick ==
  /\ now' = now + 1
  /\ \/ /\ until > now + 1
        /\ UNCHANGED <<shown, until>>
     \/ /\ until <= now + 1
        /\ shown' = NoVersion
        /\ until' = 0

Next ==
  \/ \E v \in Versions, end \in (now + MinLength)..(now + MaxLength) : Announce(v, end)
  \/ Withdraw
  \/ Tick

Spec == Init /\ [][Next]_vars
=============================================================================
