---------------------------- MODULE Announcements ----------------------------
(***************************************************************************)
(* Announcements and maintenance windows (routes/admin.py, the forms of    *)
(* routes/admin_ui.py, db.expire_ended_maintenance), composed with the     *)
(* subscribers they are broadcast to.  The signed command line requests    *)
(* and the forms of the panel do the same to the tables.                   *)
(*                                                                         *)
(* Every statement commits on its own.  A handler stores, then broadcasts; *)
(* a crash after the store leaves what is stored, and a crash between two  *)
(* statements of one handler leaves half of it.                            *)
(***************************************************************************)
EXTENDS Subscribers

CONSTANTS
  MaxAnnouncements,  \* bound: announcements that are ever made
  MaxTime,           \* bound: the last moment
  Windows            \* bound: the windows a maintenance may be given

Never == 0                    \* NULL in a column that holds a time
Moments == 1..MaxTime
NoWindow == [starts |-> Never, ends |-> Never]

\* _normalize_window: either end may be missing, and it ends after it starts.
AWindow(w) ==
  /\ w \in [starts : {Never} \cup Moments, ends : {Never} \cup Moments]
  /\ w.starts # Never /\ w.ends # Never => w.ends > w.starts

ASSUME AnnouncementsAssumption ==
  /\ MaxAnnouncements \in Nat /\ MaxTime \in Nat \ {0}
  /\ NoWindow \in Windows
  /\ \A w \in Windows : AWindow(w)

VARIABLES
  now,            \* the time
  announcements   \* the table announcements, by id; None where there is no row

vars == <<now, announcements, subsVars>>

Ids == 1..MaxAnnouncements
None == [kind |-> "none"]

\* "going on" stands for investigating, identified and monitoring.
Statuses == {"going on", "resolved"}

\* Of the updates of an announcement only one thing is kept: whether there is
\* one that says it is resolved.
Announcement ==
  [kind : {"maintenance", "incident"}, window : Windows,
   resolved_at : {Never} \cup Moments, told : BOOLEAN]

Stored == {a \in Ids : announcements[a] # None}
Open == {a \in Stored : announcements[a].resolved_at = Never}

\* Types of the tables; only a maintenance has a window.
TypeOK ==
  /\ SubscribersOK
  /\ now \in Moments
  /\ \A a \in Ids : announcements[a] \in Announcement \cup {None}
  /\ \A a \in Stored : announcements[a].kind = "incident" => announcements[a].window = NoWindow

Init ==
  /\ SubscribersInit
  /\ now = 1
  /\ announcements = [a \in Ids |-> None]

-----------------------------------------------------------------------------
\* announce and announce-form: store, then broadcast.
Announce(a, kind, window) ==
  /\ announcements[a] = None
  /\ kind = "incident" => window = NoWindow
  /\ announcements' = [announcements EXCEPT ![a] =
       [kind |-> kind, window |-> window, resolved_at |-> Never, told |-> FALSE]]
  /\ Broadcast
  /\ UNCHANGED now

\* announce/{id}/update on an announcement that is not resolved.
Update(a, status) ==
  /\ a \in Open
  /\ announcements' = [announcements EXCEPT
       ![a].told = @ \/ status = "resolved",
       ![a].resolved_at = IF status = "resolved" THEN now ELSE @]
  /\ Broadcast
  /\ UNCHANGED now

\* announce/{id}/resolve and resolve-form.
Resolve(a) ==
  /\ a \in Open
  /\ announcements' = [announcements EXCEPT
       ![a].resolved_at = now, ![a].told = TRUE]
  /\ Broadcast
  /\ UNCHANGED now

\* edit-form: a correction of an open announcement, broadcast to nobody.
Edit(a, window) ==
  /\ a \in Open
  /\ announcements[a].kind = "maintenance"
  /\ announcements' = [announcements EXCEPT ![a].window = window]
  /\ UNCHANGED <<now, subsVars>>

\* delete-form: a maintenance that has not started is cancelled.
Delete(a) ==
  /\ a \in Open
  /\ announcements[a].kind = "maintenance"
  /\ announcements[a].window.starts > now
  /\ announcements' = [announcements EXCEPT ![a] = None]
  /\ UNCHANGED <<now, subsVars>>

-----------------------------------------------------------------------------
WindowOver(a) ==
  /\ a \in Open
  /\ announcements[a].kind = "maintenance"
  /\ announcements[a].window.ends # Never
  /\ announcements[a].window.ends < now

FaultyExpires(a) == WindowOver(a) /\ announcements[a].window.starts # Never
CarelessExpires(a) ==
  /\ a \in Stored
  /\ announcements[a].window.ends \notin {Never} \cup now..MaxTime
Expires(a) == WindowOver(a)

\* expire_ended_maintenance, called by every cycle of the prober: resolved as
\* of the end of the window, without an update and without a broadcast.
Cycle ==
  /\ announcements' = [a \in Ids |->
       IF Expires(a) THEN [announcements[a] EXCEPT !.resolved_at = announcements[a].window.ends]
                     ELSE announcements[a]]
  /\ UNCHANGED <<now, subsVars>>

Tick ==
  /\ now < MaxTime
  /\ now' = now + 1
  /\ UNCHANGED <<announcements, subsVars>>

\* The process dies between two statements: an update that says resolved is
\* there and the announcement is still open, or it is resolved and no update
\* says so.
CrashInUpdate(a) ==
  /\ a \in Open
  /\ \/ announcements' = [announcements EXCEPT ![a].told = TRUE]
     \/ announcements' = [announcements EXCEPT ![a].resolved_at = now]
  /\ Restarted
  /\ UNCHANGED <<now, subscribers, issued, broadcasts, refusals>>

\* It dies at any other point.
Crash ==
  /\ Restarted
  /\ UNCHANGED <<now, announcements, subscribers, issued, broadcasts, refusals>>

Next ==
  \/ \E a \in Ids, kind \in {"maintenance", "incident"}, w \in Windows : Announce(a, kind, w)
  \/ \E a \in Ids : \/ \E status \in Statuses : Update(a, status)
                    \/ Resolve(a)
                    \/ \E w \in Windows : Edit(a, w)
                    \/ Delete(a)
                    \/ CrashInUpdate(a)
  \/ Cycle
  \/ Tick
  \/ Crash
  \/ SubscribersNext /\ UNCHANGED <<now, announcements>>

\* The prober's loop keeps making cycles, whatever one of them raises; a
\* message has a timeout of eight seconds and a waiting one takes the slot
\* that becomes free.  Nobody has to subscribe, announce or resolve.
Fairness ==
  /\ WF_vars(Cycle)
  /\ WF_vars(Deliver /\ UNCHANGED <<now, announcements>>)

Spec == Init /\ [][Next]_vars /\ Fairness

-----------------------------------------------------------------------------
\* A subscriber disappears only because its owner left, its own test message
\* failed, or Discord refused its webhook for good or MaxFailures times in a
\* row: a late answer, a crash or the test of an earlier subscription never
\* costs it its place (subscribers.py:62-77, routes/subscribe.py:34).
PrunedOnEvidence ==
  [][\A s \in subscribers :
       \/ \E r \in subscribers' : r.token = s.token
       \/ UNCHANGED memory
       \/ [url |-> s.url, token |-> s.token] \in tests \ tests'
       \/ refusals'[s.url] >= MaxFailures]_vars

\* What is resolved stays as it was: not reopened, moved, added to, removed
\* or resolved again by the command line, the panel or the expiry of its
\* window, whichever comes second (routes/admin.py:158, 194,
\* routes/admin_ui.py:370, 403, db.py:294).
ResolvedIsFinal ==
  [][\A a \in Stored : announcements[a].resolved_at # Never =>
       announcements'[a] = announcements[a]]_vars

\* A maintenance whose window has ended does not stay on the page, also when
\* the process dies again and again (scheduler.py:367).
WindowsEnd == \A a \in Ids : WindowOver(a) ~> ~WindowOver(a)

\* Every message of a broadcast gets its turn and its answer, however few
\* slots there are and whatever the answers are (subscribers.py:133-148).
BroadcastsEnd ==
  \A b \in 1..MaxBroadcasts :
    (\E d \in deliveries : d.broadcast = b) ~> ~(\E d \in deliveries : d.broadcast = b)

\* What the page shown after an unsubscription says (routes/subscribe.py:70):
\* that webhook will no longer receive status updates.
UnsubscribedIsSilent ==
  [][\A d \in deliveries : [d EXCEPT !.out = TRUE] \in deliveries' \ deliveries
                            => \E s \in subscribers : s.token = d.token]_vars
=============================================================================
