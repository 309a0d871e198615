---------------------------- MODULE AdminAccounts ----------------------------
(***************************************************************************)
(* The accounts of the admin panel (routes/admin_ui.py, admin_auth.py):    *)
(* the bootstrap of an owner, invitations, setup links, sign-in with a     *)
(* code of the current time step, the lock after wrong attempts, sessions, *)
(* reset and deletion.  No handler awaits anything between its first read  *)
(* and its last write, so each is one step.                                *)
(*                                                                         *)
(* A unit of time is one step of the codes.  Time starts at 2, so that 0   *)
(* lies before every moment and stands for NULL.  A link, a password or a  *)
(* secret is only what can be done with it: an attempt with another one is *)
(* refused and changes nothing but the count of wrong attempts.            *)
(*                                                                         *)
(* Definitions named Faulty... are plausible mistakes; nothing uses them.  *)
(***************************************************************************)
EXTENDS Naturals, Sequences

CONSTANTS
  Names,      \* user names, as compared without case
  Bootstrap,  \* ADMIN_BOOTSTRAP_TOKEN is configured
  Window,     \* TOTP_WINDOW
  MaxFails,   \* MAX_FAILS
  Lock,       \* LOCK_MINUTES
  LinkTTL,    \* SETUP_TTL_DAYS
  SessionTTL, \* SESSION_TTL
  MaxId,      \* bound: accounts ever made
  MaxTime     \* bound: the last moment

ASSUME AdminAccountsAssumption ==
  /\ Bootstrap \in BOOLEAN
  /\ {Window, Lock, LinkTTL, SessionTTL} \subseteq Nat
  /\ {MaxFails, MaxId} \subseteq Nat \ {0}
  /\ MaxTime \in Nat /\ MaxTime >= 2 /\ Window <= 1

Ids == 1..MaxId

VARIABLES
  now,
  users,     \* admin_users by id; ids are never used again
  created,   \* ids given out so far
  sessions,  \* when the newest session cookie of an account ends
  accepted,  \* the codes accepted for an account's present secret, in turn
  wrong      \* wrong attempts since the last good one, and when the last was

vars == <<now, users, created, sessions, accepted, wrong>>

NoUser == [role |-> "none"]
IsUser(u) == users[u] # NoUser
Active(u) == IsUser(u) /\ users[u].active

Init ==
  /\ now = 2
  /\ users = [u \in Ids |-> NoUser]
  /\ created = 0
  /\ sessions = [u \in Ids |-> 0]
  /\ accepted = [u \in Ids |-> <<>>]
  /\ wrong = [u \in Ids |-> [count |-> 0, last |-> 0]]

Taken(name) == \E u \in Ids : IsUser(u) /\ users[u].name = name
OwnerExists == \E u \in Ids : Active(u) /\ users[u].role = "owner"
SignedIn(u) == Active(u) /\ sessions[u] >= now
OwnerSignedIn(u) == SignedIn(u) /\ users[u].role = "owner"

\* verify_totp: the steps of codes that are accepted now, none up to `last`.
ValidSteps(last) == {s \in (now - Window)..(now + Window) : s > last}

-----------------------------------------------------------------------------
NoWrong(u) == wrong' = [wrong EXCEPT ![u] = [count |-> 0, last |-> 0]]

\* The first owner, or the next one when no active owner is left.
BootstrapOwner(name) ==
  /\ Bootstrap /\ ~OwnerExists
  /\ ~Taken(name)
  /\ created < MaxId
  /\ created' = created + 1
  /\ \E step \in ValidSteps(0) :
       /\ users' = [users EXCEPT ![created'] =
            [name |-> name, role |-> "owner", active |-> TRUE, secret |-> TRUE,
             link |-> 0, fails |-> 0, locked |-> 0, step |-> step]]
       /\ accepted' = [accepted EXCEPT ![created'] = <<step>>]
  /\ UNCHANGED <<now, sessions, wrong>>

Invite(name) ==
  /\ \E me \in Ids : OwnerSignedIn(me)
  /\ ~Taken(name)
  /\ created < MaxId
  /\ created' = created + 1
  /\ users' = [users EXCEPT ![created'] =
       [name |-> name, role |-> "staff", active |-> FALSE, secret |-> FALSE,
        link |-> now + LinkTTL, fails |-> 0, locked |-> 0, step |-> 0]]
  /\ UNCHANGED <<now, sessions, accepted, wrong>>

\* An invited or reset account is set up with a secret of its own.
FaultyEnrolled(user, step) ==
  [user EXCEPT !.active = TRUE, !.secret = TRUE, !.link = 0, !.fails = 0, !.locked = 0]
Enrolled(user, step) ==
  [user EXCEPT !.active = TRUE, !.secret = TRUE, !.link = 0, !.fails = 0, !.locked = 0,
               !.step = step]

Setup(u) ==
  /\ IsUser(u) /\ ~users[u].active
  /\ users[u].link > now
  /\ \E step \in ValidSteps(0) :
       /\ users' = [users EXCEPT ![u] = Enrolled(@, step)]
       /\ accepted' = [accepted EXCEPT ![u] = <<step>>]
  /\ NoWrong(u)
  /\ UNCHANGED <<now, created, sessions>>

Locked(u) == users[u].locked > now

SignIn(u) ==
  /\ Active(u) /\ ~Locked(u)
  /\ \E step \in ValidSteps(users[u].step) :
       /\ users' = [users EXCEPT ![u].fails = 0, ![u].locked = 0, ![u].step = step]
       /\ accepted' = [accepted EXCEPT ![u] = Append(@, step)]
  /\ sessions' = [sessions EXCEPT ![u] = now + SessionTTL]
  /\ NoWrong(u)
  /\ UNCHANGED <<now, created>>

FaultyLockFrom(fails) == IF fails = MaxFails THEN now + Lock ELSE 0
LockFrom(fails) == IF fails >= MaxFails THEN now + Lock ELSE 0

\* A wrong password or a wrong, old or used code.  Attempts on a locked
\* account are not looked at.
FailSignIn(u) ==
  /\ Active(u) /\ ~Locked(u)
  /\ users[u].fails <= MaxFails \* bound
  /\ users' = [users EXCEPT ![u].fails = @ + 1, ![u].locked = LockFrom(users[u].fails + 1)]
  /\ wrong' = [wrong EXCEPT ![u] = [count |-> @.count + 1, last |-> now]]
  /\ UNCHANGED <<now, created, sessions, accepted>>

SignOut(u) ==
  /\ sessions[u] # 0
  /\ sessions' = [sessions EXCEPT ![u] = 0]
  /\ UNCHANGED <<now, users, created, accepted, wrong>>

\* A new link instead of the credentials; last_totp_step stays.
Cleared(user) ==
  [user EXCEPT !.active = FALSE, !.secret = FALSE, !.link = now + LinkTTL,
               !.fails = 0, !.locked = 0]

Reset(u) ==
  /\ \E me \in Ids : OwnerSignedIn(me)
  /\ IsUser(u)
  /\ users' = [users EXCEPT ![u] = Cleared(@)]
  /\ accepted' = [accepted EXCEPT ![u] = <<>>]
  /\ NoWrong(u)
  /\ UNCHANGED <<now, created, sessions>>

\* Not oneself, and not an owner without another active one.
Delete(u) ==
  /\ \E me \in Ids \ {u} : OwnerSignedIn(me)
  /\ IsUser(u)
  /\ users[u].role = "owner" => \E v \in Ids \ {u} : Active(v) /\ users[v].role = "owner"
  /\ users' = [users EXCEPT ![u] = NoUser]
  /\ accepted' = [accepted EXCEPT ![u] = <<>>]
  /\ NoWrong(u)
  /\ UNCHANGED <<now, created, sessions>>

Tick ==
  /\ now < MaxTime
  /\ now' = now + 1
  /\ UNCHANGED <<users, created, sessions, accepted, wrong>>

Next ==
  \/ \E name \in Names : BootstrapOwner(name) \/ Invite(name)
  \/ \E u \in Ids :
       \/ Setup(u) \/ SignIn(u) \/ FailSignIn(u) \/ SignOut(u)
       \/ Reset(u) \/ Delete(u)
  \/ Tick

Spec == Init /\ [][Next]_vars

-----------------------------------------------------------------------------
(***************************************************************************)
(* Properties.                                                             *)
(***************************************************************************)
User == [name : Names, role : {"owner", "staff"}, active : BOOLEAN, secret : BOOLEAN,
         link : Nat, fails : Nat, locked : Nat, step : Nat]

\* Type invariant, with the shape of an account: it is active exactly when it
\* has credentials and has a setup link exactly when it has none; two
\* accounts never share a name (db.py:149, admin_ui.py:228-231, 262-264).
TypeOK ==
  /\ now \in 2..MaxTime /\ created \in 0..MaxId
  /\ users \in [Ids -> User \cup {NoUser}]
  /\ \A u \in Ids : IsUser(u) =>
       /\ u <= created
       /\ users[u].active <=> users[u].secret
       /\ users[u].active <=> users[u].link = 0
       /\ \A v \in Ids : (IsUser(v) /\ users[u].name = users[v].name) => u = v
  /\ sessions \in [Ids -> Nat] /\ accepted \in [Ids -> Seq(Nat)]
  /\ wrong \in [Ids -> [count : Nat, last : Nat]]

\* A code serves once: whoever signs in does it with a code later than every
\* one the account's present secret was set up or signed in with, across
\* clock skew, lock and reset (admin_auth.py:68-76).  And once there were
\* MaxFails wrong attempts in a row, no attempt at all is looked at before
\* Lock has passed since the last, also after an earlier lock ran out
\* (admin_ui.py:143-153).
SignsIn(u) == Active(u) /\ Len(accepted'[u]) > Len(accepted[u])
LooksAt(u) == SignsIn(u) \/ wrong'[u].count > wrong[u].count
AttemptsGuarded ==
  [][\A u \in Ids :
       /\ SignsIn(u) => \A i \in DOMAIN accepted[u] : accepted'[u][Len(accepted'[u])] > accepted[u][i]
       /\ (LooksAt(u) /\ wrong[u].count >= MaxFails) => now >= wrong[u].last + Lock]_vars
=============================================================================
