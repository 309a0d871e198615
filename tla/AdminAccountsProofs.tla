------------------------- MODULE AdminAccountsProofs -------------------------
(***************************************************************************)
(* What holds of AdminAccounts for any names, windows, locks and number of *)
(* accounts: their shape, that a code serves once, and that the lock after *)
(* MaxFails wrong attempts is never lost.                                  *)
(***************************************************************************)
EXTENDS AdminAccounts, TLAPS

USE AdminAccountsAssumption

\* What the columns of an account say about its attempts: its step is that of
\* the newest code, its count is the wrong attempts in a row, and from the
\* last allowed one on it is locked.
Remembers(u) ==
  /\ \A i \in DOMAIN accepted[u] : accepted[u][i] <= users[u].step
  /\ wrong[u].count = users[u].fails
  /\ users[u].fails >= MaxFails => users[u].locked >= wrong[u].last + Lock

AttemptsInv ==
  \A u \in Ids : IF IsUser(u) THEN Remembers(u)
                 ELSE accepted[u] = <<>> /\ wrong[u].count = 0

IInv == TypeOK /\ AttemptsInv

-----------------------------------------------------------------------------
(* Accounts.                                                               *)

\* The shape of a row, without its name.
WellFormed(user) ==
  /\ user \in User
  /\ user.active <=> user.secret
  /\ user.active <=> user.link = 0

LEMMA UserIsNone == NoUser \notin User
  BY DEF NoUser, User

LEMMA UserTypes ==
  ASSUME TypeOK, NEW u \in Ids, IsUser(u)
  PROVE  WellFormed(users[u])
  BY DEF TypeOK, IsUser, WellFormed

\* The codes accepted now are steps, and later than the last one.
LEMMA Steps ==
  ASSUME TypeOK, NEW last \in Nat, NEW step \in ValidSteps(last)
  PROVE  step \in Nat /\ step > last
  BY DEF ValidSteps, TypeOK

\* One account is written, and keeps its name or gets a free one.
LEMMA OneAccount ==
  ASSUME TypeOK, NEW u \in Ids, NEW user, WellFormed(user),
         users' = [users EXCEPT ![u] = user],
         created' \in 0..MaxId, created <= created', u <= created',
         \A v \in Ids \ {u} : IsUser(v) => users[v].name # user.name,
         now' = now,
         sessions' \in [Ids -> Nat], accepted' \in [Ids -> Seq(Nat)],
         wrong' \in [Ids -> [count : Nat, last : Nat]]
  PROVE  TypeOK' /\ IsUser(u)' /\ users'[u] = user
<1>1. users \in [Ids -> User \cup {NoUser}] /\ created \in 0..MaxId /\ now \in 2..MaxTime
  BY DEF TypeOK
<1>2. users' \in [Ids -> User \cup {NoUser}] /\ users'[u] = user
  BY <1>1 DEF WellFormed
<1>3. IsUser(u)'
  BY <1>2, UserIsNone DEF IsUser, WellFormed
<1>4. \A v \in Ids \ {u} : users'[v] = users[v]
  BY <1>1
<1>5. ASSUME NEW v \in Ids, IsUser(v)'
      PROVE  /\ v <= created'
             /\ users'[v].active <=> users'[v].secret
             /\ users'[v].active <=> users'[v].link = 0
             /\ \A w \in Ids : (IsUser(w)' /\ users'[w].name = users'[v].name) => v = w
  <2>1. CASE v = u
    BY <1>2, <1>4, <2>1 DEF WellFormed, IsUser
  <2>2. CASE v # u
    <3>1. users'[v] = users[v] /\ IsUser(v)
      BY <1>4, <1>5, <2>2 DEF IsUser
    <3>2. v <= created' /\ WellFormed(users[v])
      <4>1. v <= created
        BY <3>1 DEF TypeOK
      <4>2. WellFormed(users[v])
        BY <3>1, UserTypes
      <4>3. QED
        BY <1>1, <4>1, <4>2 DEF Ids
    <3>3. \A w \in Ids \ {u} : (IsUser(w)' /\ users'[w].name = users'[v].name) => v = w
      BY <1>4, <3>1 DEF TypeOK, IsUser
    <3>4. users'[u].name # users'[v].name
      BY <1>2, <2>2, <3>1
    <3>5. QED
      BY <3>1, <3>2, <3>3, <3>4 DEF WellFormed
  <2>3. QED
    BY <2>1, <2>2
<1>6. QED
  BY <1>1, <1>2, <1>3, <1>5 DEF TypeOK

\* What is remembered of the others does not change with it.
LEMMA OthersKept ==
  ASSUME AttemptsInv, TypeOK, NEW u \in Ids,
         \A v \in Ids \ {u} : /\ users'[v] = users[v] /\ accepted'[v] = accepted[v]
                              /\ wrong'[v] = wrong[v],
         IF IsUser(u)' THEN Remembers(u)' ELSE accepted'[u] = <<>> /\ wrong'[u].count = 0
  PROVE  AttemptsInv'
<1> SUFFICES ASSUME NEW v \in Ids
             PROVE  IF IsUser(v)' THEN Remembers(v)' ELSE accepted'[v] = <<>> /\ wrong'[v].count = 0
  BY DEF AttemptsInv
<1>1. CASE v = u
  BY <1>1
<1>2. CASE v # u
  BY <1>2 DEF AttemptsInv, IsUser, Remembers
<1>3. QED
  BY <1>1, <1>2

-----------------------------------------------------------------------------
(* Every action keeps the invariant.                                       *)

LEMMA InitInv == Init => IInv
<1> SUFFICES ASSUME Init PROVE IInv
  OBVIOUS
<1>1. \A u \in Ids : ~IsUser(u)
  BY DEF Init, IsUser
<1>2. <<>> \in Seq(Nat)
  OBVIOUS
<1>3. TypeOK
  BY <1>1, <1>2 DEF Init, TypeOK
<1>4. QED
  BY <1>1, <1>3 DEF Init, IInv, AttemptsInv

\* A fresh id has no account and no history.
LEMMA FreshId ==
  ASSUME IInv, created < MaxId, created' = created + 1
  PROVE  \E u \in Ids :
           /\ u = created' /\ created' \in 0..MaxId /\ created <= created' /\ u <= created'
           /\ ~IsUser(u) /\ accepted[u] = <<>> /\ wrong[u].count = 0
<1>1. created + 1 \in Ids /\ created + 1 \in 0..MaxId /\ created <= created + 1 /\ created \in Nat
  BY DEF IInv, TypeOK, Ids
<1>2. ~IsUser(created + 1)
  BY <1>1 DEF IInv, TypeOK
<1>3. accepted[created + 1] = <<>> /\ wrong[created + 1].count = 0
  BY <1>1, <1>2 DEF IInv, AttemptsInv
<1>4. QED
  BY <1>1, <1>2, <1>3

LEMMA BootstrapInv ==
  ASSUME IInv, NEW name \in Names, BootstrapOwner(name)
  PROVE  IInv'
<1>1. /\ created < MaxId /\ created' = created + 1 /\ ~Taken(name)
      /\ UNCHANGED <<now, sessions, wrong>>
  BY DEF BootstrapOwner
<1>2. PICK u \in Ids :
        /\ u = created' /\ created' \in 0..MaxId /\ created <= created' /\ u <= created'
        /\ ~IsUser(u) /\ accepted[u] = <<>> /\ wrong[u].count = 0
  BY <1>1, FreshId
<1>3. PICK step \in ValidSteps(0) :
        /\ users' = [users EXCEPT ![u] =
             [name |-> name, role |-> "owner", active |-> TRUE, secret |-> TRUE,
              link |-> 0, fails |-> 0, locked |-> 0, step |-> step]]
        /\ accepted' = [accepted EXCEPT ![u] = <<step>>]
  BY <1>2 DEF BootstrapOwner
<1> DEFINE user == [name |-> name, role |-> "owner", active |-> TRUE, secret |-> TRUE,
                    link |-> 0, fails |-> 0, locked |-> 0, step |-> step]
<1>4. step \in Nat
  BY Steps DEF IInv
<1>5. WellFormed(user) /\ user.name = name /\ user.step = step /\ user.fails = 0
  BY <1>4 DEF WellFormed, User
<1>6. accepted' \in [Ids -> Seq(Nat)] /\ accepted'[u] = <<step>> /\ wrong' = wrong
  BY <1>1, <1>3, <1>4 DEF IInv, TypeOK
<1> HIDE DEF user
<1>7. TypeOK' /\ IsUser(u)' /\ users'[u] = user
  <2>1. \A v \in Ids \ {u} : IsUser(v) => users[v].name # user.name
    BY <1>1, <1>5 DEF Taken
  <2>2. users' = [users EXCEPT ![u] = user]
    BY <1>3 DEF user
  <2>3. wrong' \in [Ids -> [count : Nat, last : Nat]] /\ sessions' \in [Ids -> Nat] /\ now' = now
    BY <1>1 DEF IInv, TypeOK
  <2>4. QED
    BY <1>2, <1>5, <1>6, <2>1, <2>2, <2>3, OneAccount DEF IInv
<1>8. Remembers(u)'
  <2>1. users'[u].fails = 0 /\ wrong'[u].count = 0 /\ users'[u].step = step
    BY <1>2, <1>5, <1>6, <1>7
  <2>2. \A i \in DOMAIN accepted'[u] : accepted'[u][i] <= users'[u].step
    BY <1>4, <1>6, <2>1
  <2>3. QED
    BY <2>1, <2>2 DEF Remembers
<1>9. \A v \in Ids \ {u} : /\ users'[v] = users[v] /\ accepted'[v] = accepted[v]
                           /\ wrong'[v] = wrong[v]
  BY <1>1, <1>3 DEF IInv, TypeOK
<1>10. QED
  BY <1>7, <1>8, <1>9, OthersKept DEF IInv

LEMMA InviteInv ==
  ASSUME IInv, NEW name \in Names, Invite(name)
  PROVE  IInv'
<1> DEFINE user == [name |-> name, role |-> "staff", active |-> FALSE, secret |-> FALSE,
                    link |-> now + LinkTTL, fails |-> 0, locked |-> 0, step |-> 0]
<1>1. WellFormed(user) /\ user.name = name /\ user.fails = 0
  <2>1. now + LinkTTL \in Nat /\ now + LinkTTL # 0
    BY DEF IInv, TypeOK
  <2>2. QED
    BY <2>1 DEF WellFormed, User
<1>2. /\ created < MaxId /\ created' = created + 1 /\ ~Taken(name)
      /\ now' = now /\ sessions' = sessions /\ accepted' = accepted /\ wrong' = wrong
      /\ users' = [users EXCEPT ![created'] = user]
  BY DEF Invite
<1> HIDE DEF user
<1>3. PICK u \in Ids :
        /\ u = created' /\ created' \in 0..MaxId /\ created <= created' /\ u <= created'
        /\ ~IsUser(u) /\ accepted[u] = <<>> /\ wrong[u].count = 0
  BY <1>2, FreshId
<1>4. TypeOK' /\ users'[u] = user /\ IsUser(u)'
  <2>1. \A v \in Ids \ {u} : IsUser(v) => users[v].name # user.name
    BY <1>1, <1>2 DEF Taken
  <2>2. /\ accepted' \in [Ids -> Seq(Nat)] /\ sessions' \in [Ids -> Nat]
        /\ wrong' \in [Ids -> [count : Nat, last : Nat]]
    BY <1>2 DEF IInv, TypeOK
  <2>3. QED
    BY <1>1, <1>2, <1>3, <2>1, <2>2, OneAccount DEF IInv
<1>5. Remembers(u)'
  BY <1>1, <1>2, <1>3, <1>4 DEF Remembers
<1>6. \A v \in Ids \ {u} : /\ users'[v] = users[v] /\ accepted'[v] = accepted[v]
                           /\ wrong'[v] = wrong[v]
  BY <1>2, <1>3 DEF IInv, TypeOK
<1>7. QED
  BY <1>4, <1>5, <1>6, OthersKept DEF IInv

\* Nothing but an account, its codes and its wrong attempts is written, and
\* what it remembers is true afterwards.
LEMMA Rewritten ==
  ASSUME IInv, NEW u \in Ids, IsUser(u),
         users' = [users EXCEPT ![u] = users'[u]],
         WellFormed(users'[u]), users'[u].name = users[u].name,
         accepted' = [accepted EXCEPT ![u] = accepted'[u]], accepted'[u] \in Seq(Nat),
         wrong' = [wrong EXCEPT ![u] = wrong'[u]], wrong'[u] \in [count : Nat, last : Nat],
         created' = created, now' = now, sessions' \in [Ids -> Nat],
         Remembers(u)'
  PROVE  IInv'
<1>1. PICK user : user = users'[u]
  OBVIOUS
<1>2. WellFormed(user) /\ users' = [users EXCEPT ![u] = user]
  BY <1>1
<1>3. \A v \in Ids \ {u} : IsUser(v) => users[v].name # user.name
  BY <1>1 DEF IInv, TypeOK
<1>4. created' \in 0..MaxId /\ created <= created' /\ u <= created'
  BY DEF IInv, TypeOK
<1>5. accepted' \in [Ids -> Seq(Nat)] /\ wrong' \in [Ids -> [count : Nat, last : Nat]]
  BY DEF IInv, TypeOK
<1>6. TypeOK' /\ IsUser(u)'
  BY <1>2, <1>3, <1>4, <1>5, OneAccount DEF IInv
<1>7. \A v \in Ids \ {u} : /\ users'[v] = users[v] /\ accepted'[v] = accepted[v]
                           /\ wrong'[v] = wrong[v]
  BY DEF IInv, TypeOK
<1>8. QED
  BY <1>6, <1>7, OthersKept DEF IInv

\* What an account may become: another row of the same name.
LEMMA WrittenTypes ==
  ASSUME IInv, NEW u \in Ids
  PROVE  /\ users \in [Ids -> User \cup {NoUser}] /\ now \in Nat /\ now # 0
         /\ accepted \in [Ids -> Seq(Nat)] /\ wrong \in [Ids -> [count : Nat, last : Nat]]
         /\ sessions \in [Ids -> Nat]
         /\ IsUser(u) => WellFormed(users[u]) /\ Remembers(u)
<1>1. IsUser(u) => WellFormed(users[u]) /\ Remembers(u)
  BY UserTypes DEF IInv, AttemptsInv
<1>2. QED
  BY <1>1 DEF IInv, TypeOK

\* No wrong attempt is counted.
Cleaned == [count |-> 0, last |-> 0]

LEMMA CleanedTypes == Cleaned \in [count : Nat, last : Nat] /\ Cleaned.count = 0
  BY DEF Cleaned

\* What each action makes of a row.
LEMMA EnrolledShape ==
  ASSUME NEW user, WellFormed(user), NEW step \in Nat
  PROVE  LET next == Enrolled(user, step)
         IN  /\ WellFormed(next) /\ next.name = user.name
             /\ next.step = step /\ next.fails = 0
<1> DEFINE next == Enrolled(user, step)
           open == [user EXCEPT !.active = TRUE, !.secret = TRUE, !.link = 0]
<1>1. user \in User
  BY DEF WellFormed
<1>2. open \in User
  BY <1>1 DEF User
<1>3. [open EXCEPT !.fails = 0, !.locked = 0, !.step = step] \in User
  BY <1>2 DEF User
<1>4. next = [open EXCEPT !.fails = 0, !.locked = 0, !.step = step]
  BY <1>1 DEF User, Enrolled
<1>5. /\ next.active /\ next.secret /\ next.link = 0
      /\ next.name = user.name /\ next.step = step /\ next.fails = 0
  BY <1>1 DEF User, Enrolled
<1>6. QED
  BY <1>3, <1>4, <1>5 DEF WellFormed

LetIn(user, step) == [user EXCEPT !.fails = 0, !.locked = 0, !.step = step]

LEMMA LetInShape ==
  ASSUME NEW user, WellFormed(user), NEW step \in Nat
  PROVE  LET next == LetIn(user, step)
         IN  /\ WellFormed(next) /\ next.name = user.name
             /\ next.step = step /\ next.fails = 0
<1> DEFINE next == LetIn(user, step)
<1>1. user \in User
  BY DEF WellFormed
<1>2. next \in User
  BY <1>1 DEF User, LetIn
<1>3. /\ next.name = user.name /\ next.step = step /\ next.fails = 0
      /\ next.active = user.active /\ next.secret = user.secret /\ next.link = user.link
  BY <1>1 DEF User, LetIn
<1>4. QED
  BY <1>2, <1>3 DEF WellFormed

LEMMA ClearedShape ==
  ASSUME NEW user, WellFormed(user), now \in Nat, now # 0
  PROVE  WellFormed(Cleared(user)) /\ Cleared(user).name = user.name /\ Cleared(user).fails = 0
<1>0. now + LinkTTL \in Nat /\ now + LinkTTL # 0
  OBVIOUS
<1>1. PICK link \in Nat : link = now + LinkTTL /\ link # 0
  BY <1>0
<1> DEFINE next == Cleared(user)
           shut == [user EXCEPT !.active = FALSE, !.secret = FALSE, !.link = link]
<1>2. user \in User
  BY DEF WellFormed
<1>3. shut \in User
  BY <1>2 DEF User
<1>4. [shut EXCEPT !.fails = 0, !.locked = 0] \in User
  BY <1>3 DEF User
<1>5. next = [shut EXCEPT !.fails = 0, !.locked = 0]
  BY <1>1, <1>2 DEF User, Cleared
<1>6. ~next.active /\ ~next.secret /\ next.link # 0 /\ next.name = user.name /\ next.fails = 0
  BY <1>1, <1>2 DEF User, Cleared
<1>7. QED
  BY <1>4, <1>5, <1>6 DEF WellFormed
\* Appending a code later than all before keeps them in bounds.
LEMMA AppendBound ==
  ASSUME NEW s \in Seq(Nat), NEW last \in Nat, NEW step \in Nat, last < step,
         \A i \in DOMAIN s : s[i] <= last
  PROVE  Append(s, step) \in Seq(Nat) /\ \A i \in DOMAIN Append(s, step) : Append(s, step)[i] <= step
<1>1. Append(s, step) \in Seq(Nat) /\ DOMAIN s = 1..Len(s) /\ Len(s) \in Nat
  OBVIOUS
<1>2. ASSUME NEW i \in DOMAIN Append(s, step)
      PROVE  Append(s, step)[i] <= step
  <2>1. i \in 1..(Len(s) + 1)
    OBVIOUS
  <2>2. CASE i = Len(s) + 1
    BY <2>2
  <2>3. CASE i \in 1..Len(s)
    <3>1. Append(s, step)[i] = s[i] /\ s[i] \in Nat /\ s[i] <= last
      BY <1>1, <2>3
    <3>2. QED
      BY <3>1
  <2>4. QED
    BY <1>1, <2>1, <2>2, <2>3
<1>3. QED
  BY <1>1, <1>2
LEMMA SetupInv ==
  ASSUME IInv, NEW u \in Ids, Setup(u)
  PROVE  IInv'
<1>1. PICK step \in ValidSteps(0) : /\ users' = [users EXCEPT ![u] = Enrolled(users[u], step)]
                                    /\ accepted' = [accepted EXCEPT ![u] = <<step>>]
  BY WrittenTypes DEF Setup
<1>2. /\ IsUser(u) /\ created' = created /\ now' = now /\ sessions' = sessions
      /\ wrong' = [wrong EXCEPT ![u] = Cleaned]
  BY DEF Setup, NoWrong, Cleaned
<1>3. step \in Nat
  BY Steps DEF IInv
<1>4. users'[u] = Enrolled(users[u], step) /\ accepted'[u] = <<step>> /\ wrong'[u] = Cleaned
  BY <1>1, <1>2, WrittenTypes
<1>5. /\ WellFormed(users'[u]) /\ users'[u].name = users[u].name
      /\ users'[u].step = step /\ users'[u].fails = 0
  <2>1. WellFormed(users[u])
    BY <1>2, WrittenTypes
  <2>2. PICK old : old = users[u]
    OBVIOUS
  <2>3. PICK new : new = Enrolled(old, step)
    OBVIOUS
  <2>4. WellFormed(new) /\ new.name = old.name /\ new.step = step /\ new.fails = 0
    BY <1>3, <2>1, <2>2, <2>3, EnrolledShape
  <2>5. users'[u] = new
    BY <1>4, <2>2, <2>3
  <2>6. QED
    BY <2>2, <2>4, <2>5
<1>6. accepted'[u] \in Seq(Nat) /\ \A i \in DOMAIN accepted'[u] : accepted'[u][i] <= step
  BY <1>3, <1>4
<1>7. Remembers(u)'
  BY <1>4, <1>5, <1>6, CleanedTypes DEF Remembers
<1>8. sessions' \in [Ids -> Nat]
  BY <1>2, WrittenTypes
<1>9. QED
  BY <1>1, <1>2, <1>4, <1>5, <1>6, <1>7, <1>8, CleanedTypes, Rewritten

LEMMA SignInInv ==
  ASSUME IInv, NEW u \in Ids, SignIn(u)
  PROVE  IInv'
<1>1. PICK step \in ValidSteps(users[u].step) :
        /\ users' = [users EXCEPT ![u].fails = 0, ![u].locked = 0, ![u].step = step]
        /\ accepted' = [accepted EXCEPT ![u] = Append(@, step)]
  BY DEF SignIn
<1>2. /\ IsUser(u) /\ created' = created /\ now' = now /\ sessions' = [sessions EXCEPT ![u] = now + SessionTTL]
      /\ wrong' = [wrong EXCEPT ![u] = Cleaned]
  BY DEF SignIn, Active, NoWrong, Cleaned
<1>3. WellFormed(users[u]) /\ Remembers(u)
  BY <1>2, WrittenTypes
<1>4. users[u].step \in Nat
  BY <1>3 DEF WellFormed, User
<1>5. step \in Nat /\ step > users[u].step
  BY <1>4, Steps DEF IInv
<1>6. /\ users'[u] = [users[u] EXCEPT !.fails = 0, !.locked = 0, !.step = step]
      /\ accepted'[u] = Append(accepted[u], step) /\ wrong'[u] = Cleaned
  BY <1>1, <1>2, WrittenTypes
<1>7. users' = [users EXCEPT ![u] = users'[u]] /\ accepted' = [accepted EXCEPT ![u] = accepted'[u]]
  BY <1>1, <1>6, WrittenTypes
<1>8. /\ WellFormed(users'[u]) /\ users'[u].name = users[u].name
      /\ users'[u].step = step /\ users'[u].fails = 0
  <2>1. PICK old : old = users[u]
    OBVIOUS
  <2>2. PICK new : new = LetIn(old, step)
    OBVIOUS
  <2>3. WellFormed(new) /\ new.name = old.name /\ new.step = step /\ new.fails = 0
    BY <1>3, <1>5, <2>1, <2>2, LetInShape
  <2>4. users'[u] = new
    BY <1>6, <2>1, <2>2 DEF LetIn
  <2>5. QED
    BY <2>1, <2>3, <2>4
<1>9. accepted'[u] \in Seq(Nat) /\ \A i \in DOMAIN accepted'[u] : accepted'[u][i] <= step
  <2>1. accepted[u] \in Seq(Nat)
    BY WrittenTypes
  <2>2. \A i \in DOMAIN accepted[u] : accepted[u][i] <= users[u].step
    BY <1>3 DEF Remembers
  <2>3. PICK codes \in Seq(Nat) : codes = accepted[u]
    BY <2>1
  <2>4. PICK last \in Nat : last = users[u].step
    BY <1>4
  <2>5. /\ Append(codes, step) \in Seq(Nat)
        /\ \A i \in DOMAIN Append(codes, step) : Append(codes, step)[i] <= step
    BY <1>5, <2>2, <2>3, <2>4, AppendBound
  <2>6. QED
    BY <1>6, <2>3, <2>5
<1>10. Remembers(u)'
  BY <1>6, <1>8, <1>9, CleanedTypes DEF Remembers
<1>11. sessions' \in [Ids -> Nat]
  BY <1>2, WrittenTypes
<1>12. QED
  BY <1>2, <1>6, <1>7, <1>8, <1>9, <1>10, <1>11, CleanedTypes, Rewritten

LEMMA FailInv ==
  ASSUME IInv, NEW u \in Ids, FailSignIn(u)
  PROVE  IInv'
<1>1. IsUser(u) /\ created' = created /\ now' = now /\ sessions' = sessions /\ accepted' = accepted
  BY DEF FailSignIn, Active
<1>2. WellFormed(users[u]) /\ Remembers(u)
  BY <1>1, WrittenTypes
<1>3. users[u].fails \in Nat /\ now \in Nat
  BY <1>2, WrittenTypes DEF WellFormed, User
<1>4. PICK n \in Nat : n = users[u].fails + 1
  BY <1>3
<1>5. PICK lock \in Nat : lock = LockFrom(n) /\ (n >= MaxFails => lock = now + Lock)
  BY <1>3 DEF LockFrom
<1>6. /\ users'[u] = [users[u] EXCEPT !.fails = n, !.locked = lock]
      /\ wrong'[u] = [count |-> wrong[u].count + 1, last |-> now]
      /\ accepted'[u] = accepted[u]
  BY <1>1, <1>4, <1>5, WrittenTypes DEF FailSignIn
<1>7. /\ users' = [users EXCEPT ![u] = users'[u]] /\ wrong' = [wrong EXCEPT ![u] = wrong'[u]]
      /\ accepted' = [accepted EXCEPT ![u] = accepted'[u]]
  BY <1>1, <1>6, WrittenTypes DEF FailSignIn
<1>8. /\ WellFormed(users'[u]) /\ users'[u].name = users[u].name /\ users'[u].step = users[u].step
      /\ users'[u].fails = n /\ users'[u].locked = lock
  BY <1>2, <1>6 DEF WellFormed, User
<1>9. wrong'[u] \in [count : Nat, last : Nat] /\ wrong'[u].count = n /\ wrong'[u].last = now
  BY <1>2, <1>3, <1>4, <1>6 DEF Remembers
<1>10. Remembers(u)'
  BY <1>2, <1>3, <1>5, <1>6, <1>8, <1>9 DEF Remembers
<1>11. sessions' \in [Ids -> Nat] /\ accepted'[u] \in Seq(Nat)
  BY <1>1, WrittenTypes
<1>12. QED
  BY <1>1, <1>7, <1>8, <1>9, <1>10, <1>11, Rewritten

LEMMA ResetInv ==
  ASSUME IInv, NEW u \in Ids, Reset(u)
  PROVE  IInv'
<1>1. /\ IsUser(u) /\ created' = created /\ now' = now /\ sessions' = sessions
      /\ accepted' = [accepted EXCEPT ![u] = <<>>]
      /\ wrong' = [wrong EXCEPT ![u] = Cleaned]
      /\ users' = [users EXCEPT ![u] = Cleared(@)]
  BY DEF Reset, NoWrong, Cleaned
<1>2. users'[u] = Cleared(users[u]) /\ accepted'[u] = <<>> /\ wrong'[u] = Cleaned
  BY <1>1, WrittenTypes
<1>3. /\ users' = [users EXCEPT ![u] = users'[u]] /\ wrong' = [wrong EXCEPT ![u] = wrong'[u]]
      /\ accepted' = [accepted EXCEPT ![u] = accepted'[u]]
  BY <1>1, <1>2, WrittenTypes
<1>4. WellFormed(users'[u]) /\ users'[u].name = users[u].name /\ users'[u].fails = 0
  <2>1. WellFormed(users[u]) /\ now \in Nat /\ now # 0
    BY <1>1, WrittenTypes
  <2>2. QED
    BY <1>2, <2>1, ClearedShape
<1>5. Remembers(u)'
  BY <1>2, <1>4, CleanedTypes DEF Remembers
<1>6. sessions' \in [Ids -> Nat] /\ accepted'[u] \in Seq(Nat)
  BY <1>1, <1>2, WrittenTypes
<1>7. QED
  BY <1>1, <1>2, <1>3, <1>4, <1>5, <1>6, CleanedTypes, Rewritten

LEMMA DeleteInv ==
  ASSUME IInv, NEW u \in Ids, Delete(u)
  PROVE  IInv'
<1>1. /\ created' = created /\ now' = now /\ sessions' = sessions
      /\ users' = [users EXCEPT ![u] = NoUser]
      /\ accepted' = [accepted EXCEPT ![u] = <<>>]
      /\ wrong' = [wrong EXCEPT ![u] = Cleaned]
  BY DEF Delete, NoWrong, Cleaned
<1>2. /\ ~IsUser(u)' /\ accepted'[u] = <<>> /\ wrong'[u].count = 0
      /\ \A v \in Ids \ {u} : /\ users'[v] = users[v] /\ accepted'[v] = accepted[v]
                              /\ wrong'[v] = wrong[v]
  BY <1>1 DEF IInv, TypeOK, IsUser, Cleaned
<1>3. TypeOK'
  <2>1. users' \in [Ids -> User \cup {NoUser}]
    BY <1>1 DEF IInv, TypeOK
  <2>2. accepted' \in [Ids -> Seq(Nat)] /\ wrong' \in [Ids -> [count : Nat, last : Nat]]
    <3>1. <<>> \in Seq(Nat) /\ Cleaned \in [count : Nat, last : Nat]
      BY DEF Cleaned
    <3>2. QED
      BY <1>1, <3>1 DEF IInv, TypeOK
  <2>3. ASSUME NEW v \in Ids, IsUser(v)'
        PROVE  /\ v <= created'
               /\ users'[v].active <=> users'[v].secret
               /\ users'[v].active <=> users'[v].link = 0
               /\ \A w \in Ids : (IsUser(w)' /\ users'[v].name = users'[w].name) => v = w
    <3>1. v # u /\ users'[v] = users[v] /\ IsUser(v)
      BY <1>2, <2>3 DEF IsUser
    <3>2. \A w \in Ids : IsUser(w)' => users'[w] = users[w] /\ IsUser(w)
      BY <1>2 DEF IsUser
    <3>3. QED
      BY <1>1, <3>1, <3>2 DEF IInv, TypeOK
  <2>4. QED
    BY <1>1, <2>1, <2>2, <2>3 DEF IInv, TypeOK
<1>4. QED
  BY <1>2, <1>3, OthersKept DEF IInv

LEMMA NextInv == IInv /\ [Next]_vars => IInv'
<1> SUFFICES ASSUME IInv, [Next]_vars PROVE IInv'
  OBVIOUS
<1>1. CASE \E name \in Names : BootstrapOwner(name) \/ Invite(name)
  BY <1>1, BootstrapInv, InviteInv
<1>2. ASSUME NEW u \in Ids, SignOut(u)
      PROVE  IInv'
  <2>1. sessions' \in [Ids -> Nat] /\ UNCHANGED <<now, users, created, accepted, wrong>>
    BY <1>2 DEF SignOut, IInv, TypeOK
  <2>2. QED
    BY <2>1 DEF IInv, TypeOK, AttemptsInv, Remembers, IsUser
<1>3. CASE Tick
  <2>1. now' \in 2..MaxTime
    BY <1>3 DEF Tick, IInv, TypeOK
  <2>2. QED
    BY <1>3, <2>1 DEF Tick, IInv, TypeOK, AttemptsInv, Remembers, IsUser
<1>4. CASE UNCHANGED vars
  BY <1>4 DEF vars, IInv, TypeOK, AttemptsInv, Remembers, IsUser
<1>5. QED
  BY <1>1, <1>2, <1>3, <1>4, SetupInv, SignInInv, FailInv, ResetInv, DeleteInv DEF Next

-----------------------------------------------------------------------------
(* The theorems.                                                           *)

LEMMA Invariance == Spec => []IInv
<1>1. Init => IInv
  BY InitInv
<1>2. IInv /\ [Next]_vars => IInv'
  BY NextInv
<1>3. QED
  BY <1>1, <1>2, PTL DEF Spec

\* Accounts keep their shape: active exactly with credentials, a link exactly
\* without, and a name to themselves.
THEOREM TypeCorrect == Spec => []TypeOK
<1>1. IInv => TypeOK
  BY DEF IInv
<1>2. QED
  BY <1>1, Invariance, PTL

\* What AttemptsGuarded says of one account in one step.
Guarded(u) ==
  /\ SignsIn(u) => \A i \in DOMAIN accepted[u] : accepted'[u][Len(accepted'[u])] > accepted[u][i]
  /\ (LooksAt(u) /\ wrong[u].count >= MaxFails) => now >= wrong[u].last + Lock

\* An account whose codes and attempts do not grow is not concerned.
LEMMA NotConcerned ==
  ASSUME IInv, NEW u \in Ids,
         accepted'[u] = accepted[u] \/ accepted'[u] = <<>> \/ ~Active(u),
         wrong'[u].count = wrong[u].count \/ wrong'[u].count = 0
  PROVE  Guarded(u)
<1>1. wrong[u].count \in Nat /\ Len(accepted[u]) \in Nat
  BY DEF IInv, TypeOK
<1>2. ~SignsIn(u)
  <2>1. Len(<<>>) = 0
    OBVIOUS
  <2>2. QED
    BY <1>1, <2>1 DEF SignsIn
<1>3. ~(wrong'[u].count > wrong[u].count)
  BY <1>1
<1>4. QED
  BY <1>2, <1>3 DEF Guarded, LooksAt

LEMMA CreatedGuarded ==
  ASSUME IInv, NEW name \in Names, BootstrapOwner(name) \/ Invite(name), NEW u \in Ids
  PROVE  Guarded(u)
<1>1. created' = created + 1 /\ created < MaxId /\ wrong' = wrong
  BY DEF BootstrapOwner, Invite
<1>2. PICK v \in Ids : v = created' /\ ~IsUser(v)
  BY <1>1, FreshId
<1>3. u # v => accepted'[u] = accepted[u]
  BY <1>2 DEF BootstrapOwner, Invite, IInv, TypeOK
<1>4. wrong[u].count \in Nat /\ Len(accepted[u]) \in Nat
  BY DEF IInv, TypeOK
<1>5. QED
  BY <1>1, <1>2, <1>3, <1>4, NotConcerned DEF Active

LEMMA SignInGuarded ==
  ASSUME IInv, NEW u \in Ids, SignIn(u)
  PROVE  Guarded(u)
<1>1. PICK step \in ValidSteps(users[u].step) : accepted' = [accepted EXCEPT ![u] = Append(@, step)]
  BY DEF SignIn
<1>2. Active(u) /\ IsUser(u) /\ ~Locked(u)
  BY DEF SignIn, Active
<1>3. WellFormed(users[u]) /\ Remembers(u)
  BY <1>2, UserTypes DEF IInv, AttemptsInv
<1>4. users[u].step \in Nat /\ users[u].locked \in Nat
  BY <1>3 DEF WellFormed, User
<1>5. step \in Nat /\ step > users[u].step
  BY <1>4, Steps DEF IInv
<1>6. accepted[u] \in Seq(Nat) /\ accepted'[u] = Append(accepted[u], step)
  BY <1>1 DEF IInv, TypeOK
<1>7. accepted'[u][Len(accepted'[u])] = step
  BY <1>5, <1>6
<1>8. \A i \in DOMAIN accepted[u] : accepted[u][i] \in Nat /\ accepted[u][i] <= users[u].step
  BY <1>3, <1>6 DEF Remembers
<1>9. wrong[u].count >= MaxFails => now >= wrong[u].last + Lock
  <2>1. now \in Nat /\ wrong[u].last \in Nat /\ users[u].locked <= now
    BY <1>2, <1>4 DEF IInv, TypeOK, Locked
  <2>2. QED
    BY <1>3, <1>4, <2>1 DEF Remembers
<1>10. \A i \in DOMAIN accepted[u] : step > accepted[u][i]
  BY <1>4, <1>5, <1>8
<1>11. QED
  BY <1>7, <1>9, <1>10 DEF Guarded

LEMMA FailGuarded ==
  ASSUME IInv, NEW u \in Ids, FailSignIn(u)
  PROVE  Guarded(u)
<1>1. Active(u) /\ IsUser(u) /\ ~Locked(u) /\ accepted' = accepted
  BY DEF FailSignIn, Active
<1>2. WellFormed(users[u]) /\ Remembers(u)
  BY <1>1, UserTypes DEF IInv, AttemptsInv
<1>3. users[u].locked \in Nat /\ now \in Nat /\ wrong[u].last \in Nat
  BY <1>2 DEF WellFormed, User, IInv, TypeOK
<1>4. users[u].locked <= now
  BY <1>1, <1>3 DEF Locked
<1>5. wrong[u].count >= MaxFails => now >= wrong[u].last + Lock
  BY <1>2, <1>3, <1>4 DEF Remembers
<1>6. ~SignsIn(u)
  <2>1. Len(accepted[u]) \in Nat
    BY DEF IInv, TypeOK
  <2>2. QED
    BY <1>1, <2>1 DEF SignsIn
<1>7. QED
  BY <1>5, <1>6 DEF Guarded

LEMMA StepGuarded ==
  ASSUME IInv, [Next]_vars, NEW u \in Ids
  PROVE  Guarded(u)
<1>1. wrong[u].count \in Nat /\ Len(accepted[u]) \in Nat
  BY DEF IInv, TypeOK
<1>2. ASSUME NEW v \in Ids, Setup(v) \/ Reset(v) \/ Delete(v)
      PROVE  Guarded(u)
  <2>1. accepted'[u] = accepted[u] \/ accepted'[u] = <<>> \/ ~Active(u)
    BY <1>2 DEF Setup, Reset, Delete, Active, IInv, TypeOK
  <2>2. wrong'[u].count = wrong[u].count \/ wrong'[u].count = 0
    <3>1. wrong'[u] = wrong[u] \/ wrong'[u] = Cleaned
      BY <1>2 DEF Setup, Reset, Delete, NoWrong, Cleaned, IInv, TypeOK
    <3>2. QED
      BY <1>1, <3>1 DEF Cleaned
  <2>3. QED
    BY <1>1, <2>1, <2>2, NotConcerned
<1>3. ASSUME NEW v \in Ids, SignIn(v) \/ FailSignIn(v)
      PROVE  Guarded(u)
  <2>1. CASE u = v
    BY <1>3, <2>1, SignInGuarded, FailGuarded
  <2>2. CASE u # v
    <3>1. accepted'[u] = accepted[u]
      BY <1>3, <2>2 DEF SignIn, FailSignIn, IInv, TypeOK
    <3>2. wrong'[u] = wrong[u]
      BY <1>3, <2>2 DEF SignIn, FailSignIn, NoWrong, IInv, TypeOK
    <3>3. QED
      BY <1>1, <3>1, <3>2, NotConcerned
  <2>3. QED
    BY <2>1, <2>2
<1>4. ASSUME \/ \E v \in Ids : SignOut(v)
             \/ Tick
             \/ UNCHANGED vars
      PROVE  Guarded(u)
  <2>1. accepted' = accepted /\ wrong' = wrong
    BY <1>4 DEF SignOut, Tick, vars
  <2>2. QED
    BY <1>1, <2>1, NotConcerned
<1>5. QED
  BY <1>2, <1>3, <1>4, CreatedGuarded DEF Next

\* A code serves once, and once there were MaxFails wrong attempts in a row
\* no attempt is looked at before Lock has passed since the last one.
THEOREM Attempts == Spec => AttemptsGuarded
<1>1. IInv /\ [Next]_vars => [\A u \in Ids : Guarded(u)]_vars
  BY StepGuarded
<1>2. QED
  BY <1>1, Invariance, PTL DEF Spec, AttemptsGuarded, Guarded
=============================================================================
