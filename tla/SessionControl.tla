--------------------------- MODULE SessionControl ---------------------------
(***************************************************************************)
(* RsSessionAuthenticationStrategy.onAuthentication: a login checks the    *)
(* limits of the current strategy, may delete ("kick") the user's oldest   *)
(* sessions, gets a new session id, and is stored when its response is     *)
(* committed.  Every look at the strategy and at SYS_SESSION is a step of  *)
(* its own; other logins, other requests of the same sessions, logouts and *)
(* changes of the strategy come in between.                                *)
(*                                                                         *)
(* The application creates a session when it stores the security context   *)
(* of a login; a login refused in it takes the context away again, and the *)
(* session stays, with nobody logged in.                                   *)
(***************************************************************************)
EXTENDS Integers, FiniteSets

CONSTANTS
    Pk,             \* PRIMARY_ID values
    User,
    Login,          \* threads that log somebody in
    Visit,          \* threads of other requests
    None,           \* no session, no request, no user
    Policy,         \* the strategies an administrator can enable
    Null,           \* an entry the current strategy does not have
    MaxClock,       \* bound: requests made
    MaxId,          \* bound: session ids one session goes through
    MaxChange       \* bound: changes of the strategy

\* SESSION_CONTROL, MAX_SESSION_COUNT, USER_SESSION and IS_KICK_SESSION.
Policies == [control : BOOLEAN, max : Nat \cup {Null}, user : Nat \cup {Null}, kick : BOOLEAN]

ASSUME PolicyAssumption == Policy \subseteq Policies /\ Null \notin Nat
ASSUME PkAssumption == IsFiniteSet(Pk)
ASSUME BoundAssumption == {MaxClock, MaxChange} \subseteq Nat /\ MaxId \in Nat \ {0}

VARIABLES
    row,        \* SYS_SESSION and the SPRING_SECURITY_CONTEXT of its attributes, or None
    ids,        \* history: how many session ids a session was given
    login,      \* a login under way, or None
    visit,      \* the copy of a session another request works on, or None
    policy,     \* what the getters of RsStrategyService answer
    clock,      \* orders the requests
    changes,    \* changes of the strategy so far
    disturbed,  \* history: logins that did not see another login of their user,
                \* or an old copy of one of the user's sessions being saved
    crowded,    \* history: logins during which another login added a session
    stale,      \* history: sessions an old copy was saved over
    excess      \* history: a user may have come to have too many sessions

vars == <<row, ids, login, visit, policy, clock, changes, disturbed, crowded, stale, excess>>
history == <<disturbed, crowded, stale, excess>>

-----------------------------------------------------------------------------
\* ctx is the user in the stored attribute, name is PRINCIPAL_NAME.
Principal == User \cup {None}
Row == [id : 1..MaxId, ctx : Principal, name : Principal, last : 1..MaxClock,
        expired : BOOLEAN]
Copy == [pk : Pk, id : 1..MaxId, ctx : Principal, last : 1..MaxClock]

ASSUME NoneAssumption == None \notin User /\ None \notin Row

Seen == [pk : Pk, id : 1..MaxId, last : 1..MaxClock]

\* own is the request's session, if it has one; max and limit are the limits
\* it has read (0: none), list are the user's sessions it has found, and
\* victims those it is still going to delete.
Attempt == [pc : {"control", "count", "list", "decide", "kick", "store", "refused",
                  "failed"}, user : User,
            own : Copy \cup {None}, last : 1..MaxClock, max : Nat, limit : Nat,
            list : SUBSET Seen, victims : SUBSET Seen]

TypeOK ==
    /\ row \in [Pk -> Row \cup {None}]
    /\ ids \in [Pk -> 0..MaxId]
    /\ login \in [Login -> Attempt \cup {None}]
    /\ visit \in [Visit -> Copy \cup {None}]
    /\ policy \in Policy
    /\ clock \in 0..MaxClock /\ changes \in 0..MaxChange
    /\ disturbed \subseteq Login /\ crowded \subseteq Login
    /\ stale \subseteq Pk /\ excess \in BOOLEAN

Init ==
    /\ row = [p \in Pk |-> None]
    /\ ids = [p \in Pk |-> 0]
    /\ login = [t \in Login |-> None]
    /\ visit = [v \in Visit |-> None]
    /\ policy \in Policy
    /\ clock = 0 /\ changes = 0
    /\ disturbed = {} /\ crowded = {} /\ stale = {} /\ excess = FALSE

Exists(p) == row[p] # None
CopyOf(p) == [pk |-> p, id |-> row[p].id, ctx |-> row[p].ctx, last |-> clock + 1]

\* findByPrincipalName, expired sessions included.
SessionsNamed(u) == {[pk |-> p, id |-> row[p].id, last |-> row[p].last] :
                        p \in {q \in Pk : Exists(q) /\ row[q].name = u}}

\* getSessionCount leaves expired sessions out.
Live == {p \in Pk : Exists(p) /\ ~row[p].expired}

\* What the user is really logged in with.
SessionsOf(u) == {p \in Pk : Exists(p) /\ row[p].ctx = u}

Hidden(u) == \E p \in SessionsOf(u) : row[p].name # u

-----------------------------------------------------------------------------
(* The login *)

Others(t, u) == {s \in Login \ {t} : login[s] # None /\ login[s].user = u}

Goes(t, a) ==
    /\ login' = [login EXCEPT ![t] = a]
    /\ UNCHANGED <<row, ids, visit, policy, clock, changes, history>>

\* findById: an expired session is deleted and used all the same.
Loaded(p) == row' = IF Exists(p) /\ row[p].expired THEN [row EXCEPT ![p] = None] ELSE row

Begin(t, u) ==
    /\ login[t] = None /\ clock < MaxClock /\ clock' = clock + 1
    /\ \E own \in {None} \cup {CopyOf(p) : p \in {q \in Pk : Exists(q)}} :
          /\ login' = [login EXCEPT ![t] =
                [pc |-> "control", user |-> u, own |-> own, last |-> clock + 1,
                 max |-> 0, limit |-> 0, list |-> {}, victims |-> {}]]
          /\ IF own = None THEN UNCHANGED row ELSE Loaded(own.pk)
    /\ UNCHANGED <<ids, visit, policy, changes, history>>

At(t, pc) == login[t] # None /\ login[t].pc = pc

Control(t) ==
    /\ At(t, "control")
    /\ Goes(t, [login[t] EXCEPT !.pc = IF policy.control THEN "count" ELSE "store"])

\* mutant: off by one
MutTooMany(n, max) == max > 0 /\ n > max
TooMany(n, max) == max > 0 /\ n >= max

\* SessionAuthenticationException, or any other exception: a missing entry is
\* a null that cannot be unboxed.
Refused(t) == Goes(t, [login[t] EXCEPT !.pc = "refused"])
Failed(t) == Goes(t, [login[t] EXCEPT !.pc = "failed"])

Count(t) ==
    /\ At(t, "count")
    /\ \/ policy.max = Null /\ Failed(t)
       \/ policy.max # Null /\ TooMany(Cardinality(Live), policy.max) /\ Refused(t)
       \/ /\ policy.max # Null /\ ~TooMany(Cardinality(Live), policy.max)
          /\ Goes(t, [login[t] EXCEPT !.pc = "list", !.max = policy.max])

\* Only with as many sessions as allowed does it matter that one is the own.
MutOwnIsListed(t, list) == FALSE        \* mutant: the check forgotten
OwnIsListed(t, list) ==
    login[t].own # None /\ \E x \in list : x.pk = login[t].own.pk /\ x.id = login[t].own.id

MutBelow(list, limit) == Cardinality(list) <= limit     \* mutant: off by one
Below(list, limit) == Cardinality(list) < limit

List(t) ==
    LET u == login[t].user
        list == SessionsNamed(u)
        enough == \/ policy.user = 0
                  \/ Below(list, policy.user)
                  \/ Cardinality(list) = policy.user /\ OwnIsListed(t, list)
    IN
    /\ At(t, "list")
    /\ \/ policy.user = Null /\ Failed(t)
       \/ /\ policy.user # Null
          /\ login' = [login EXCEPT ![t] =
                [@ EXCEPT !.pc = IF enough THEN "store" ELSE "decide",
                          !.limit = policy.user, !.list = list]]
          /\ disturbed' = IF Hidden(u) THEN disturbed \cup {t} ELSE disturbed
          /\ UNCHANGED <<row, ids, visit, policy, clock, changes, crowded, stale, excess>>

\* The least recently used ones, so many that one more is allowed.
Oldest(list, n) ==
    {x \in list : Cardinality({y \in list : y.last < x.last}) < n}

Decide(t) ==
    /\ At(t, "decide")
    /\ \/ ~policy.kick /\ Refused(t)
       \/ /\ policy.kick
          /\ LET list == login[t].list IN
             Goes(t, [login[t] EXCEPT !.pc = "kick",
                         !.victims = Oldest(list, Cardinality(list) - login[t].limit + 1)])

\* deleteById: by session id, so a session that got a new id stays.
Hit(x) == {p \in {x.pk} : Exists(p) /\ row[p].id = x.id}

Kick(t) ==
    LET victims == login[t].victims IN
    /\ At(t, "kick")
    /\ \E x \in Oldest(victims, 1) :
          /\ row' = [p \in Pk |-> IF p \in Hit(x) THEN None ELSE row[p]]
          /\ login' = [login EXCEPT ![t] =
                [@ EXCEPT !.pc = IF victims = {x} THEN "store" ELSE "kick",
                          !.victims = victims \ {x}]]
    /\ UNCHANGED <<ids, visit, policy, clock, changes, history>>

\* mutants: the number of a new session not drawn; a session that keeps its id
MutNextId(p) == ids[p]
MutKeptId(p) == IF ids[p] = 0 THEN 1 ELSE ids[p]
NextId(p) == ids[p] + 1

\* ChangeSessionIdAuthenticationStrategy, then the response is committed: the
\* security context is put into the session, and the session is saved.  An
\* update of a row that is gone changes nothing.
Store(t) ==
    LET u == login[t].user
        own == login[t].own
        Stored(p) == [id |-> NextId(p), ctx |-> u, name |-> u, last |-> login[t].last,
                      expired |-> FALSE]
        Into(p) == /\ ids' = [ids EXCEPT ![p] = NextId(p)]
                   /\ row' = [row EXCEPT ![p] = Stored(p)]
    IN
    /\ At(t, "store")
    /\ \/ own # None /\ NextId(own.pk) <= MaxId /\ Exists(own.pk) /\ Into(own.pk)
       \/ own # None /\ ~Exists(own.pk) /\ UNCHANGED <<row, ids>>
       \/ own = None /\ \E p \in Pk : ids[p] = 0 /\ Into(p)
    /\ login' = [login EXCEPT ![t] = None]
    /\ disturbed' = (disturbed \cup Others(t, u)) \ {t}
    /\ crowded' = (crowded \cup {s \in Login : login[s] # None}) \ {t}
    /\ excess' = (excess \/ t \in disturbed)
    /\ UNCHANGED <<visit, policy, clock, changes, stale>>

-----------------------------------------------------------------------------
(* A copy of a session is saved when its request ends *)

IsOld(c) == Exists(c.pk) /\ (row[c.pk].id # c.id \/ row[c.pk].ctx # c.ctx)

\* The copy's id and access time are written, and the principal it ends with;
\* the attribute only if the request changed it.
SaveCopy(c, user) ==
    LET p == c.pk IN
    /\ row' = IF Exists(p)
                THEN [row EXCEPT ![p] =
                        [id |-> c.id, ctx |-> IF user = c.ctx THEN row[p].ctx ELSE user,
                         name |-> user, last |-> c.last, expired |-> FALSE]]
                ELSE row
    /\ stale' = IF IsOld(c) THEN stale \cup {p} ELSE stale
    /\ excess' = (excess \/ IsOld(c))

\* The logins that an old copy disturbs, and those during which an expired
\* session comes back.
Disturbs(c) ==
    {t \in Login : login[t] # None /\ IsOld(c) /\ login[t].user \in {c.ctx, row[c.pk].ctx}}
Crowds(c) == {t \in Login : login[t] # None /\ Exists(c.pk) /\ row[c.pk].expired}

\* saveContext: a refusal has cleared the context of the request, so the
\* session's is taken away, whoever it belongs to; another exception has not.
Afterwards(t) == IF At(t, "refused") THEN None ELSE login[t].own.ctx

\* The login ends without success.
Leave(t) ==
    LET own == login[t].own IN
    /\ At(t, "refused") \/ At(t, "failed")
    /\ login' = [login EXCEPT ![t] = None]
    /\ IF own = None
         THEN /\ disturbed' = disturbed \ {t} /\ crowded' = crowded \ {t}
              /\ UNCHANGED <<row, stale, excess>>
         ELSE /\ SaveCopy(own, Afterwards(t))
              /\ disturbed' = (disturbed \cup Disturbs(own)) \ {t}
              /\ crowded' = (crowded \cup Crowds(own)) \ {t}
    /\ UNCHANGED <<ids, visit, policy, clock, changes>>

-----------------------------------------------------------------------------
(* Other requests, logouts, time and administrators *)

Load(v, p) ==
    /\ visit[v] = None /\ Exists(p) /\ clock < MaxClock /\ clock' = clock + 1
    /\ visit' = [visit EXCEPT ![v] = CopyOf(p)]
    /\ Loaded(p)
    /\ UNCHANGED <<ids, login, policy, changes, history>>

Save(v) ==
    LET c == visit[v] IN
    /\ c # None
    /\ visit' = [visit EXCEPT ![v] = None]
    /\ SaveCopy(c, c.ctx)
    /\ disturbed' = disturbed \cup Disturbs(c)
    /\ crowded' = crowded \cup Crowds(c)
    /\ UNCHANGED <<ids, login, policy, clock, changes>>

\* session.invalidate() of a logout, or the clean-up of an expired session.
Remove(p) ==
    /\ Exists(p)
    /\ row' = [row EXCEPT ![p] = None]
    /\ UNCHANGED <<ids, login, visit, policy, clock, changes, history>>

\* Nobody used the session for its interval.
Expire(p) ==
    /\ Exists(p) /\ ~row[p].expired
    /\ row' = [row EXCEPT ![p] = [@ EXCEPT !.expired = TRUE]]
    /\ UNCHANGED <<ids, login, visit, policy, clock, changes, history>>

ChangePolicy ==
    /\ changes < MaxChange /\ changes' = changes + 1
    /\ \E q \in Policy \ {policy} : policy' = q
    /\ excess' = TRUE
    /\ UNCHANGED <<row, ids, login, visit, clock, disturbed, crowded, stale>>

Attempting(t) ==
    \/ \E u \in User : Begin(t, u)
    \/ Control(t) \/ Count(t) \/ List(t) \/ Decide(t) \/ Kick(t) \/ Store(t) \/ Leave(t)

Next ==
    \/ \E t \in Login : Attempting(t)
    \/ \E v \in Visit : Save(v) \/ \E p \in Pk : Load(v, p)
    \/ \E p \in Pk : Remove(p) \/ Expire(p)
    \/ ChangePolicy

Spec == Init /\ [][Next]_vars

-----------------------------------------------------------------------------
(* Properties. *)

Stores(t) == At(t, "store") /\ login'[t] = None

\* A login that read a limit for its user leaves the user with no more
\* sessions than that, whatever else goes on, unless another login of the same
\* user, or an old copy of one of the user's sessions, was stored meanwhile.
UserLimitUnlessDisturbed ==
    [][\A t \in Login : Stores(t) /\ login[t].limit > 0 /\ t \notin disturbed =>
          Cardinality({p \in Pk : row'[p] # None /\ row'[p].ctx = login[t].user})
             <= login[t].limit]_vars

\* The same for all live sessions and the limit of the system, unless another
\* login added one, or a request brought an expired one back.
SystemLimitUnlessCrowded ==
    [][\A t \in Login : Stores(t) /\ login[t].max > 0 /\ t \notin crowded =>
          Cardinality({p \in Pk : row'[p] # None /\ ~row'[p].expired}) <= login[t].max]_vars

Kicks(t, p) == At(t, "kick") /\ login'[t] # login[t] /\ Exists(p) /\ row'[p] = None

\* A login only deletes sessions of its own user, or of nobody any more:
\* between its look at the list and the deletion a session that somebody else
\* logged in with has got a new id.  An old copy saved over the session brings
\* the old id back.
KicksOnlyItsOwnUser ==
    [][\A t \in Login, p \in Pk :
          Kicks(t, p) => row[p].ctx \in {login[t].user, None} \/ p \in stale]_vars

\* The step takes from the user the session he logs in from: it is deleted,
\* or his context removed from it.
LosesOwn(t) ==
    LET own == login[t].own IN
    /\ login[t] # None /\ login'[t] # login[t]
    /\ own # None /\ own.pk \in SessionsOf(login[t].user)
    /\ row'[own.pk] = None \/ row'[own.pk].ctx # login[t].user

\* Who logs in again in a session he is logged in with keeps it, as far as the
\* limit for a user goes: that limit makes the login delete it, or refuses the
\* login and so logs the user out of it, only if he had come to have too many
\* sessions.  (The limit of the system, checked before, counts the session
\* and can refuse the login on its account.)
OwnSessionIsKept ==
    [][\A t \in Login :
          LosesOwn(t) => excess \/ t \in disturbed \/ login[t].limit = 0]_vars
=============================================================================
