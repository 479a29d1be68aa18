------------------------------- MODULE Client -------------------------------
(***************************************************************************)
(* The browser side (res/main.js, whose application code is one line of    *)
(* the bundle) against the session of the server. The windows of one       *)
(* browser share the session cookie; each has its own sessionStorage and   *)
(* its own store. Requests are answered in any order, time out at the      *)
(* client while the server may still serve them, and outlive the page      *)
(* that sent them.                                                         *)
(*                                                                         *)
(* The interceptor of error 10401 is left out: the server never answers    *)
(* it, as permitUrl is "/**" (see Authorization).                          *)
(***************************************************************************)
EXTENDS Naturals, FiniteSets

CONSTANTS
    Window,         \* windows of one browser
    User,           \* login names
    None,           \* nobody: no username, an empty dlmc, no authentication
    MaxSent,        \* bound: logins and logouts asked for
    MaxOdd          \* bound: navigations, reloads and ended sessions

ASSUME NobodyAssumption == None \notin User
ASSUME BoundAssumption == MaxSent \in Nat /\ MaxOdd \in Nat

VARIABLES
    session,    \* the user in the context of the browser's session
    ui,         \* what a window shows and remembers
    requests,   \* requests under way
    sent,       \* logins and logouts so far
    odd,        \* navigations, reloads and ended sessions so far
    sound,      \* history: the window whose login was both served and answered last
    orphan      \* history: a session was left without a window that knows of it

vars == <<session, ui, requests, sent, odd, sound, orphan>>

-----------------------------------------------------------------------------
\* page: LoginPage or RsMainPage.  username: sessionStorage.  dlmc: state of the
\* store.  loading: data of LoginPage.  Its button is also disabled until the key
\* is there; as nothing says when the user submits, that request is left out.
Ui == [page : {"login", "main"}, username : User \cup {None}, dlmc : User \cup {None},
       loading : BOOLEAN]

\* to: the page that asked, its window only (the page is gone, the callbacks
\* still run), or nobody (timed out, or the window was reloaded).
\* fresh: for a login or logout, none was served after it; for an info, no login
\* was answered to the window since.
Request == [w : Window, url : {"/auth/login", "/auth/info", "/auth/logout"},
            user : User \cup {None}, to : {"page", "window", "nobody"},
            answer : {"none", "ok", "error"}, fresh : BOOLEAN]

TypeOK ==
    /\ session \in User \cup {None}
    /\ ui \in [Window -> Ui]
    /\ requests \subseteq Request
    /\ sent \in 0..MaxSent /\ odd \in 0..MaxOdd
    /\ sound \in [Window -> BOOLEAN]
    /\ orphan \in BOOLEAN

Of(w) == {r \in requests : r.w = w}

Req(w, url, u) == [w |-> w, url |-> url, user |-> u, to |-> "page",
                   answer |-> "none", fresh |-> TRUE]

Init ==
    /\ session = None
    /\ ui = [w \in Window |-> [page |-> "login", username |-> None, dlmc |-> None,
                               loading |-> FALSE]]
    /\ requests = {}
    /\ sent = 0 /\ odd = 0
    /\ sound = [w \in Window |-> FALSE]
    /\ orphan = FALSE

-----------------------------------------------------------------------------
(* Pages *)

LoginPage(x) == [x EXCEPT !.page = "login", !.loading = FALSE]
MainPage(x) == [x EXCEPT !.page = "main", !.loading = FALSE]

\* loadUserInfo: this.app.dlmc || POST /auth/info
Created(w, x) == IF x.page = "main" /\ x.dlmc = None
                 THEN {Req(w, "/auth/info", None)} ELSE {}

Left(rs, w) == {IF r.w = w /\ r.to = "page" THEN [r EXCEPT !.to = "window"] ELSE r : r \in rs}

\* What the router shows after x, and what the new page asks for.
Show(w, x, rs) ==
    /\ ui' = [ui EXCEPT ![w] = x]
    /\ requests' = IF x.page = ui[w].page THEN rs ELSE Left(rs, w) \cup Created(w, x)

\* mutant: the page stays
MutLoggedOut(x) == [x EXCEPT !.username = None]
\* sessionStorage.clear(), and router.replace("/") unless it is at /login
LoggedOut(x) ==
    [(IF x.page = "login" THEN x ELSE LoginPage(x)) EXCEPT !.username = None]

\* mutant: an answer without dlmc
MutLoggedIn(x, u) == [x EXCEPT !.page = "main", !.username = u, !.dlmc = "undefined"]
\* loginOk, setAuthInfo and $router.push("/home")
LoggedIn(x, u) ==
    [(IF x.page = "main" THEN x ELSE MainPage(x)) EXCEPT !.username = u, !.dlmc = u]

-----------------------------------------------------------------------------
(* What the user does *)

Odd == odd < MaxOdd /\ odd' = odd + 1

Send(w, r) ==
    /\ r \notin requests /\ sent < MaxSent
    /\ requests' = requests \cup {r}
    /\ sent' = sent + 1

\* The button is disabled while loading.
SubmitForm(w, u) ==
    /\ ui[w].page = "login" /\ ~ui[w].loading
    /\ ui' = [ui EXCEPT ![w] = [@ EXCEPT !.loading = TRUE]]
    /\ Send(w, Req(w, "/auth/login", u))
    /\ UNCHANGED <<session, sound, odd, orphan>>

OnLogout(w) ==
    /\ ui[w].page = "main"
    /\ Send(w, Req(w, "/auth/logout", None))
    /\ UNCHANGED <<session, ui, sound, odd, orphan>>

\* Address bar, back and forward.  Without a user name beforeResolve calls
\* logout, which leaves only a page other than /login; then next() goes on.
NavigateLogin(w) ==
    /\ ui[w].page = "main"
    /\ Show(w, LoginPage(ui[w]), requests)
    /\ UNCHANGED <<session, sound, orphan, sent>>
    /\ Odd

NavigateHome(w) ==
    /\ ui[w].page = "login"
    /\ Show(w, MainPage(ui[w]), requests)
    /\ UNCHANGED <<session, sound, orphan, sent>>
    /\ Odd

\* created of RsMainPage pushes /home, and from there logout does leave.
Bounced(w) ==
    /\ ui' = [ui EXCEPT ![w] = LoginPage(@)]
    /\ requests' = Left(Left(requests, w) \cup Created(w, MainPage(ui[w])), w)

Guard(w) == ui[w].username = None

NavigateOther(w) ==
    /\ IF ~Guard(w) THEN ui[w].page = "login" /\ Show(w, MainPage(ui[w]), requests)
       ELSE IF ui[w].page = "login" THEN Bounced(w)
       ELSE Show(w, LoggedOut(ui[w]), requests)
    /\ UNCHANGED <<session, sound, orphan, sent>>
    /\ Odd

\* The answers to the old window are lost, and with them what they would say.
Unheard(rs) == {[r EXCEPT !.to = "nobody"] :
                    r \in {q \in rs : q.answer = "none" /\ q.url \in {"/auth/login", "/auth/logout"}}}
LosesLogin(rs) == \E r \in rs : r.url = "/auth/login" /\ r.answer = "ok" /\ r.fresh

Reload(w) ==
    LET x == [ui[w] EXCEPT !.dlmc = None]
        y == IF x.page = "login" \/ Guard(w) THEN LoginPage(x) ELSE MainPage(x)
    IN  /\ ui' = [ui EXCEPT ![w] = y]
        /\ requests' = (requests \ Of(w)) \cup Unheard(Of(w)) \cup Created(w, y)
        /\ orphan' = (orphan \/ LosesLogin(Of(w)))
        /\ Odd
        /\ UNCHANGED <<session, sound, sent>>

-----------------------------------------------------------------------------
(* What the server does *)

Answered(r, rs, code, u) ==
    (rs \ {r}) \cup (IF r.to = "nobody" THEN {}
                     ELSE {[r EXCEPT !.answer = code, !.user = u, !.fresh = TRUE]})

\* Another login or logout was served: answers under way are of the past.
Overtaken(rs) == {IF r.url \in {"/auth/login", "/auth/logout"} /\ r.answer # "none"
                  THEN [r EXCEPT !.fresh = FALSE] ELSE r : r \in rs}

ServeLogin(r) ==
    /\ r.url = "/auth/login" /\ r.answer = "none"
    /\ session' = r.user
    /\ requests' = Answered(r, Overtaken(requests), "ok", r.user)
    /\ sound' = [w \in Window |-> FALSE]
    /\ orphan' = (r.to = "nobody")
    /\ UNCHANGED <<ui, sent, odd>>

\* unsuccessfulAuthentication clears the context, and saveContext takes it out
\* of the session it was read from.
RefuseLogin(r) ==
    /\ r.url = "/auth/login" /\ r.answer = "none"
    /\ session' = None
    /\ requests' = Answered(r, Overtaken(requests), "error", r.user)
    /\ orphan' = FALSE
    /\ UNCHANGED <<ui, sound, sent, odd>>

ServeInfo(r) ==
    /\ r.url = "/auth/info" /\ r.answer = "none"
    /\ requests' = (requests \ {r}) \cup
                     {[r EXCEPT !.answer = IF session = None THEN "error" ELSE "ok",
                                !.user = session]}
    /\ UNCHANGED <<session, ui, sound, orphan, sent, odd>>

ServeLogout(r) ==
    /\ r.url = "/auth/logout" /\ r.answer = "none"
    /\ session' = None
    /\ requests' = Answered(r, Overtaken(requests), "ok", None)
    /\ orphan' = FALSE
    /\ UNCHANGED <<ui, sound, sent, odd>>

\* Timed out, deleted by a login elsewhere, or cleaned up (SessionControl).
SessionEnds ==
    /\ session # None /\ Odd
    /\ session' = None
    /\ orphan' = FALSE
    /\ UNCHANGED <<ui, requests, sound, sent>>

-----------------------------------------------------------------------------
(* What the answers do *)

Stale(rs, w) == {IF r.w = w /\ r.url = "/auth/info" THEN [r EXCEPT !.fresh = FALSE] ELSE r :
                    r \in rs}

\* loading belongs to the page that sent the login.
Stopped(r) == IF r.url = "/auth/login" /\ r.to = "page"
              THEN [ui[r.w] EXCEPT !.loading = FALSE] ELSE ui[r.w]

\* mutant: login takes the menus only if there are none yet, as loadUserInfo does
MutCommitted(x, u) == IF x.dlmc = None THEN LoggedIn(x, u)
                      ELSE [LoggedIn(x, u) EXCEPT !.dlmc = x.dlmc]
Committed(x, u) == LoggedIn(x, u)

LoginAnswered(r) ==
    /\ r.url = "/auth/login" /\ r.answer # "none" /\ r.to # "nobody"
    /\ IF r.answer = "ok"
         THEN /\ Show(r.w, Committed(Stopped(r), r.user), Stale(requests \ {r}, r.w))
              /\ sound' = [sound EXCEPT ![r.w] = r.fresh]
         ELSE /\ Show(r.w, Stopped(r), requests \ {r})
              /\ UNCHANGED sound
    /\ UNCHANGED <<session, orphan, sent, odd>>

InfoAnswered(r) ==
    /\ r.url = "/auth/info" /\ r.answer # "none"
    /\ requests' = requests \ {r}
    /\ ui' = IF r.answer = "ok" THEN [ui EXCEPT ![r.w] = [@ EXCEPT !.dlmc = r.user]] ELSE ui
    /\ sound' = [sound EXCEPT ![r.w] = @ /\ (r.fresh \/ r.answer = "error")]
    /\ UNCHANGED <<session, orphan, sent, odd>>

LogoutAnswered(r) ==
    /\ r.url = "/auth/logout" /\ r.answer # "none" /\ r.to # "nobody"
    /\ Show(r.w, LoggedOut(ui[r.w]), requests \ {r})
    /\ orphan' = (orphan \/ ~r.fresh)
    /\ UNCHANGED <<session, sound, sent, odd>>

\* mutants: the catch of login forgets the button; the catch of onLogout logs out
MutFailed(r) == ui[r.w]
MutLoggedOutAnyway(r) == IF r.url = "/auth/logout" THEN LoggedOut(ui[r.w]) ELSE Stopped(r)
Failed(r) == Stopped(r)

\* After ten seconds, or when the connection fails, the promise is rejected.
\* To lose an answer is the same as to fail before the server makes it.
RequestFails(r) ==
    /\ r.to # "nobody" /\ r.answer = "none"
    /\ ui' = [ui EXCEPT ![r.w] = Failed(r)]
    /\ requests' = (requests \ {r}) \cup Unheard({r})
    /\ UNCHANGED <<session, sound, orphan, sent, odd>>

-----------------------------------------------------------------------------
Answer(r) == LoginAnswered(r) \/ InfoAnswered(r) \/ LogoutAnswered(r)

Next ==
    \/ \E w \in Window :
        \/ \E u \in User : SubmitForm(w, u)
        \/ OnLogout(w) \/ Reload(w)
        \/ NavigateLogin(w) \/ NavigateHome(w) \/ NavigateOther(w)
    \/ \E r \in requests :
        \/ ServeLogin(r) \/ RefuseLogin(r) \/ ServeInfo(r) \/ ServeLogout(r)
        \/ Answer(r) \/ RequestFails(r)
    \/ SessionEnds

Spec == Init /\ [][Next]_vars

\* The answer comes, or the timer of the request (timeout: 10000) runs out.
Settled(w) == \E r \in Of(w) :
    /\ r.url = "/auth/login" /\ r.to = "page"
    /\ LoginAnswered(r) \/ RequestFails(r)
FairSpec == Spec /\ \A w \in Window : WF_vars(Settled(w))

-----------------------------------------------------------------------------
(* Properties *)

\* A window whose login was the last of all served, and which took no answer
\* older than it, shows the menus of its user, and that user is who the server
\* takes it for.
ShowsItsUser ==
    \A w \in Window : sound[w] /\ ui[w].username # None =>
        /\ session \in {None, ui[w].username}
        /\ ui[w].dlmc \in {None, ui[w].username}

\* When no window is logged in, the browser's session is nobody's, unless the
\* answer to its login is under way, was lost, or met a late answer to a logout.
NobodyIsLeftLoggedIn ==
    (\A w \in Window : ui[w].username = None) /\ session # None /\ ~orphan =>
        \E r \in requests : r.url = "/auth/login" /\ r.answer = "ok" /\ r.fresh

\* The main page is entered, or kept, without a user name in one way only: from
\* the login page to /home, where logout() finds it is at /login already.
OnlyHomeIsOpen ==
    [][\A w \in Window :
        (/\ ui'[w].page = "main" /\ ui'[w].username = None
         /\ ui[w].page = "login" \/ ui[w].username # None) => NavigateHome(w)]_vars

\* The login button never stays in its loading state.
LoginComesBack == \A w \in Window : ui[w].loading ~> ~ui[w].loading
=============================================================================
