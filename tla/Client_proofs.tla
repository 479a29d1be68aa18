---------------------------- MODULE Client_proofs ----------------------------
(***************************************************************************)
(* Proofs about Client, for any windows and users: the types are right, a  *)
(* window shows its user, no session is left logged in, and only /home is  *)
(* open to a window without a name.                                        *)
(*                                                                         *)
(* The invariant (Truth) says of every request under way what it knows:    *)
(* the answer to a login, unless it was overtaken, that the session is of  *)
(* its user or of nobody, the answer to an info that its user is the       *)
(* window's. What a window does on its own (Quiet) changes no name and     *)
(* makes no answer, so that it need not be looked at page by page.         *)
(***************************************************************************)
EXTENDS Client, TLAPS

Logins(r) == r.url = "/auth/login"
Told(r) == Logins(r) /\ r.answer = "ok" /\ r.fresh

\* What a request, or its answer, says of the session and of its window.
True(r) ==
    /\ Logins(r) => r.user # None
    /\ Told(r) => session \in {None, r.user}
    /\ r.url = "/auth/logout" /\ r.answer # "none" /\ r.fresh => session = None
    /\ r.url = "/auth/info" /\ r.answer = "ok" /\ r.fresh /\ sound[r.w] /\ ui[r.w].username # None =>
          r.user = ui[r.w].username

Truth ==
    /\ ShowsItsUser
    /\ \A r \in requests : True(r)
    /\ NobodyIsLeftLoggedIn

\* All of a request but who still waits for it.
Same(q, r) == /\ q.w = r.w /\ q.url = r.url /\ q.user = r.user
              /\ q.answer = r.answer /\ q.fresh = r.fresh

-----------------------------------------------------------------------------
(* Operators *)

LEMMA ReqFields ==
  ASSUME NEW w \in Window, NEW url \in {"/auth/login", "/auth/info", "/auth/logout"},
         NEW u \in User \cup {None}
  PROVE  LET r == Req(w, url, u) IN
         /\ r \in Request /\ r.url = url /\ r.user = u /\ r.answer = "none" /\ r.w = w
  BY DEF Req, Request

LEMMA PageFields ==
  ASSUME NEW x \in Ui
  PROVE  /\ LoginPage(x) \in Ui /\ MainPage(x) \in Ui
         /\ LoginPage(x).page = "login" /\ LoginPage(x).username = x.username
         /\ LoginPage(x).dlmc = x.dlmc
         /\ MainPage(x).page = "main" /\ MainPage(x).username = x.username
         /\ MainPage(x).dlmc = x.dlmc
  BY DEF LoginPage, MainPage, Ui

LEMMA LoggedOutFields ==
  ASSUME NEW x \in Ui
  PROVE  /\ LoggedOut(x) \in Ui /\ LoggedOut(x).page = "login"
         /\ LoggedOut(x).username = None /\ LoggedOut(x).dlmc = x.dlmc
  <1> DEFINE y == IF x.page = "login" THEN x ELSE LoginPage(x)
  <1>1. y \in Ui /\ y.page = "login" /\ y.dlmc = x.dlmc
    BY PageFields
  <1> HIDE DEF y
  <1>2. LET z == [y EXCEPT !.username = None] IN
        z \in Ui /\ z.page = "login" /\ z.username = None /\ z.dlmc = x.dlmc
    BY <1>1 DEF Ui
  <1> QED
    BY <1>2 DEF LoggedOut, y

LEMMA LoggedInFields ==
  ASSUME NEW x \in Ui, NEW u \in User \cup {None}
  PROVE  /\ LoggedIn(x, u) \in Ui /\ LoggedIn(x, u).page = "main"
         /\ LoggedIn(x, u).username = u /\ LoggedIn(x, u).dlmc = u
  <1> DEFINE y == IF x.page = "main" THEN x ELSE MainPage(x)
  <1>1. y \in Ui /\ y.page = "main"
    BY PageFields DEF Ui
  <1> HIDE DEF y
  <1>2. LET z == [y EXCEPT !.username = u, !.dlmc = u] IN
        z \in Ui /\ z.page = "main" /\ z.username = u /\ z.dlmc = u
    BY <1>1 DEF Ui
  <1> QED
    BY <1>2 DEF LoggedIn, y

LEMMA StoppedFields ==
  ASSUME TypeOK, NEW r \in requests
  PROVE  /\ r.w \in Window /\ ui[r.w] \in Ui /\ Stopped(r) \in Ui
         /\ Stopped(r).page = ui[r.w].page /\ Stopped(r).username = ui[r.w].username
         /\ Stopped(r).dlmc = ui[r.w].dlmc
  <1>1. r.w \in Window
    BY DEF TypeOK, Request
  <1>2. ui[r.w] \in Ui
    BY <1>1 DEF TypeOK
  <1> QED
    BY <1>1, <1>2 DEF Stopped, Ui

LEMMA ReadyFields ==
  ASSUME NEW x \in Ui
  PROVE  LET y == [x EXCEPT !.dlmc = None]
             z == [x EXCEPT !.loading = TRUE]
         IN  /\ y \in Ui /\ y.page = x.page /\ y.username = x.username /\ y.dlmc = None
             /\ z \in Ui /\ z.page = x.page /\ z.username = x.username /\ z.dlmc = x.dlmc
  BY DEF Ui

LEMMA CreatedFields ==
  ASSUME NEW w \in Window, NEW x
  PROVE  \A q \in Created(w, x) : q \in Request /\ q.answer = "none" /\ q.url = "/auth/info"
  BY ReqFields DEF Created

LEMMA WaitFields ==
  ASSUME NEW r \in Request, NEW to \in {"page", "window", "nobody"}
  PROVE  LET q == [r EXCEPT !.to = to] IN q \in Request /\ Same(q, r)
  BY DEF Request, Same

LEMMA LeftIsSame ==
  ASSUME NEW rs \in SUBSET Request, NEW w
  PROVE  /\ Left(rs, w) \in SUBSET Request
         /\ \A q \in Left(rs, w) : \E r \in rs : Same(q, r)
         /\ \A r \in rs : \E q \in Left(rs, w) : Same(q, r)
  <1> DEFINE L(r) == IF r.w = w /\ r.to = "page" THEN [r EXCEPT !.to = "window"] ELSE r
  <1>1. \A r \in rs : L(r) \in Request /\ Same(L(r), r)
    BY WaitFields DEF Same
  <1>2. Left(rs, w) = {L(r) : r \in rs}
    BY DEF Left
  <1> HIDE DEF L
  <1> QED
    BY <1>1, <1>2

LEMMA UnheardIsSame ==
  ASSUME NEW rs \in SUBSET Request
  PROVE  /\ Unheard(rs) \in SUBSET Request
         /\ \A q \in Unheard(rs) : \E r \in rs : Same(q, r)
  <1> DEFINE U(r) == [r EXCEPT !.to = "nobody"]
             S == {q \in rs : q.answer = "none" /\ q.url \in {"/auth/login", "/auth/logout"}}
  <1>1. \A r \in rs : U(r) \in Request /\ Same(U(r), r)
    BY WaitFields
  <1>2. Unheard(rs) = {U(r) : r \in S} /\ S \subseteq rs
    BY DEF Unheard
  <1> HIDE DEF U, S
  <1> QED
    BY <1>1, <1>2

\* Answers that became old, of logins and logouts or of infos.
LEMMA AgedFields ==
  ASSUME NEW r \in Request
  PROVE  LET q == [r EXCEPT !.fresh = FALSE] IN
         /\ q \in Request /\ q.w = r.w /\ q.url = r.url /\ q.user = r.user
         /\ q.answer = r.answer /\ q.fresh = FALSE
  BY DEF Request

LEMMA OvertakenFields ==
  ASSUME NEW rs \in SUBSET Request
  PROVE  /\ Overtaken(rs) \in SUBSET Request
         /\ \A q \in Overtaken(rs) :
              \/ q \in rs /\ (q.url = "/auth/info" \/ q.answer = "none")
              \/ q.url # "/auth/info" /\ ~q.fresh /\ \E r \in rs : q.user = r.user /\ q.url = r.url
  <1> DEFINE O(r) == IF r.url \in {"/auth/login", "/auth/logout"} /\ r.answer # "none"
                     THEN [r EXCEPT !.fresh = FALSE] ELSE r
  <1>1. \A r \in rs :
          /\ O(r) \in Request
          /\ \/ O(r) = r /\ (r.url = "/auth/info" \/ r.answer = "none")
             \/ O(r).url # "/auth/info" /\ ~O(r).fresh /\ O(r).user = r.user /\ O(r).url = r.url
    <2> SUFFICES ASSUME NEW r \in rs
                 PROVE  /\ O(r) \in Request
                        /\ \/ O(r) = r /\ (r.url = "/auth/info" \/ r.answer = "none")
                           \/ /\ O(r).url # "/auth/info" /\ ~O(r).fresh
                              /\ O(r).user = r.user /\ O(r).url = r.url
      OBVIOUS
    <2>1. r.url \in {"/auth/login", "/auth/logout", "/auth/info"}
      BY DEF Request
    <2> QED
      BY <2>1, AgedFields
  <1>2. Overtaken(rs) = {O(r) : r \in rs}
    BY DEF Overtaken
  <1> HIDE DEF O
  <1> QED
    BY <1>1, <1>2

LEMMA StaleFields ==
  ASSUME NEW rs \in SUBSET Request, NEW w
  PROVE  /\ Stale(rs, w) \in SUBSET Request
         /\ \A q \in Stale(rs, w) :
              \/ q \in rs /\ (q.w # w \/ q.url # "/auth/info")
              \/ q.url = "/auth/info" /\ ~q.fresh
         /\ \A r \in rs : r.url # "/auth/info" => r \in Stale(rs, w)
  <1> DEFINE S(r) == IF r.w = w /\ r.url = "/auth/info" THEN [r EXCEPT !.fresh = FALSE] ELSE r
  <1>1. \A r \in rs :
          /\ S(r) \in Request
          /\ \/ S(r) = r /\ (r.w # w \/ r.url # "/auth/info")
             \/ r.url = "/auth/info" /\ S(r).url = "/auth/info" /\ ~S(r).fresh
    BY AgedFields
  <1>2. Stale(rs, w) = {S(r) : r \in rs}
    BY DEF Stale
  <1> HIDE DEF S
  <1> QED
    BY <1>1, <1>2

LEMMA AnsweredFields ==
  ASSUME NEW r \in Request, NEW rs \in SUBSET Request, NEW code \in {"ok", "error"},
         NEW u \in User \cup {None}
  PROVE  /\ Answered(r, rs, code, u) \in SUBSET Request
         /\ \A q \in Answered(r, rs, code, u) :
              \/ q \in rs \ {r}
              \/ q.w = r.w /\ q.url = r.url /\ q.user = u /\ q.answer = code
         /\ r.to # "nobody" => \E q \in Answered(r, rs, code, u) :
              q.url = r.url /\ q.answer = code /\ q.fresh
  <1> DEFINE q == [r EXCEPT !.answer = code, !.user = u, !.fresh = TRUE]
  <1>1. /\ q \in Request /\ q.w = r.w /\ q.url = r.url /\ q.user = u
        /\ q.answer = code /\ q.fresh
    BY DEF Request
  <1>2. Answered(r, rs, code, u) = (rs \ {r}) \cup (IF r.to = "nobody" THEN {} ELSE {q})
    BY DEF Answered
  <1> HIDE DEF q
  <1> QED
    BY <1>1, <1>2

\* A request a page has just made.
New(q) == q.answer = "none" /\ (Logins(q) => q.user # None)

LEMMA ShowFields ==
  ASSUME NEW w \in Window, NEW x \in Ui, NEW rs \in SUBSET Request, Show(w, x, rs)
  PROVE  /\ ui' = [ui EXCEPT ![w] = x] /\ requests' \in SUBSET Request
         /\ \A q \in requests' : New(q) \/ \E r \in rs : Same(q, r)
         /\ \A r \in rs : \E q \in requests' : Same(q, r)
  <1>1. CASE requests' = rs
    BY <1>1 DEF Show, Same
  <1>2. CASE requests' = Left(rs, w) \cup Created(w, x)
    <2>1. \A q \in Created(w, x) : q \in Request /\ New(q)
      BY CreatedFields DEF New, Logins
    <2> QED
      BY <1>2, <2>1, LeftIsSame DEF Show
  <1> QED
    BY <1>1, <1>2 DEF Show

-----------------------------------------------------------------------------
(* What a window does on its own *)

\* Nobody's name changes, no answer is made, and none that could be missed is lost.
Quiet ==
    /\ session' = session /\ sound' = sound
    /\ \A w \in Window : ui'[w].username = ui[w].username /\ ui'[w].dlmc \in {ui[w].dlmc, None}
    /\ \A q \in requests' : New(q) \/ \E r \in requests : Same(q, r)
    /\ orphan => orphan'
    /\ orphan' \/ \A r \in requests : Told(r) => \E q \in requests' : Same(q, r)

HomeIsOpen ==
    \A w \in Window :
        (/\ ui'[w].page = "main" /\ ui'[w].username = None
         /\ ui[w].page = "login" \/ ui[w].username # None) => NavigateHome(w)

LEMMA QuietTruth ==
  ASSUME TypeOK, Truth, Quiet
  PROVE  Truth'
  <1>1. ShowsItsUser'
    BY DEF Truth, ShowsItsUser, Quiet
  <1>2. ASSUME NEW q \in requests'
        PROVE  True(q)'
    <2>1. CASE New(q)
      BY <2>1 DEF New, True, Told
    <2>2. ASSUME NEW r \in requests, Same(q, r)
          PROVE  True(q)'
      <3>1. True(r) /\ r.w \in Window
        BY DEF Truth, TypeOK, Request
      <3>2. ui'[q.w].username = ui[r.w].username /\ sound'[q.w] = sound[r.w] /\ session' = session
        BY <2>2, <3>1 DEF Quiet, Same
      <3> QED
        BY <2>2, <3>1, <3>2 DEF Same, True, Told, Logins
    <2> QED
      BY <2>1, <2>2 DEF Quiet
  <1>3. NobodyIsLeftLoggedIn'
    BY DEF Truth, NobodyIsLeftLoggedIn, Quiet, Told, Same, Logins
  <1> QED
    BY <1>1, <1>2, <1>3 DEF Truth

\* A window that keeps its name, and shows the main page only if it did or has one.
LEMMA UiStep ==
  ASSUME TypeOK, NEW w \in Window, NEW y \in Ui, ui' = [ui EXCEPT ![w] = y],
         y.username = ui[w].username, y.dlmc \in {ui[w].dlmc, None},
         y.page \in {"login", ui[w].page} \/ y.username # None \/ NavigateHome(w)
  PROVE  /\ ui' \in [Window -> Ui] /\ HomeIsOpen
         /\ \A v \in Window : ui'[v].username = ui[v].username /\ ui'[v].dlmc \in {ui[v].dlmc, None}
  <1>1. ui' \in [Window -> Ui] /\ ui'[w] = y /\ \A v \in Window \ {w} : ui'[v] = ui[v]
    BY DEF TypeOK
  <1> QED
    BY <1>1 DEF HomeIsOpen

LEMMA SendFields ==
  ASSUME TypeOK, NEW w \in Window, NEW r \in Request, New(r), Send(w, r)
  PROVE  /\ requests' \in SUBSET Request /\ sent' \in 0..MaxSent
         /\ \A q \in requests' : New(q) \/ \E p \in requests : Same(q, p)
         /\ \A p \in requests : \E q \in requests' : Same(q, p)
  BY BoundAssumption DEF Send, TypeOK, Same

LEMMA OddFields == TypeOK /\ Odd => odd' \in 0..MaxOdd
  BY BoundAssumption DEF TypeOK, Odd

LEMMA SubmitFormStep ==
  ASSUME TypeOK, NEW w \in Window, NEW u \in User, SubmitForm(w, u)
  PROVE  TypeOK' /\ Quiet /\ HomeIsOpen
  <1> DEFINE y == [ui[w] EXCEPT !.loading = TRUE]
             r == Req(w, "/auth/login", u)
  <1>1. ui[w] \in Ui
    BY DEF TypeOK
  <1>2. y \in Ui /\ y.page = ui[w].page /\ y.username = ui[w].username /\ y.dlmc = ui[w].dlmc
    BY <1>1, ReadyFields
  <1>3. ui' = [ui EXCEPT ![w] = y] /\ Send(w, r)
    BY DEF SubmitForm
  <1>4. r \in Request /\ New(r)
    BY ReqFields, NobodyAssumption DEF New, Logins
  <1> HIDE DEF y, r
  <1>5. /\ ui' \in [Window -> Ui] /\ HomeIsOpen
        /\ \A v \in Window : ui'[v].username = ui[v].username /\ ui'[v].dlmc \in {ui[v].dlmc, None}
    BY <1>2, <1>3, UiStep
  <1> QED
    BY <1>3, <1>4, <1>5, SendFields DEF SubmitForm, TypeOK, Quiet

LEMMA OnLogoutStep ==
  ASSUME TypeOK, NEW w \in Window, OnLogout(w)
  PROVE  TypeOK' /\ Quiet /\ HomeIsOpen
  <1> DEFINE r == Req(w, "/auth/logout", None)
  <1>1. r \in Request /\ New(r)
    BY ReqFields DEF New, Logins
  <1>2. Send(w, r) /\ ui' = ui
    BY DEF OnLogout
  <1> HIDE DEF r
  <1> QED
    BY <1>1, <1>2, SendFields DEF OnLogout, TypeOK, Quiet, HomeIsOpen

\* A page is shown for the same user.
LEMMA ShowStep ==
  ASSUME TypeOK, NEW w \in Window, NEW x \in Ui, Show(w, x, requests), Odd,
         UNCHANGED <<session, sound, orphan, sent>>,
         x.username = ui[w].username, x.dlmc = ui[w].dlmc,
         x.page \in {"login", ui[w].page} \/ x.username # None \/ NavigateHome(w)
  PROVE  TypeOK' /\ Quiet /\ HomeIsOpen
  <1>1. /\ ui' = [ui EXCEPT ![w] = x] /\ requests' \in SUBSET Request
        /\ \A q \in requests' : New(q) \/ \E r \in requests : Same(q, r)
        /\ \A r \in requests : \E q \in requests' : Same(q, r)
    BY ShowFields DEF TypeOK
  <1>2. /\ ui' \in [Window -> Ui] /\ HomeIsOpen
        /\ \A v \in Window : ui'[v].username = ui[v].username /\ ui'[v].dlmc \in {ui[v].dlmc, None}
    BY <1>1, UiStep
  <1> QED
    BY <1>1, <1>2, OddFields DEF TypeOK, Quiet

LEMMA NavigateStep ==
  ASSUME TypeOK, NEW w \in Window, NavigateLogin(w) \/ NavigateHome(w) \/ NavigateOther(w)
  PROVE  TypeOK' /\ Quiet /\ HomeIsOpen
  <1>0. ui[w] \in Ui
    BY DEF TypeOK
  <1>1. CASE NavigateLogin(w)
    BY <1>0, <1>1, PageFields, ShowStep DEF NavigateLogin
  <1>2. CASE NavigateHome(w)
    BY <1>0, <1>2, PageFields, ShowStep DEF NavigateHome
  <1>3. CASE NavigateOther(w) /\ ~Guard(w)
    BY <1>0, <1>3, PageFields, ShowStep DEF NavigateOther, Guard
  <1>4. CASE NavigateOther(w) /\ Guard(w) /\ ui[w].page # "login"
    BY <1>0, <1>4, LoggedOutFields, ShowStep DEF NavigateOther, Guard
  <1>5. CASE NavigateOther(w) /\ Guard(w) /\ ui[w].page = "login"
    <2> DEFINE new == Created(w, MainPage(ui[w]))
               one == Left(requests, w) \cup new
    <2>1. ui' = [ui EXCEPT ![w] = LoginPage(ui[w])] /\ requests' = Left(one, w)
      BY <1>5 DEF NavigateOther, Bounced
    <2>2. \A q \in new : q \in Request /\ New(q)
      BY CreatedFields DEF New, Logins
    <2>3. /\ one \in SUBSET Request
          /\ \A q \in one : New(q) \/ \E r \in requests : Same(q, r)
          /\ \A r \in requests : \E q \in one : Same(q, r)
      BY <2>2, LeftIsSame DEF TypeOK
    <2> HIDE DEF one
    <2>4. /\ requests' \in SUBSET Request
          /\ \A q \in requests' : \E r \in one : Same(q, r)
          /\ \A r \in one : \E q \in requests' : Same(q, r)
      BY <2>1, <2>3, LeftIsSame
    <2>5. /\ \A q \in requests' : New(q) \/ \E r \in requests : Same(q, r)
          /\ \A r \in requests : \E q \in requests' : Same(q, r)
      BY <2>3, <2>4 DEF Same, New, Logins
    <2>6. /\ ui' \in [Window -> Ui] /\ HomeIsOpen
          /\ \A v \in Window : ui'[v].username = ui[v].username /\ ui'[v].dlmc \in {ui[v].dlmc, None}
      BY <1>0, <2>1, PageFields, UiStep
    <2> QED
      BY <1>5, <2>4, <2>5, <2>6, OddFields DEF NavigateOther, TypeOK, Quiet
  <1> QED
    BY <1>1, <1>2, <1>3, <1>4, <1>5

LEMMA ReloadStep ==
  ASSUME TypeOK, NEW w \in Window, Reload(w)
  PROVE  TypeOK' /\ Quiet /\ HomeIsOpen
  <1> DEFINE x == [ui[w] EXCEPT !.dlmc = None]
             y == IF x.page = "login" \/ Guard(w) THEN LoginPage(x) ELSE MainPage(x)
  <1>0. ui[w] \in Ui
    BY DEF TypeOK
  <1>1. x \in Ui /\ x.page = ui[w].page /\ x.username = ui[w].username /\ x.dlmc = None
    BY <1>0, ReadyFields
  <1>2. /\ ui' = [ui EXCEPT ![w] = y]
        /\ requests' = (requests \ Of(w)) \cup Unheard(Of(w)) \cup Created(w, y)
        /\ orphan' = (orphan \/ LosesLogin(Of(w)))
    BY DEF Reload
  <1> HIDE DEF x
  <1>3. /\ y \in Ui /\ y.username = ui[w].username /\ y.dlmc = None
        /\ y.page = "login" \/ y.username # None
    BY <1>1, PageFields DEF Guard
  <1> HIDE DEF y
  <1>4. Of(w) \subseteq requests /\ Of(w) \in SUBSET Request
    BY DEF Of, TypeOK
  <1>5. /\ requests' \in SUBSET Request
        /\ \A q \in requests' : New(q) \/ \E r \in requests : Same(q, r)
    <2>1. \A q \in Created(w, y) : q \in Request /\ New(q)
      BY CreatedFields DEF New, Logins
    <2>2. \A q \in requests \ Of(w) : q \in Request /\ Same(q, q)
      BY DEF TypeOK, Same
    <2> QED
      BY <1>2, <1>4, <2>1, <2>2, UnheardIsSame
  <1>6. orphan' \/ \A r \in requests : Told(r) => \E q \in requests' : Same(q, r)
    <2>1. orphan' \/ \A r \in Of(w) : ~Told(r)
      BY <1>2 DEF LosesLogin, Told, Logins
    <2>2. \A r \in requests \ Of(w) : r \in requests' /\ Same(r, r)
      BY <1>2 DEF Same
    <2> QED
      BY <2>1, <2>2
  <1>7. /\ ui' \in [Window -> Ui] /\ HomeIsOpen
        /\ \A v \in Window : ui'[v].username = ui[v].username /\ ui'[v].dlmc \in {ui[v].dlmc, None}
    BY <1>2, <1>3, UiStep
  <1>8. orphan => orphan'
    BY <1>2
  <1>9. orphan' \in BOOLEAN
    BY <1>2 DEF LosesLogin, TypeOK
  <1> QED
    BY <1>5, <1>6, <1>7, <1>8, <1>9, OddFields DEF Reload, TypeOK, Quiet

LEMMA RequestFailsStep ==
  ASSUME TypeOK, NEW r \in requests, RequestFails(r)
  PROVE  TypeOK' /\ Quiet /\ HomeIsOpen
  <1>1. /\ r.answer = "none" /\ ui' = [ui EXCEPT ![r.w] = Stopped(r)]
        /\ requests' = (requests \ {r}) \cup Unheard({r})
    BY DEF RequestFails, Failed
  <1>2. /\ ui' \in [Window -> Ui] /\ HomeIsOpen
        /\ \A v \in Window : ui'[v].username = ui[v].username /\ ui'[v].dlmc \in {ui[v].dlmc, None}
    BY <1>1, StoppedFields, UiStep
  <1>3. /\ requests' \in SUBSET Request
        /\ \A q \in requests' : New(q) \/ \E p \in requests : Same(q, p)
    <2>1. {r} \in SUBSET Request /\ requests \in SUBSET Request
      BY DEF TypeOK
    <2>2. /\ Unheard({r}) \in SUBSET Request
          /\ \A q \in Unheard({r}) : Same(q, r)
      BY <2>1, UnheardIsSame
    <2>3. \A q \in requests : Same(q, q)
      BY DEF Same
    <2> QED
      BY <1>1, <2>1, <2>2, <2>3
  <1>4. \A p \in requests : Told(p) => p \in requests' /\ Same(p, p)
    BY <1>1 DEF Told, Same
  <1> QED
    BY <1>2, <1>3, <1>4 DEF RequestFails, TypeOK, Quiet

-----------------------------------------------------------------------------
(* What the server does *)

LEMMA ServeLoginStep ==
  ASSUME TypeOK, Truth, NEW r \in requests, ServeLogin(r)
  PROVE  TypeOK' /\ Truth'
  <1> DEFINE rs == Overtaken(requests)
  <1>1. r \in Request /\ requests \in SUBSET Request /\ r.user \in User \cup {None} /\ r.user # None
    BY DEF TypeOK, Request, Truth, True, ServeLogin, Logins
  <1>2. /\ rs \in SUBSET Request
        /\ \A q \in rs :
              \/ q \in requests /\ (q.url = "/auth/info" \/ q.answer = "none")
              \/ q.url # "/auth/info" /\ ~q.fresh /\ \E p \in requests : q.user = p.user /\ q.url = p.url
    BY <1>1, OvertakenFields
  <1>3. requests' = Answered(r, rs, "ok", r.user) /\ session' = r.user /\ ui' = ui
        /\ sound' = [w \in Window |-> FALSE] /\ orphan' = (r.to = "nobody")
        /\ sent' = sent /\ odd' = odd /\ Logins(r)
    BY DEF ServeLogin, Logins
  <1> HIDE DEF rs
  <1>4. /\ requests' \in SUBSET Request
        /\ \A q \in requests' :
              \/ q \in rs \ {r}
              \/ q.w = r.w /\ q.url = r.url /\ q.user = r.user /\ q.answer = "ok"
        /\ r.to # "nobody" => \E q \in requests' : q.url = r.url /\ q.answer = "ok" /\ q.fresh
    <2>1. r \in Request /\ rs \in SUBSET Request /\ "ok" \in {"ok", "error"} /\ r.user \in User \cup {None}
      BY <1>1, <1>2
    <2> QED
      BY <1>3, <2>1, AnsweredFields
  <1>5. TypeOK'
    BY <1>1, <1>3, <1>4 DEF TypeOK
  <1>6. ShowsItsUser'
    BY <1>3 DEF ShowsItsUser
  <1>7. ASSUME NEW q \in requests'
        PROVE  True(q)'
    <2>1. q \in Request /\ ~sound'[q.w]
      BY <1>3, <1>4 DEF Request
    <2>2. CASE q.w = r.w /\ q.url = r.url /\ q.user = r.user /\ q.answer = "ok"
      BY <1>1, <1>3, <2>2 DEF True, Told, Logins
    <2>3. CASE q \in requests /\ (q.url = "/auth/info" \/ q.answer = "none")
      BY <2>1, <2>3 DEF True, Told, Logins, Truth
    <2>4. CASE q.url # "/auth/info" /\ ~q.fresh /\ \E p \in requests : q.user = p.user /\ q.url = p.url
      BY <2>4 DEF True, Told, Logins, Truth
    <2> QED
      BY <1>2, <1>4, <2>2, <2>3, <2>4
  <1>8. NobodyIsLeftLoggedIn'
    BY <1>3, <1>4 DEF NobodyIsLeftLoggedIn, Logins
  <1> QED
    BY <1>5, <1>6, <1>7, <1>8 DEF Truth

LEMMA ServeNobodyStep ==
  ASSUME TypeOK, Truth, NEW r \in requests, RefuseLogin(r) \/ ServeLogout(r)
  PROVE  TypeOK' /\ Truth'
  <1> DEFINE rs == Overtaken(requests)
  <1>1. /\ r \in Request /\ requests \in SUBSET Request /\ r.user \in User \cup {None}
        /\ Logins(r) => r.user # None
    BY DEF TypeOK, Request, Truth, True
  <1>2. /\ rs \in SUBSET Request
        /\ \A q \in rs :
              \/ q \in requests /\ (q.url = "/auth/info" \/ q.answer = "none")
              \/ q.url # "/auth/info" /\ ~q.fresh /\ \E p \in requests : q.user = p.user /\ q.url = p.url
    BY <1>1, OvertakenFields
  <1>3. PICK code \in {"ok", "error"}, u \in User \cup {None} :
           /\ requests' = Answered(r, rs, code, u)
           /\ Logins(r) => code = "error" /\ u = r.user
    BY <1>1 DEF RefuseLogin, ServeLogout, Logins
  <1>4. /\ session' = None /\ ui' = ui /\ sound' = sound /\ orphan' = FALSE
        /\ sent' = sent /\ odd' = odd /\ r.url # "/auth/info"
    BY DEF RefuseLogin, ServeLogout
  <1> HIDE DEF rs
  <1>5. /\ requests' \in SUBSET Request
        /\ \A q \in requests' :
              \/ q \in rs \ {r}
              \/ q.w = r.w /\ q.url = r.url /\ q.user = u /\ q.answer = code
    <2>1. r \in Request /\ rs \in SUBSET Request
      BY <1>1, <1>2
    <2> QED
      BY <1>3, <2>1, AnsweredFields
  <1>6. TypeOK'
    BY <1>1, <1>4, <1>5 DEF TypeOK
  <1>7. ShowsItsUser'
    BY <1>4 DEF ShowsItsUser, Truth
  <1>8. ASSUME NEW q \in requests'
        PROVE  True(q)'
    <2>2. CASE q.w = r.w /\ q.url = r.url /\ q.user = u /\ q.answer = code
      BY <1>1, <1>3, <1>4, <2>2 DEF True, Told, Logins
    <2>3. CASE q \in requests /\ (q.url = "/auth/info" \/ q.answer = "none")
      BY <1>4, <2>3 DEF True, Told, Logins, Truth
    <2>4. CASE q.url # "/auth/info" /\ ~q.fresh /\ \E p \in requests : q.user = p.user /\ q.url = p.url
      BY <2>4 DEF True, Told, Logins, Truth
    <2> QED
      BY <1>2, <1>5, <2>2, <2>3, <2>4
  <1>9. NobodyIsLeftLoggedIn'
    BY <1>4 DEF NobodyIsLeftLoggedIn
  <1> QED
    BY <1>6, <1>7, <1>8, <1>9 DEF Truth

LEMMA ServeInfoStep ==
  ASSUME TypeOK, Truth, NEW r \in requests, ServeInfo(r)
  PROVE  TypeOK' /\ Truth'
  <1>1. r \in Request /\ session \in User \cup {None} /\ r.url = "/auth/info" /\ r.answer = "none"
    BY DEF TypeOK, ServeInfo
  <1>2. PICK a \in Request :
           /\ a.w = r.w /\ a.url = r.url /\ a.user = session /\ (a.answer = "ok" => session # None)
           /\ requests' = (requests \ {r}) \cup {a}
    <2> DEFINE a == [r EXCEPT !.answer = IF session = None THEN "error" ELSE "ok", !.user = session]
    <2>1. /\ a \in Request /\ a.w = r.w /\ a.url = r.url /\ a.user = session
          /\ a.answer = "ok" => session # None
      BY <1>1 DEF Request
    <2>2. requests' = (requests \ {r}) \cup {a}
      BY DEF ServeInfo
    <2> HIDE DEF a
    <2> QED
      BY <2>1, <2>2
  <1>3. UNCHANGED <<session, ui, sound, orphan, sent, odd>>
    BY DEF ServeInfo
  <1>4. TypeOK'
    BY <1>2, <1>3 DEF TypeOK
  <1>5. ShowsItsUser'
    BY <1>3 DEF ShowsItsUser, Truth
  <1>6. True(a)'
    <2>1. a.w \in Window
      BY <1>2 DEF Request
    <2>2. sound[a.w] /\ ui[a.w].username # None => session \in {None, ui[a.w].username}
      BY <2>1 DEF Truth, ShowsItsUser
    <2> QED
      BY <1>1, <1>2, <1>3, <2>2 DEF True, Told, Logins
  <1>7. \A q \in requests : True(q)'
    BY <1>3 DEF Truth, True, Told
  <1>8. NobodyIsLeftLoggedIn'
    BY <1>1, <1>2, <1>3 DEF Truth, NobodyIsLeftLoggedIn
  <1> QED
    BY <1>2, <1>4, <1>5, <1>6, <1>7, <1>8 DEF Truth

LEMMA SessionEndsStep == TypeOK /\ Truth /\ SessionEnds => TypeOK' /\ Truth'
  <1> SUFFICES ASSUME TypeOK, Truth, SessionEnds PROVE TypeOK' /\ Truth'
    OBVIOUS
  <1>1. TypeOK'
    BY OddFields DEF SessionEnds, TypeOK
  <1>2. session' = None /\ UNCHANGED <<ui, requests, sound>>
    BY DEF SessionEnds
  <1> QED
    BY <1>1, <1>2 DEF Truth, ShowsItsUser, NobodyIsLeftLoggedIn, True, Told

-----------------------------------------------------------------------------
(* What the answers do *)

LEMMA LoginOkStep ==
  ASSUME TypeOK, Truth, NEW r \in requests, LoginAnswered(r), r.answer = "ok"
  PROVE  TypeOK' /\ Truth' /\ HomeIsOpen
  <1> DEFINE x == LoggedIn(Stopped(r), r.user)
             w == r.w
             rs == Stale(requests \ {r}, w)
  <1>1. /\ w \in Window /\ r.user \in User \cup {None} /\ r.fresh \in BOOLEAN
        /\ Logins(r) /\ r.user # None /\ (r.fresh => session \in {None, r.user})
    BY DEF TypeOK, Request, Truth, True, Told, LoginAnswered, Logins
  <1>2. x \in Ui /\ x.page = "main" /\ x.username = r.user /\ x.dlmc = r.user
    BY <1>1, StoppedFields, LoggedInFields
  <1>3. /\ rs \in SUBSET Request
        /\ \A q \in rs : \/ q \in requests \ {r} /\ (q.w # w \/ q.url # "/auth/info")
                         \/ q.url = "/auth/info" /\ ~q.fresh
        /\ \A q \in requests \ {r} : q.url # "/auth/info" => q \in rs
    <2>1. requests \ {r} \in SUBSET Request
      BY DEF TypeOK
    <2> QED
      BY <2>1, StaleFields
  <1>4. Show(w, x, rs) /\ sound' = [sound EXCEPT ![w] = r.fresh]
        /\ UNCHANGED <<session, orphan, sent, odd>>
    BY DEF LoginAnswered, Committed
  <1> HIDE DEF x, rs
  <1>5. /\ ui' = [ui EXCEPT ![w] = x] /\ requests' \in SUBSET Request
        /\ \A q \in requests' : New(q) \/ \E p \in rs : Same(q, p)
    BY <1>1, <1>2, <1>3, <1>4, ShowFields
  <1>6. /\ ui'[w] = x /\ sound'[w] = r.fresh
        /\ \A v \in Window \ {w} : ui'[v] = ui[v] /\ sound'[v] = sound[v]
    BY <1>1, <1>4, <1>5 DEF TypeOK
  <1>7. TypeOK'
    BY <1>1, <1>2, <1>4, <1>5 DEF TypeOK
  <1>8. ShowsItsUser'
    BY <1>1, <1>2, <1>4, <1>6 DEF ShowsItsUser, Truth
  <1>9. ASSUME NEW q \in requests'
        PROVE  True(q)'
    <2>1. CASE New(q)
      BY <2>1 DEF New, True, Told
    <2>2. ASSUME NEW p \in rs, Same(q, p), p \in requests, p.w # w \/ p.url # "/auth/info"
          PROVE  True(q)'
      <3>1. True(p) /\ p.w \in Window /\ session' = session
        BY <1>4, <2>2 DEF Truth, TypeOK, Request
      <3>2. p.url = "/auth/info" => ui'[p.w] = ui[p.w] /\ sound'[p.w] = sound[p.w]
        BY <1>6, <2>2, <3>1
      <3> QED
        BY <2>2, <3>1, <3>2 DEF Same, True, Told, Logins
    <2>3. ASSUME NEW p \in rs, Same(q, p), p.url = "/auth/info", ~p.fresh
          PROVE  True(q)'
      BY <2>3 DEF Same, True, Told, Logins
    <2> QED
      BY <1>3, <1>5, <2>1, <2>2, <2>3
  <1>10. NobodyIsLeftLoggedIn'
    BY <1>1, <1>2, <1>6 DEF NobodyIsLeftLoggedIn
  <1>11. HomeIsOpen
    BY <1>1, <1>2, <1>6 DEF HomeIsOpen
  <1> QED
    BY <1>7, <1>8, <1>9, <1>10, <1>11 DEF Truth

LEMMA LoginErrorStep ==
  ASSUME TypeOK, NEW r \in requests, LoginAnswered(r), r.answer # "ok"
  PROVE  TypeOK' /\ Quiet /\ HomeIsOpen
  <1>1. /\ Show(r.w, Stopped(r), requests \ {r})
        /\ UNCHANGED <<session, sound, orphan, sent, odd>>
    BY DEF LoginAnswered
  <1>2. /\ r.w \in Window /\ Stopped(r) \in Ui /\ requests \ {r} \in SUBSET Request
        /\ Stopped(r).page = ui[r.w].page /\ Stopped(r).username = ui[r.w].username
        /\ Stopped(r).dlmc = ui[r.w].dlmc
    BY StoppedFields DEF TypeOK
  <1>3. /\ ui' = [ui EXCEPT ![r.w] = Stopped(r)] /\ requests' \in SUBSET Request
        /\ \A q \in requests' : New(q) \/ \E p \in requests \ {r} : Same(q, p)
        /\ \A p \in requests \ {r} : \E q \in requests' : Same(q, p)
    BY <1>1, <1>2, ShowFields
  <1>4. /\ ui' \in [Window -> Ui] /\ HomeIsOpen
        /\ \A v \in Window : ui'[v].username = ui[v].username /\ ui'[v].dlmc \in {ui[v].dlmc, None}
    BY <1>2, <1>3, UiStep
  <1>5. \A p \in requests : Told(p) => \E q \in requests' : Same(q, p)
    BY <1>3 DEF Told
  <1> QED
    BY <1>1, <1>3, <1>4, <1>5 DEF TypeOK, Quiet

LEMMA InfoStep ==
  ASSUME TypeOK, Truth, NEW r \in requests, InfoAnswered(r)
  PROVE  TypeOK' /\ Truth' /\ HomeIsOpen
  <1> DEFINE w == r.w
             y == [ui[w] EXCEPT !.dlmc = r.user]
  <1>1. /\ w \in Window /\ r.user \in User \cup {None} /\ r.fresh \in BOOLEAN
        /\ r.url = "/auth/info" /\ r.answer \in {"ok", "error"} /\ ui[w] \in Ui
    BY DEF TypeOK, Request, InfoAnswered
  <1>2. y \in Ui /\ y.page = ui[w].page /\ y.username = ui[w].username /\ y.dlmc = r.user
    BY <1>1 DEF Ui
  <1>3. /\ requests' = requests \ {r} /\ UNCHANGED <<session, orphan, sent, odd>>
        /\ ui' = IF r.answer = "ok" THEN [ui EXCEPT ![w] = y] ELSE ui
        /\ sound' = [sound EXCEPT ![w] = sound[w] /\ (r.fresh \/ r.answer = "error")]
    BY DEF InfoAnswered
  <1> HIDE DEF y
  <1>4. /\ sound' \in [Window -> BOOLEAN] /\ \A v \in Window : sound'[v] => sound[v]
        /\ sound'[w] => r.fresh \/ r.answer = "error"
    BY <1>1, <1>3 DEF TypeOK
  <1>5. /\ ui' \in [Window -> Ui] /\ \A v \in Window \ {w} : ui'[v] = ui[v]
        /\ ui'[w] = IF r.answer = "ok" THEN y ELSE ui[w]
    BY <1>1, <1>2, <1>3 DEF TypeOK
  <1>6. \A v \in Window : ui'[v].page = ui[v].page /\ ui'[v].username = ui[v].username
    BY <1>2, <1>5
  <1>7. TypeOK'
    BY <1>3, <1>4, <1>5 DEF TypeOK
  <1>8. True(r)
    BY DEF Truth
  <1>9. ASSUME NEW v \in Window, sound'[v], ui'[v].username # None
        PROVE  session \in {None, ui'[v].username} /\ ui'[v].dlmc \in {None, ui'[v].username}
    <2>1. session \in {None, ui[v].username} /\ ui[v].dlmc \in {None, ui[v].username}
      BY <1>4, <1>6, <1>9 DEF Truth, ShowsItsUser
    <2>2. CASE v = w /\ r.answer = "ok"
      <3>1. r.user = ui[w].username
        BY <1>1, <1>4, <1>6, <1>8, <1>9, <2>2 DEF True
      <3> QED
        BY <1>2, <1>5, <2>1, <2>2, <3>1
    <2>3. CASE v # w \/ r.answer # "ok"
      BY <1>5, <2>1, <2>3
    <2> QED
      BY <2>2, <2>3
  <1>10. ShowsItsUser'
    BY <1>3, <1>9 DEF ShowsItsUser
  <1>11. ASSUME NEW q \in requests'
         PROVE  True(q)'
    <2>1. True(q) /\ q.w \in Window
      BY <1>3 DEF Truth, TypeOK, Request
    <2> QED
      BY <1>3, <1>4, <1>6, <2>1 DEF True, Told
  <1>12. NobodyIsLeftLoggedIn'
    BY <1>1, <1>3, <1>6 DEF Truth, NobodyIsLeftLoggedIn
  <1>13. HomeIsOpen
    BY <1>6 DEF HomeIsOpen
  <1> QED
    BY <1>7, <1>10, <1>11, <1>12, <1>13 DEF Truth

LEMMA LogoutStep ==
  ASSUME TypeOK, Truth, NEW r \in requests, LogoutAnswered(r)
  PROVE  TypeOK' /\ Truth' /\ HomeIsOpen
  <1> DEFINE w == r.w
             x == LoggedOut(ui[w])
  <1>1. w \in Window /\ ui[w] \in Ui /\ r.fresh \in BOOLEAN /\ requests \ {r} \in SUBSET Request
    BY DEF TypeOK, Request
  <1>2. x \in Ui /\ x.page = "login" /\ x.username = None
    BY <1>1, LoggedOutFields
  <1>3. /\ Show(w, x, requests \ {r}) /\ orphan' = (orphan \/ ~r.fresh)
        /\ UNCHANGED <<session, sound, sent, odd>>
        /\ r.url = "/auth/logout" /\ r.answer # "none"
    BY DEF LogoutAnswered
  <1> HIDE DEF x
  <1>4. /\ ui' = [ui EXCEPT ![w] = x] /\ requests' \in SUBSET Request
        /\ \A q \in requests' : New(q) \/ \E p \in requests \ {r} : Same(q, p)
    BY <1>1, <1>2, <1>3, ShowFields
  <1>5. /\ ui' \in [Window -> Ui] /\ ui'[w] = x /\ \A v \in Window \ {w} : ui'[v] = ui[v]
    BY <1>1, <1>2, <1>4 DEF TypeOK
  <1>6. TypeOK'
    BY <1>1, <1>3, <1>4, <1>5 DEF TypeOK
  <1>7. ShowsItsUser'
    BY <1>2, <1>3, <1>5 DEF ShowsItsUser, Truth
  <1>8. ASSUME NEW q \in requests'
        PROVE  True(q)'
    <2>1. CASE New(q)
      BY <2>1 DEF New, True, Told
    <2>2. ASSUME NEW p \in requests, Same(q, p)
          PROVE  True(q)'
      <3>1. True(p) /\ p.w \in Window
        BY DEF Truth, TypeOK, Request
      <3>2. ui'[p.w].username \in {None, ui[p.w].username}
        BY <1>2, <1>5, <3>1
      <3> QED
        BY <1>3, <2>2, <3>1, <3>2 DEF Same, True, Told, Logins
    <2> QED
      BY <1>4, <2>1, <2>2
  <1>9. NobodyIsLeftLoggedIn'
    <2>1. r.fresh => session = None
      BY <1>3 DEF Truth, True
    <2> QED
      BY <1>3, <2>1 DEF NobodyIsLeftLoggedIn
  <1>10. HomeIsOpen
    BY <1>2, <1>5 DEF HomeIsOpen
  <1> QED
    BY <1>6, <1>7, <1>8, <1>9, <1>10 DEF Truth

-----------------------------------------------------------------------------
LEMMA InitIsTrue == Init => TypeOK /\ Truth
  <1> SUFFICES ASSUME Init PROVE TypeOK /\ Truth
    OBVIOUS
  <1>1. TypeOK
    <2>1. ui \in [Window -> Ui] /\ sound \in [Window -> BOOLEAN]
      BY DEF Init, Ui
    <2>2. sent \in 0..MaxSent /\ odd \in 0..MaxOdd
      BY BoundAssumption DEF Init
    <2> QED
      BY <2>1, <2>2 DEF Init, TypeOK
  <1>2. Truth
    BY DEF Init, Truth, ShowsItsUser, NobodyIsLeftLoggedIn
  <1> QED
    BY <1>1, <1>2

LEMMA StepIsTrue == TypeOK /\ Truth /\ [Next]_vars => TypeOK' /\ Truth' /\ HomeIsOpen
  <1> SUFFICES ASSUME TypeOK, Truth, [Next]_vars PROVE TypeOK' /\ Truth' /\ HomeIsOpen
    OBVIOUS
  <1>1. CASE UNCHANGED vars
    <2>1. UNCHANGED <<session, ui, requests, sent, odd, sound, orphan>>
      BY <1>1 DEF vars
    <2>2. TypeOK' /\ HomeIsOpen
      BY <2>1 DEF TypeOK, HomeIsOpen
    <2>3. ShowsItsUser' /\ NobodyIsLeftLoggedIn'
      BY <2>1 DEF Truth, ShowsItsUser, NobodyIsLeftLoggedIn
    <2>4. \A r \in requests' : True(r)'
      BY <2>1 DEF Truth, True, Told
    <2> QED
      BY <2>2, <2>3, <2>4 DEF Truth
  <1>2. ASSUME NEW w \in Window,
               \/ \E u \in User : SubmitForm(w, u)
               \/ OnLogout(w) \/ Reload(w)
               \/ NavigateLogin(w) \/ NavigateHome(w) \/ NavigateOther(w)
        PROVE  TypeOK' /\ Truth' /\ HomeIsOpen
    BY <1>2, SubmitFormStep, OnLogoutStep, ReloadStep, NavigateStep, QuietTruth
  <1>3. ASSUME NEW r \in requests,
               ServeLogin(r) \/ RefuseLogin(r) \/ ServeInfo(r) \/ ServeLogout(r)
        PROVE  TypeOK' /\ Truth' /\ HomeIsOpen
    <2>1. HomeIsOpen
      BY <1>3 DEF ServeLogin, RefuseLogin, ServeInfo, ServeLogout, HomeIsOpen
    <2> QED
      BY <1>3, <2>1, ServeLoginStep, ServeNobodyStep, ServeInfoStep
  <1>4. ASSUME NEW r \in requests, Answer(r)
        PROVE  TypeOK' /\ Truth' /\ HomeIsOpen
    BY <1>4, LoginOkStep, LoginErrorStep, QuietTruth, InfoStep, LogoutStep DEF Answer
  <1>5. ASSUME NEW r \in requests, RequestFails(r)
        PROVE  TypeOK' /\ Truth' /\ HomeIsOpen
    BY <1>5, RequestFailsStep, QuietTruth
  <1>6. CASE SessionEnds
    <2>1. HomeIsOpen
      BY <1>6 DEF SessionEnds, HomeIsOpen
    <2> QED
      BY <1>6, <2>1, SessionEndsStep
  <1> QED
    BY <1>1, <1>2, <1>3, <1>4, <1>5, <1>6 DEF Next

LEMMA TruthAlways == Spec => [](TypeOK /\ Truth)
  BY InitIsTrue, StepIsTrue, PTL DEF Spec

\* The windows, the requests under way and the session keep their types.
THEOREM TypesAreRight == Spec => []TypeOK
  BY TruthAlways, PTL

\* A window whose login was the last of all served, and which took no answer
\* older than it, shows the menus of its user, and that user is who the server
\* takes it for.
THEOREM WindowsShowTheirUser == Spec => []ShowsItsUser
  <1>1. Truth => ShowsItsUser
    BY DEF Truth
  <1> QED
    BY <1>1, TruthAlways, PTL

\* When no window is logged in, the browser's session is nobody's, unless the
\* answer to its login is under way, was lost, or met a late answer to a logout.
THEOREM NobodyIsForgotten == Spec => []NobodyIsLeftLoggedIn
  <1>1. Truth => NobodyIsLeftLoggedIn
    BY DEF Truth
  <1> QED
    BY <1>1, TruthAlways, PTL

\* Without a user name the main page is entered, or kept, in one way only: from
\* the login page to /home.
THEOREM OnlyHomeOpens == Spec => OnlyHomeIsOpen
  <1>1. TypeOK /\ Truth /\ [Next]_vars => [HomeIsOpen]_vars
    BY StepIsTrue
  <1>2. [][HomeIsOpen]_vars => OnlyHomeIsOpen
    <2>1. [HomeIsOpen]_vars =>
          [\A w \in Window :
            (/\ ui'[w].page = "main" /\ ui'[w].username = None
             /\ ui[w].page = "login" \/ ui[w].username # None) => NavigateHome(w)]_vars
      BY DEF HomeIsOpen
    <2> QED
      BY <2>1, PTL DEF OnlyHomeIsOpen
  <1> QED
    BY <1>1, <1>2, TruthAlways, PTL DEF Spec
=============================================================================
