----------------------------- MODULE MCAccounts -----------------------------
(* Instance and properties of Accounts. *)
EXTENDS Accounts

\* A login name is the name of the first user that was inserted with it, for
\* good: it logs that user in while the user and the department are there,
\* whatever they are called by now, and nobody else (insertBean,
\* saveUserAuth and deleteBean of RsUserServiceImpl; loadUserByUsername).
LogsInTheFirst ==
    \A n \in Dlmc : LogsInAs(n) =
        IF /\ n \in DOMAIN first /\ first[n] \in DOMAIN users
           /\ users[first[n]].bmbh \in DOMAIN depts
        THEN first[n] ELSE Nothing

\* Unless one was put under a department that was being deleted, every
\* department hangs on the root (insertBean and deleteBean of RsDeptServiceImpl).
EveryDeptHangs == ~overlapped => \A d \in DOMAIN depts : Climbs(Bmpbh, d)

\* When they do, a system administrator is shown every department, any other
\* user the own one and those below it, but never department 1, each once and
\* in its place (queryDeptTree, which takes department 1 away; DeptTools).
DeptTreesAreRight ==
    (\A d \in DOMAIN depts : Climbs(Bmpbh, d)) =>
        /\ ShowsOnce(DeptTree, Bmpbh, DOMAIN depts)
        /\ \A d \in DOMAIN depts :
             /\ ShowsOnce(DeptTreeOf(d), Seen(d), Below(Bmpbh, d))
             /\ DeptsGivenTo(d) = Below(Bmpbh, d) \ {1}

\* The roles and departments of a user, and the users of a department, go
\* with it, but for those added while it went (deleteBean of both services).
LinksGoToo == \A l \in links \ late : l.yhbh \in DOMAIN users /\ l.of \in DOMAIN depts \cup {0}

\* No method waits for ever, neither for a row nor for a key that is fetched
\* on another connection (getZipKey inside a transaction).
EveryMethodEnds == \A a \in Admin : tx[a].pc # "idle" ~> tx[a].pc = "idle"
=============================================================================
