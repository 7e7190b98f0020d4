---------------------------- MODULE AdminSession ----------------------------
(***************************************************************************)
(* Signing in to the admin UI: the session check that guards the pages     *)
(* (App.tsx), the login page, the page that forces a new password, the     *)
(* password card of the account page, signing out, and the handlers behind *)
(* them (backend/routers/auth.py, backend/auth.py).                        *)
(*                                                                         *)
(* A tab sends requests and goes on when their answers come back; the      *)
(* handlers run in worker threads, so that a login or a change reads the   *)
(* admin's row, computes a slow hash, and only then writes: other requests *)
(* are served in between.  All tabs share the bucket of the rate limiter,  *)
(* as they do behind the ingress proxy (_client_ip).                       *)
(***************************************************************************)
EXTENDS Naturals, FiniteSets

CONSTANTS
    Tab,           \* browser tabs
    Browser,       \* browsers; the tabs of one share its cookie
    BrowserOf,     \* [Tab -> Browser]
    Strong,        \* passwords the forms let through (12 characters or more)
    Default,       \* the shipped password: too short for the forms
    MaxFailures,   \* LoginRateLimiter.max_failures
    MaxWrong,      \* bound: wrong passwords typed
    MaxLoads,      \* bound: pages opened by hand
    MaxReqs        \* bound: requests under way when a form is sent or a page opened

ASSUME TabsAssumption == BrowserOf \in [Tab -> Browser]
ASSUME PasswordAssumption == Default \notin Strong /\ Strong # {}
ASSUME BoundAssumption == MaxFailures \in Nat \ {0} /\ MaxWrong \in Nat /\ MaxLoads \in Nat
                          /\ MaxReqs \in Nat \ {0}

VARIABLES
    password,      \* AdminUser.hashed_password
    mustChange,    \* AdminUser.must_change_password
    limiter,       \* the bucket: failures so far, and whether it is locked
    cookie,        \* [Browser -> BOOLEAN]: it holds a session cookie with a user id
    tab,           \* [Tab -> the page it shows, and whether its form is busy]
    reqs,          \* requests on their way, at the handler, or answered
    loads,         \* pages opened by hand so far (bounded by MaxLoads)
    typedWrong,    \* wrong passwords typed so far (bounded by MaxWrong)
    defaultIn      \* history: the default password was let in and still is the password

vars == <<password, mustChange, limiter, cookie, tab, reqs, loads, typedWrong, defaultIn>>

Password == Strong \cup {Default}
NoPassword == "none"
View == {"checking", "pages", "error", "login", "change"}
Kind == {"check", "login", "change", "voluntary", "logout"}
Status == {"none", "ok", "must", "unauthorized", "wrong", "locked", "failed", "network"}

\* auth is the cookie a request was sent with, live says that its tab still waits for
\* it, seenPw and seenMust are the admin's row as the handler read it; inLockout is
\* history: it was sent while the bucket was locked, and that lockout is not over.
Request == [tab : Tab, kind : Kind, auth : BOOLEAN, live : BOOLEAN,
            pw : Password \cup {NoPassword}, cur : Password \cup {NoPassword},
            phase : {"sent", "read", "done"}, status : Status,
            seenPw : Password \cup {NoPassword}, seenMust : BOOLEAN,
            inLockout : BOOLEAN]

NewRequest(t, k, auth, pw, cur) ==
    [tab |-> t, kind |-> k, auth |-> auth, live |-> TRUE, pw |-> pw, cur |-> cur,
     phase |-> "sent", status |-> "none", seenPw |-> NoPassword, seenMust |-> FALSE,
     inLockout |-> limiter.locked]

\* Showing a page starts from a fresh component; the guarded pages first ask the
\* add-on whether the session is good.
Arrive(t, view) == tab' = [tab EXCEPT ![t] = [view |-> view, busy |-> FALSE]]
OnArrival(t, view, auth) ==
    IF view = "checking" THEN {NewRequest(t, "check", auth, NoPassword, NoPassword)} ELSE {}

\* One request of a kind per tab, and MaxReqs in all, not counting logins.
Idle(t, k) ==
    /\ \A r \in reqs : ~(r.tab = t /\ r.kind = k)
    /\ k # "login" => Cardinality(reqs) < MaxReqs

-----------------------------------------------------------------------------
(* The browser: opening the UI, the forms, and signing out.                *)

\* A full load of the UI: the tab starts over, and nobody is left to hear the
\* answers of its earlier requests.
StartOver(t, view) ==
    /\ Arrive(t, view)
    /\ reqs' = {[r EXCEPT !.live = (@ /\ r.tab # t)] : r \in reqs}
                 \cup OnArrival(t, view, cookie[BrowserOf[t]])

\* The button of the panel that says the session could not be checked.
Reload(t) ==
    /\ tab[t].view = "error"
    /\ Idle(t, "check")
    /\ StartOver(t, "checking")
    /\ UNCHANGED <<password, mustChange, limiter, cookie, loads, typedWrong, defaultIn>>

\* The address bar, a bookmark or the browser's reload.
Load(t, view) ==
    /\ view \in {"checking", "login", "change"}
    /\ loads < MaxLoads /\ loads' = loads + 1
    /\ Idle(t, "check")
    /\ StartOver(t, view)
    /\ UNCHANGED <<password, mustChange, limiter, cookie, typedWrong, defaultIn>>

\* Login.handleSubmit up to its fetch.
SubmitLogin(t, pw) ==
    /\ tab[t] = [view |-> "login", busy |-> FALSE]
    /\ Idle(t, "login")
    /\ pw # password => typedWrong < MaxWrong
    /\ typedWrong' = IF pw # password THEN typedWrong + 1 ELSE typedWrong
    /\ tab' = [tab EXCEPT ![t].busy = TRUE]
    /\ reqs' = reqs \cup {NewRequest(t, "login", cookie[BrowserOf[t]], pw, NoPassword)}
    /\ UNCHANGED <<password, mustChange, limiter, cookie, loads, defaultIn>>

\* ChangePassword.handleSubmit up to its fetch: the form has refused what is too
\* short or was not repeated, and sends no current password.
SubmitChange(t, new) ==
    /\ tab[t] = [view |-> "change", busy |-> FALSE]
    /\ Idle(t, "change")
    /\ new \in Strong
    /\ ~mustChange => typedWrong < MaxWrong
    /\ typedWrong' = IF mustChange THEN typedWrong ELSE typedWrong + 1
    /\ tab' = [tab EXCEPT ![t].busy = TRUE]
    /\ reqs' = reqs \cup {NewRequest(t, "change", cookie[BrowserOf[t]], new, NoPassword)}
    /\ UNCHANGED <<password, mustChange, limiter, cookie, loads, defaultIn>>

\* PasswordChangeCard.onSubmit up to its fetch.
SubmitVoluntary(t, cur, new) ==
    /\ tab[t] = [view |-> "pages", busy |-> FALSE]
    /\ Idle(t, "voluntary")
    /\ new \in Strong
    /\ cur # password => typedWrong < MaxWrong
    /\ typedWrong' = IF cur # password THEN typedWrong + 1 ELSE typedWrong
    /\ tab' = [tab EXCEPT ![t].busy = TRUE]
    /\ reqs' = reqs \cup {NewRequest(t, "voluntary", cookie[BrowserOf[t]], new, cur)}
    /\ UNCHANGED <<password, mustChange, limiter, cookie, loads, defaultIn>>

\* useLogout up to its fetch: it does not wait for the password card.
SubmitLogout(t) ==
    /\ tab[t].view = "pages"
    /\ Idle(t, "logout")
    /\ reqs' = reqs \cup {NewRequest(t, "logout", cookie[BrowserOf[t]], NoPassword, NoPassword)}
    /\ UNCHANGED <<password, mustChange, limiter, cookie, tab, loads, typedWrong, defaultIn>>

\* The cookie lives for a day (SessionMiddleware, max_age).
Expire(b) ==
    /\ cookie[b]
    /\ cookie' = [cookie EXCEPT ![b] = FALSE]
    /\ UNCHANGED <<password, mustChange, limiter, tab, reqs, loads, typedWrong, defaultIn>>

-----------------------------------------------------------------------------
(* The handlers.                                                           *)

Answered(r, status) == [r EXCEPT !.phase = "done", !.status = status]
Reply(r, status) == reqs' = (reqs \ {r}) \cup {Answered(r, status)}

\* The lockout a request was sent in is over.
Freed(rs) == {[q EXCEPT !.inLockout = FALSE] : q \in rs}

\* LoginRateLimiter.register_failure: after MaxFailures failures the bucket is
\* locked; one more failure after a lockout locks it again.
\* Mutant: a lockout starts one failure late.
LateLockout ==
    IF limiter.failures < MaxFailures
    THEN [failures |-> limiter.failures + 1, locked |-> FALSE]
    ELSE [failures |-> MaxFailures - 1, locked |-> TRUE]
AfterFailure ==
    IF limiter.failures + 1 < MaxFailures
    THEN [failures |-> limiter.failures + 1, locked |-> FALSE]
    ELSE [failures |-> MaxFailures - 1, locked |-> TRUE]

RegisterFailure == limiter' = AfterFailure

\* LoginRateLimiter.reset
ResetLimiter == limiter' = [failures |-> 0, locked |-> FALSE]

\* The lockout is over once its time has passed (retry_after).
Unlock ==
    /\ limiter.locked
    /\ limiter' = [limiter EXCEPT !.locked = FALSE]
    /\ reqs' = Freed(reqs)
    /\ UNCHANGED <<password, mustChange, cookie, tab, loads, typedWrong, defaultIn>>

\* get_current_user in front of GET /api/extensions; the handler itself may fail.
ServeCheck(r) ==
    /\ r.phase = "sent" /\ r.kind = "check"
    /\ \E broken \in BOOLEAN :
         Reply(r, IF ~r.auth THEN "unauthorized"
                  ELSE IF mustChange THEN "must"
                  ELSE IF broken THEN "failed" ELSE "ok")
    /\ UNCHANGED <<password, mustChange, limiter, cookie, tab, loads, typedWrong, defaultIn>>

ServeLogout(r) ==
    /\ r.phase = "sent" /\ r.kind = "logout"
    /\ Reply(r, "ok")
    /\ UNCHANGED <<password, mustChange, limiter, cookie, tab, loads, typedWrong, defaultIn>>

IsChange(r) == r.kind \in {"change", "voluntary"}

\* A forced change does not look at the limiter.
\* Mutant: only the password card does.
OnlyCardLocked(r) == limiter.locked /\ IsChange(r) /\ ~mustChange
LockedOut(r) == limiter.locked /\ ~(IsChange(r) /\ mustChange)

\* login and change_password up to the slow hash: who is not signed in, or is
\* locked out, is answered at once.
ReadRow(r) ==
    LET refused == IF IsChange(r) /\ ~r.auth THEN "unauthorized"
                   ELSE IF LockedOut(r) THEN "locked" ELSE "none"
    IN
    /\ r.phase = "sent" /\ (IsChange(r) \/ r.kind = "login")
    /\ IF refused # "none"
       THEN Reply(r, refused)
       ELSE reqs' = (reqs \ {r}) \cup
                {[r EXCEPT !.phase = "read", !.seenPw = password, !.seenMust = mustChange]}
    /\ UNCHANGED <<password, mustChange, limiter, cookie, tab, loads, typedWrong, defaultIn>>

\* The shipped password turns the flag on, should it have been off.
\* Mutant: the flag is only ever read.
MustAsItWas(r) == mustChange
MustAfterLogin(r) == mustChange \/ (r.pw = Default /\ ~r.seenMust)

\* login from the comparison on.  Only a column that changes is written back.
FinishLogin(r) ==
    /\ r.phase = "read" /\ r.kind = "login"
    /\ IF r.pw # r.seenPw
       THEN /\ RegisterFailure
            /\ Reply(r, "unauthorized")
            /\ UNCHANGED <<mustChange, defaultIn>>
       ELSE /\ ResetLimiter
            /\ mustChange' = MustAfterLogin(r)
            /\ defaultIn' = (defaultIn \/ (r.pw = Default /\ password = Default))
            /\ reqs' = Freed(reqs \ {r}) \cup
                   {Answered(r, IF r.seenMust \/ r.pw = Default THEN "must" ELSE "ok")}
    /\ UNCHANGED <<password, cookie, tab, loads, typedWrong>>

\* The row the handler commits: the flag goes off only if the handler saw it on.
CommitChange(r) ==
    /\ password' = r.pw
    /\ mustChange' = (mustChange /\ ~r.seenMust)
    /\ defaultIn' = FALSE

\* change_password from the check of the current password on.
FinishChange(r) ==
    /\ r.phase = "read" /\ IsChange(r)
    /\ IF ~r.seenMust /\ r.cur # r.seenPw
       THEN /\ RegisterFailure
            /\ Reply(r, "wrong")
            /\ UNCHANGED <<password, mustChange, defaultIn>>
       ELSE /\ CommitChange(r)
            /\ IF r.seenMust
               THEN UNCHANGED limiter /\ Reply(r, "ok")
               ELSE ResetLimiter /\ reqs' = Freed(reqs \ {r}) \cup {Answered(r, "ok")}
    /\ UNCHANGED <<cookie, tab, loads, typedWrong>>

\* The request or its answer is lost on the way.
Drop(r) ==
    /\ r.phase \in {"sent", "done"} /\ r.status # "network"
    /\ Reply(r, "network")
    /\ UNCHANGED <<password, mustChange, limiter, cookie, tab, loads, typedWrong, defaultIn>>

-----------------------------------------------------------------------------
(* The answers.  Every answer passes the session middleware first.         *)

CookieAfter(r) ==
    LET kept == cookie[BrowserOf[r.tab]] IN
    IF r.status = "network" THEN {kept}
    ELSE IF r.kind = "login" /\ r.status \in {"ok", "must"} THEN {TRUE}
    ELSE IF r.kind = "logout" THEN {FALSE}
    ELSE IF r.auth THEN {kept, TRUE}
    ELSE {kept}

\* AuthGuard's then and catch.
CheckLeadsTo(r) ==
    CASE r.status = "unauthorized" -> "login"
      [] r.status = "must"         -> "change"
      [] r.status = "network"      -> "error"
      [] OTHER                     -> "pages"

\* Where the rest of Login.handleSubmit goes; "stay" keeps the form, with a message
\* unless the connection failed.
LoginLeadsTo(r) ==
    CASE r.status = "must" -> "change"
      [] r.status = "ok"   -> "checking"
      [] OTHER             -> "stay"

\* Where the rest of ChangePassword.handleSubmit and PasswordChangeCard.onSubmit go.
ChangeLeadsTo(r) ==
    CASE r.status = "unauthorized"                  -> "login"
      [] r.status = "ok" /\ r.kind = "change"       -> "checking"
      [] OTHER                                      -> "stay"

LeadsTo(r) ==
    CASE r.kind = "check"                  -> CheckLeadsTo(r)
      [] r.kind = "login"                  -> LoginLeadsTo(r)
      [] IsChange(r)                        -> ChangeLeadsTo(r)
      [] r.kind = "logout"                 -> "login"

\* The form a request came from is the one still on screen.
FromThisForm(r) ==
    \/ r.kind = "login" /\ tab[r.tab].view = "login"
    \/ r.kind = "change" /\ tab[r.tab].view = "change"
    \/ r.kind = "voluntary" /\ tab[r.tab].view = "pages"

\* The finally blocks free the form, whatever the answer.
\* Mutant: a failed connection is not caught.
BusyIfCutOff(r) == tab[r.tab].busy /\ ~(FromThisForm(r) /\ r.status # "network")
StillBusy(r) == tab[r.tab].busy /\ ~FromThisForm(r)

\* The tab hears the answer: it goes to another page, or its form is free again.
Handle(r) ==
    LET t == r.tab
        to == LeadsTo(r)
    IN
    /\ r.phase = "done"
    /\ \E c \in CookieAfter(r) :
         /\ cookie' = [cookie EXCEPT ![BrowserOf[t]] = c]
         /\ IF ~r.live
            THEN reqs' = reqs \ {r} /\ UNCHANGED tab
            ELSE IF to = "stay"
            THEN /\ tab' = [tab EXCEPT ![t].busy = StillBusy(r)]
                 /\ reqs' = reqs \ {r}
            ELSE /\ Arrive(t, to)
                 /\ reqs' = (reqs \ {r}) \cup OnArrival(t, to, c)
    /\ UNCHANGED <<password, mustChange, limiter, loads, typedWrong, defaultIn>>

-----------------------------------------------------------------------------
Init ==
    /\ password \in Password
    /\ mustChange \in BOOLEAN      \* the flag may have been cleared for the default password
    /\ limiter = [failures |-> 0, locked |-> FALSE]
    /\ cookie = [b \in Browser |-> FALSE]
    /\ tab = [t \in Tab |-> [view |-> "login", busy |-> FALSE]]
    /\ reqs = {}
    /\ loads = 0
    /\ typedWrong = 0
    /\ defaultIn = FALSE

Next ==
    \/ \E t \in Tab : \/ \E view \in View : Load(t, view)
                      \/ \E pw \in Password : SubmitLogin(t, pw)
                      \/ \E new \in Password : SubmitChange(t, new)
                      \/ \E cur, new \in Password : SubmitVoluntary(t, cur, new)
                      \/ Reload(t)
                      \/ SubmitLogout(t)
    \/ \E b \in Browser : Expire(b)
    \/ Unlock
    \/ \E r \in reqs : \/ ServeCheck(r) \/ ServeLogout(r) \/ ReadRow(r)
                       \/ FinishLogin(r) \/ FinishChange(r)
                       \/ Drop(r) \/ Handle(r)

Spec == Init /\ [][Next]_vars

-----------------------------------------------------------------------------
(* Fairness: the handlers finish, answers are not lost forever, lockouts   *)
(* end, and the admin tries the password again while the login page shows. *)

From(t, k) == {r \in reqs : r.tab = t /\ r.kind = k}

Served(t, k) == \E r \in From(t, k) : ReadRow(r) \/ FinishLogin(r)
Heard(t, k) == \E r \in From(t, k) : Handle(r)
HeardWhole(t, k) == \E r \in From(t, k) : r.status # "network" /\ Handle(r)

FairSpec ==
    /\ Spec
    /\ WF_vars(Unlock)
    /\ \A t \in Tab : /\ SF_vars(SubmitLogin(t, password))
                      /\ SF_vars(Served(t, "login"))
                      /\ WF_vars(Heard(t, "login"))
                      /\ SF_vars(HeardWhole(t, "login"))

-----------------------------------------------------------------------------
(* Properties                                                              *)

TypeOK ==
    /\ password \in Password /\ mustChange \in BOOLEAN
    /\ limiter \in [failures : 0 .. (MaxFailures - 1), locked : BOOLEAN]
    /\ cookie \in [Browser -> BOOLEAN]
    /\ tab \in [Tab -> [view : View, busy : BOOLEAN]]
    /\ \A r \in reqs : r \in Request
    /\ loads \in 0 .. MaxLoads /\ typedWrong \in 0 .. MaxWrong
    /\ defaultIn \in BOOLEAN

\* "A default password is never accepted silently" (routers/auth.py): while a login
\* with the shipped password has been let in and that password still stands, the
\* flag that closes every other route is on, whatever changes and logins overlap.
DefaultBlocked == defaultIn => mustChange

\* A login sent during a lockout does not get in before that lockout is over,
\* whatever other requests of the same bucket do meanwhile.
LockoutHolds ==
    \A r \in reqs : r.kind = "login" /\ r.inLockout => r.status \notin {"ok", "must"}

\* Wrong passwords, lockouts, lost answers and reloads end: an admin who keeps
\* trying the password leaves the login page, with no form left busy for good.
AdminGetsIn == \A t \in Tab : (tab[t].view = "login") ~> (tab[t].view # "login")

=============================================================================
