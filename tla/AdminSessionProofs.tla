------------------------- MODULE AdminSessionProofs -------------------------
(***************************************************************************)
(* For any number of tabs, browsers, passwords and failures allowed: the   *)
(* shipped password never opens the routes, and a lockout holds.           *)
(*                                                                         *)
(* Both turn on what a handler has read before its slow hash: the flag as  *)
(* a login saw it, and the limiter as it was asked before the comparison.  *)
(***************************************************************************)
EXTENDS AdminSession, TLAPS

\* A locked bucket is one failure away from being locked again.
LockedFull == limiter.locked => limiter.failures = MaxFailures - 1

\* A change brings a password of the forms; who saw the flag on still finds it on
\* while the password is the shipped one; a login of a lockout is not at its hash.
Sound(r) ==
  /\ r \in Request
  /\ IsChange(r) => r.pw \in Strong
  /\ r.phase = "read" /\ r.seenMust /\ password = Default => mustChange
  /\ r.kind = "login" /\ r.inLockout =>
       limiter.locked /\ r.phase # "read" /\ r.status \notin {"ok", "must"}

IInv == TypeOK /\ DefaultBlocked /\ LockedFull /\ \A r \in reqs : Sound(r)

-----------------------------------------------------------------------------
(* Requests.                                                               *)

\* What a request relies on stays while the flag and the lock do not go off.
LEMMA StaysSound ==
  ASSUME NEW r, Sound(r), password' = password, mustChange => mustChange',
         limiter.locked => limiter'.locked
  PROVE  Sound(r)'
BY DEF Sound, IsChange

\* The same for a request whose lockout is over.
LEMMA FreedSound ==
  ASSUME NEW rs, \A r \in rs : r \in reqs /\ Sound(r),
         (password' = password /\ (mustChange => mustChange')) \/ password' \in Strong
  PROVE  \A q \in Freed(rs) : Sound(q)'
<1>. SUFFICES ASSUME NEW r \in rs
              PROVE  Sound([r EXCEPT !.inLockout = FALSE])'
  BY DEF Freed
<1>. DEFINE q == [r EXCEPT !.inLockout = FALSE]
<1>1. /\ q \in Request /\ q.kind = r.kind /\ q.pw = r.pw /\ q.phase = r.phase
      /\ q.seenMust = r.seenMust /\ q.inLockout = FALSE
  BY DEF Sound, Request
<1>. HIDE DEF q
<1>2. Sound(q)'
  BY <1>1, PasswordAssumption DEF Sound, IsChange
<1>3. QED
  BY <1>2 DEF q

\* An answer keeps what was asked.
LEMMA AnswerFacts ==
  ASSUME NEW r \in Request, NEW status \in Status
  PROVE  LET a == Answered(r, status) IN
         /\ a \in Request /\ a.kind = r.kind /\ a.pw = r.pw /\ a.phase = "done"
         /\ a.status = status /\ a.inLockout = r.inLockout /\ a.tab = r.tab
BY DEF Answered, Request

\* An answer that lets nobody in.
LEMMA RefusalSound ==
  ASSUME NEW r, Sound(r), NEW status \in Status,
         r.kind = "login" => status \notin {"ok", "must"},
         limiter.locked => limiter'.locked
  PROVE  Sound(Answered(r, status))'
<1>. DEFINE a == Answered(r, status)
<1>1. /\ a \in Request /\ a.kind = r.kind /\ a.pw = r.pw /\ a.phase = "done"
      /\ a.status = status /\ a.inLockout = r.inLockout
  BY AnswerFacts DEF Sound
<1>. HIDE DEF a
<1>2. Sound(a)'
  BY <1>1 DEF Sound, IsChange
<1>3. QED
  BY <1>2 DEF a

\* What a request is sent with.
LEMMA NewSound ==
  ASSUME TypeOK, NEW t \in Tab, NEW k \in Kind, NEW auth \in BOOLEAN,
         NEW pw \in Password \cup {NoPassword}, NEW cur \in Password \cup {NoPassword},
         k \in {"change", "voluntary"} => pw \in Strong,
         NEW q, q = NewRequest(t, k, auth, pw, cur),
         limiter' = limiter
  PROVE  Sound(q)'
<1>1. /\ q \in Request /\ q.kind = k /\ q.pw = pw /\ q.phase = "sent" /\ q.status = "none"
      /\ q.inLockout = limiter.locked
  BY DEF NewRequest, Request, TypeOK, Status
<1>2. QED
  BY <1>1 DEF Sound, IsChange

LEMMA ArrivalSound ==
  ASSUME TypeOK, NEW t \in Tab, NEW view, NEW auth \in BOOLEAN, limiter' = limiter
  PROVE  \A q \in OnArrival(t, view, auth) : Sound(q)'
BY NewSound DEF OnArrival, Kind

\* A full load gives no request anything to do.
LEMMA UnheardSound ==
  ASSUME TypeOK, NEW r, Sound(r), NEW live \in BOOLEAN,
         password' = password, mustChange' = mustChange, limiter' = limiter
  PROVE  Sound([r EXCEPT !.live = live])'
<1>. DEFINE q == [r EXCEPT !.live = live]
<1>1. /\ q \in Request /\ q.kind = r.kind /\ q.pw = r.pw /\ q.phase = r.phase
      /\ q.seenMust = r.seenMust /\ q.inLockout = r.inLockout /\ q.status = r.status
  BY DEF Sound, Request
<1>. HIDE DEF q
<1>2. Sound(q)'
  BY <1>1 DEF Sound, IsChange
<1>3. QED
  BY <1>2 DEF q

-----------------------------------------------------------------------------
(* The browser.                                                            *)

LEMMA StartOverKeeps ==
  ASSUME IInv, NEW t \in Tab, NEW view \in View, StartOver(t, view),
         loads' \in 0 .. MaxLoads, typedWrong' = typedWrong,
         UNCHANGED <<password, mustChange, limiter, cookie, defaultIn>>
  PROVE  IInv'
<1>1. \A r \in reqs : Sound(r) /\ (r.live /\ r.tab # t) \in BOOLEAN
  BY DEF IInv
<1>2. \A q \in reqs' : Sound(q)'
  <2>. SUFFICES ASSUME NEW q \in reqs'
                PROVE  Sound(q)'
    OBVIOUS
  <2>1. CASE q \in OnArrival(t, view, cookie[BrowserOf[t]])
    <3>1. cookie[BrowserOf[t]] \in BOOLEAN
      BY TabsAssumption DEF IInv, TypeOK
    <3>2. QED
      BY <2>1, <3>1, ArrivalSound DEF IInv
  <2>2. CASE \E r \in reqs : q = [r EXCEPT !.live = (r.live /\ r.tab # t)]
    BY <1>1, <2>2, UnheardSound DEF IInv
  <2>3. QED
    BY <2>1, <2>2 DEF StartOver
<1>3. \A q \in reqs' : q \in Request
  BY <1>2 DEF Sound
<1>4. tab' \in [Tab -> [view : View, busy : BOOLEAN]]
  BY DEF StartOver, Arrive, IInv, TypeOK
<1>5. TypeOK'
  BY <1>3, <1>4 DEF IInv, TypeOK
<1>6. DefaultBlocked' /\ LockedFull'
  BY DEF IInv, DefaultBlocked, LockedFull
<1>7. QED
  BY <1>2, <1>5, <1>6 DEF IInv

\* A form that is sent adds one request.
LEMMA SubmitKeeps ==
  ASSUME IInv, NEW q \in Request, reqs' = reqs \cup {q}, Sound(q)',
         tab' \in [Tab -> [view : View, busy : BOOLEAN]],
         typedWrong' \in 0 .. MaxWrong,
         UNCHANGED <<password, mustChange, limiter, cookie, loads, defaultIn>>
  PROVE  IInv'
<1>1. \A r \in reqs' : Sound(r)'
  BY StaysSound DEF IInv
<1>2. TypeOK'
  BY DEF IInv, TypeOK
<1>3. DefaultBlocked' /\ LockedFull'
  BY DEF IInv, DefaultBlocked, LockedFull
<1>4. QED
  BY <1>1, <1>2, <1>3 DEF IInv

LEMMA FormsKeep ==
  ASSUME IInv, NEW t \in Tab,
         \/ \E pw \in Password : SubmitLogin(t, pw)
         \/ \E new \in Password : SubmitChange(t, new)
         \/ \E cur, new \in Password : SubmitVoluntary(t, cur, new)
         \/ SubmitLogout(t)
  PROVE  IInv'
<1>1. cookie[BrowserOf[t]] \in BOOLEAN /\ TypeOK
  BY TabsAssumption DEF IInv, TypeOK
<1>2. [tab EXCEPT ![t].busy = TRUE] \in [Tab -> [view : View, busy : BOOLEAN]]
  BY DEF IInv, TypeOK
<1>3. typedWrong < MaxWrong => typedWrong + 1 \in 0 .. MaxWrong
  BY BoundAssumption DEF IInv, TypeOK
<1>4. ASSUME NEW k \in Kind, NEW pw \in Password \cup {NoPassword},
             NEW cur \in Password \cup {NoPassword},
             k \in {"change", "voluntary"} => pw \in Strong,
             reqs' = reqs \cup {NewRequest(t, k, cookie[BrowserOf[t]], pw, cur)},
             tab' \in [Tab -> [view : View, busy : BOOLEAN]],
             typedWrong' \in 0 .. MaxWrong,
             UNCHANGED <<password, mustChange, limiter, cookie, loads, defaultIn>>
      PROVE  IInv'
  <2>1. PICK q : q = NewRequest(t, k, cookie[BrowserOf[t]], pw, cur)
    OBVIOUS
  <2>2. Sound(q)'
    BY <1>1, <1>4, <2>1, NewSound
  <2>3. q \in Request
    BY <2>2 DEF Sound
  <2>4. QED
    BY <1>4, <2>1, <2>2, <2>3, SubmitKeeps
<1>5. ASSUME NEW pw \in Password, SubmitLogin(t, pw) PROVE IInv'
  <2>1. typedWrong' \in 0 .. MaxWrong
    BY <1>3, <1>5 DEF SubmitLogin, IInv, TypeOK
  <2>2. QED
    BY <1>2, <1>4, <1>5, <2>1 DEF SubmitLogin, Kind
<1>6. ASSUME NEW new \in Password, SubmitChange(t, new) PROVE IInv'
  <2>1. typedWrong' \in 0 .. MaxWrong
    BY <1>3, <1>6 DEF SubmitChange, IInv, TypeOK
  <2>2. QED
    BY <1>2, <1>4, <1>6, <2>1 DEF SubmitChange, Kind
<1>7. ASSUME NEW cur \in Password, NEW new \in Password, SubmitVoluntary(t, cur, new)
      PROVE  IInv'
  <2>1. typedWrong' \in 0 .. MaxWrong
    BY <1>3, <1>7 DEF SubmitVoluntary, IInv, TypeOK
  <2>2. QED
    BY <1>2, <1>4, <1>7, <2>1 DEF SubmitVoluntary, Kind
<1>8. CASE SubmitLogout(t)
  <2>1. tab' \in [Tab -> [view : View, busy : BOOLEAN]] /\ typedWrong' \in 0 .. MaxWrong
    BY <1>8 DEF SubmitLogout, IInv, TypeOK
  <2>2. QED
    BY <1>4, <1>8, <2>1 DEF SubmitLogout, Kind
<1>9. QED
  BY <1>5, <1>6, <1>7, <1>8

LEMMA ExpireKeeps ==
  ASSUME IInv, NEW b \in Browser, Expire(b)
  PROVE  IInv'
<1>1. \A r \in reqs' : Sound(r)'
  BY StaysSound DEF IInv, Expire
<1>2. TypeOK'
  BY DEF IInv, TypeOK, Expire
<1>3. DefaultBlocked' /\ LockedFull'
  BY DEF IInv, DefaultBlocked, LockedFull, Expire
<1>4. QED
  BY <1>1, <1>2, <1>3 DEF IInv

-----------------------------------------------------------------------------
(* The handlers.                                                           *)

\* A bucket that is locked stays so, and no request is freed without it.
LEMMA LimiterFacts ==
  ASSUME TypeOK, LockedFull
  PROVE  /\ AfterFailure \in [failures : 0 .. (MaxFailures - 1), locked : BOOLEAN]
         /\ AfterFailure.locked => AfterFailure.failures = MaxFailures - 1
         /\ limiter.locked => AfterFailure.locked
<1>1. /\ limiter.failures \in 0 .. (MaxFailures - 1) /\ MaxFailures \in Nat /\ MaxFailures > 0
      /\ limiter.locked \in BOOLEAN
  BY BoundAssumption DEF TypeOK
<1>2. CASE limiter.failures + 1 < MaxFailures
  BY <1>1, <1>2 DEF AfterFailure, LockedFull
<1>3. CASE ~(limiter.failures + 1 < MaxFailures)
  BY <1>1, <1>3 DEF AfterFailure
<1>4. QED
  BY <1>2, <1>3

LEMMA UnlockKeeps ==
  ASSUME IInv, Unlock
  PROVE  IInv'
<1>1. \A r \in reqs' : Sound(r)'
  BY FreedSound DEF IInv, Unlock
<1>2. limiter' = [failures |-> limiter.failures, locked |-> FALSE]
  BY DEF Unlock, IInv, TypeOK
<1>3. TypeOK'
  BY <1>1, <1>2 DEF IInv, TypeOK, Unlock, Sound
<1>4. DefaultBlocked' /\ LockedFull'
  BY <1>2 DEF IInv, DefaultBlocked, LockedFull, Unlock
<1>5. QED
  BY <1>1, <1>3, <1>4 DEF IInv

\* An answer that changes nothing else.
LEMMA ReplyKeeps ==
  ASSUME IInv, NEW r \in reqs, NEW status \in Status, Reply(r, status),
         r.kind = "login" => status \notin {"ok", "must"},
         UNCHANGED <<password, mustChange, limiter, cookie, tab, loads, typedWrong, defaultIn>>
  PROVE  IInv'
<1>1. Sound(Answered(r, status))'
  BY RefusalSound DEF IInv
<1>2. \A q \in reqs' : Sound(q)'
  BY <1>1, StaysSound DEF IInv, Reply
<1>3. TypeOK'
  BY <1>2 DEF IInv, TypeOK, Sound
<1>4. DefaultBlocked' /\ LockedFull'
  BY DEF IInv, DefaultBlocked, LockedFull
<1>5. QED
  BY <1>2, <1>3, <1>4 DEF IInv

LEMMA ServeKeeps ==
  ASSUME IInv, NEW r \in reqs, ServeCheck(r) \/ ServeLogout(r) \/ Drop(r)
  PROVE  IInv'
<1>1. CASE ServeCheck(r)
  <2>1. PICK broken \in BOOLEAN :
          Reply(r, IF ~r.auth THEN "unauthorized"
                   ELSE IF mustChange THEN "must"
                   ELSE IF broken THEN "failed" ELSE "ok")
    BY <1>1 DEF ServeCheck
  <2>2. PICK status \in Status : Reply(r, status)
    BY <2>1 DEF Status
  <2>3. QED
    BY <1>1, <2>2, ReplyKeeps DEF ServeCheck
<1>2. CASE ServeLogout(r)
  BY <1>2, ReplyKeeps DEF ServeLogout, Status
<1>3. CASE Drop(r)
  BY <1>3, ReplyKeeps DEF Drop, Status
<1>4. QED
  BY <1>1, <1>2, <1>3

\* A login of a lockout is answered before it reaches its hash.
LEMMA ReadKeeps ==
  ASSUME IInv, NEW r \in reqs, ReadRow(r)
  PROVE  IInv'
<1>. DEFINE refused == IF IsChange(r) /\ ~r.auth THEN "unauthorized"
                       ELSE IF LockedOut(r) THEN "locked" ELSE "none"
            q == [r EXCEPT !.phase = "read", !.seenPw = password, !.seenMust = mustChange]
<1>1. CASE refused # "none"
  <2>1. Reply(r, refused) /\ refused \in Status /\ refused \notin {"ok", "must"}
    BY <1>1 DEF ReadRow, Status
  <2>2. PICK status \in Status : status = refused
    BY <2>1
  <2>3. QED
    BY <2>1, <2>2, ReplyKeeps DEF ReadRow
<1>2. CASE refused = "none"
  <2>1. reqs' = (reqs \ {r}) \cup {q}
    BY <1>2 DEF ReadRow
  <2>2. Sound(r) /\ r \in Request /\ password \in Password /\ mustChange \in BOOLEAN
    BY DEF IInv, TypeOK, Sound
  <2>3. /\ q \in Request /\ q.kind = r.kind /\ q.pw = r.pw /\ q.phase = "read"
        /\ q.seenMust = mustChange /\ q.inLockout = r.inLockout
    BY <2>2 DEF Request
  <2>4. ~(r.kind = "login" /\ r.inLockout)
    BY <1>2, <2>2 DEF Sound, LockedOut, IsChange
  <2>5. PICK a : a = q
    OBVIOUS
  <2>. HIDE DEF q
  <2>6. Sound(a)'
    BY <2>2, <2>3, <2>4, <2>5 DEF Sound, IsChange, ReadRow
  <2>7. \A s \in reqs' : Sound(s)'
    BY <2>1, <2>5, <2>6, StaysSound DEF IInv, ReadRow
  <2>8. TypeOK'
    BY <2>7 DEF IInv, TypeOK, Sound, ReadRow
  <2>9. DefaultBlocked' /\ LockedFull'
    BY DEF IInv, DefaultBlocked, LockedFull, ReadRow
  <2>10. QED
    BY <2>7, <2>8, <2>9 DEF IInv
<1>3. QED
  BY <1>1, <1>2

\* A failure leaves the flag alone, and the lock on.
LEMMA FailureKeeps ==
  ASSUME IInv, NEW r \in reqs, NEW status \in {"unauthorized", "wrong"},
         RegisterFailure, Reply(r, status),
         UNCHANGED <<password, mustChange, cookie, tab, loads, typedWrong, defaultIn>>
  PROVE  IInv'
<1>1. /\ limiter' \in [failures : 0 .. (MaxFailures - 1), locked : BOOLEAN]
      /\ limiter'.locked => limiter'.failures = MaxFailures - 1
      /\ limiter.locked => limiter'.locked
  BY LimiterFacts DEF IInv, RegisterFailure
<1>2. Sound(Answered(r, status))'
  BY <1>1, RefusalSound DEF IInv, Status
<1>3. \A q \in reqs' : Sound(q)'
  BY <1>1, <1>2, StaysSound DEF IInv, Reply
<1>4. TypeOK'
  BY <1>1, <1>3 DEF IInv, TypeOK, Sound
<1>5. DefaultBlocked' /\ LockedFull'
  BY <1>1 DEF IInv, DefaultBlocked, LockedFull
<1>6. QED
  BY <1>3, <1>4, <1>5 DEF IInv

\* Who gets in was not sent in a lockout, and finds the flag on with the shipped
\* password, or turns it on.
LEMMA LoginKeeps ==
  ASSUME IInv, NEW r \in reqs, FinishLogin(r)
  PROVE  IInv'
<1>1. CASE r.pw # r.seenPw
  BY <1>1, FailureKeeps DEF FinishLogin
<1>2. CASE r.pw = r.seenPw
  <2>1. PICK status \in {"ok", "must"} : reqs' = Freed(reqs \ {r}) \cup {Answered(r, status)}
    BY <1>2 DEF FinishLogin
  <2>2. /\ ResetLimiter /\ mustChange' = (mustChange \/ (r.pw = Default /\ ~r.seenMust))
        /\ defaultIn' = (defaultIn \/ (r.pw = Default /\ password = Default))
        /\ UNCHANGED <<password, cookie, tab, loads, typedWrong>>
        /\ r.phase = "read" /\ r.kind = "login"
    BY <1>2 DEF FinishLogin, MustAfterLogin
  <2>3. Sound(r) /\ mustChange \in BOOLEAN /\ defaultIn \in BOOLEAN
    BY DEF IInv, TypeOK
  <2>4. \A q \in Freed(reqs \ {r}) : Sound(q)'
    <3>1. \A q \in reqs \ {r} : q \in reqs /\ Sound(q)
      BY DEF IInv
    <3>2. password' = password /\ (mustChange => mustChange')
      BY <2>2
    <3>3. QED
      BY <3>1, <3>2, FreedSound
  <2>5. Sound(Answered(r, status))'
    <3>1. r \in Request /\ ~r.inLockout
      BY <2>2, <2>3 DEF Sound
    <3>. DEFINE a == Answered(r, status)
    <3>2. /\ a \in Request /\ a.kind = r.kind /\ a.phase = "done" /\ a.inLockout = r.inLockout
      BY <3>1, AnswerFacts DEF Status
    <3>. HIDE DEF a
    <3>3. Sound(a)'
      BY <2>2, <3>1, <3>2 DEF Sound, IsChange
    <3>4. QED
      BY <3>3 DEF a
  <2>6. \A q \in reqs' : Sound(q)'
    BY <2>1, <2>4, <2>5
  <2>7. TypeOK'
    BY <2>2, <2>3, <2>6, BoundAssumption DEF IInv, TypeOK, Sound, ResetLimiter
  <2>8. DefaultBlocked'
    BY <2>2, <2>3 DEF IInv, DefaultBlocked, Sound
  <2>9. LockedFull'
    BY <2>2 DEF LockedFull, ResetLimiter
  <2>10. QED
    BY <2>6, <2>7, <2>8, <2>9 DEF IInv
<1>3. QED
  BY <1>1, <1>2

\* The flag goes off only together with the shipped password.
LEMMA ChangeKeeps ==
  ASSUME IInv, NEW r \in reqs, FinishChange(r)
  PROVE  IInv'
<1>1. CASE ~r.seenMust /\ r.cur # r.seenPw
  BY <1>1, FailureKeeps DEF FinishChange
<1>2. CASE ~(~r.seenMust /\ r.cur # r.seenPw)
  <2>1. /\ password' = r.pw /\ mustChange' = (mustChange /\ ~r.seenMust) /\ defaultIn' = FALSE
        /\ UNCHANGED <<cookie, tab, loads, typedWrong>> /\ IsChange(r)
        /\ IF r.seenMust
           THEN UNCHANGED limiter /\ Reply(r, "ok")
           ELSE ResetLimiter /\ reqs' = Freed(reqs \ {r}) \cup {Answered(r, "ok")}
    BY <1>2 DEF FinishChange, CommitChange
  <2>2. /\ Sound(r) /\ r \in Request /\ mustChange \in BOOLEAN /\ TypeOK
        /\ password' \in Strong /\ password' # Default
    BY <2>1, PasswordAssumption DEF IInv, TypeOK, Sound
  <2>3. ASSUME NEW q \in reqs, limiter'.locked = limiter.locked
        PROVE  Sound(q)'
    BY <2>2, <2>3 DEF IInv, Sound, IsChange
  <2>4. Sound(Answered(r, "ok"))'
    <3>. DEFINE a == Answered(r, "ok")
    <3>1. /\ a \in Request /\ a.kind = r.kind /\ a.pw = r.pw /\ a.phase = "done"
      BY <2>2, AnswerFacts DEF Status
    <3>. HIDE DEF a
    <3>2. Sound(a)'
      BY <2>1, <2>2, <3>1 DEF Sound, IsChange
    <3>3. QED
      BY <3>2 DEF a
  <2>5. \A q \in reqs' : Sound(q)'
    <3>1. CASE r.seenMust
      BY <2>1, <2>3, <2>4, <3>1 DEF Reply
    <3>2. CASE ~r.seenMust
      <4>1. \A q \in reqs \ {r} : q \in reqs /\ Sound(q)
        BY DEF IInv
      <4>2. \A q \in Freed(reqs \ {r}) : Sound(q)'
        BY <2>2, <4>1, FreedSound
      <4>3. QED
        BY <2>1, <2>4, <3>2, <4>2
    <3>3. QED
      BY <3>1, <3>2
  <2>6. TypeOK' /\ LockedFull'
    <3>1. /\ limiter' \in [failures : 0 .. (MaxFailures - 1), locked : BOOLEAN]
          /\ LockedFull'
      <4>1. CASE r.seenMust
        <5>1. limiter' = limiter
          BY <2>1, <4>1
        <5>2. QED
          BY <5>1 DEF IInv, TypeOK, LockedFull
      <4>2. CASE ~r.seenMust
        <5>1. limiter' = [failures |-> 0, locked |-> FALSE]
          BY <2>1, <4>2 DEF ResetLimiter
        <5>2. QED
          BY <5>1, BoundAssumption DEF LockedFull
      <4>3. QED
        BY <4>1, <4>2
    <3>2. QED
      BY <2>1, <2>2, <2>5, <3>1 DEF TypeOK, Sound, Password
  <2>7. DefaultBlocked'
    BY <2>1 DEF DefaultBlocked
  <2>8. QED
    BY <2>5, <2>6, <2>7 DEF IInv
<1>3. QED
  BY <1>1, <1>2

-----------------------------------------------------------------------------
(* The answers.                                                            *)

LEMMA AnswersLead ==
  ASSUME NEW r \in Request
  PROVE  LeadsTo(r) \in View \cup {"stay"}
<1>1. CheckLeadsTo(r) \in View
  BY DEF CheckLeadsTo, View
<1>2. LoginLeadsTo(r) \in View \cup {"stay"} /\ ChangeLeadsTo(r) \in View \cup {"stay"}
  BY DEF LoginLeadsTo, ChangeLeadsTo, View
<1>3. r.kind \in {"check", "login", "logout"} \/ IsChange(r)
  BY DEF Request, Kind, IsChange
<1>4. QED
  BY <1>1, <1>2, <1>3 DEF LeadsTo, View, IsChange

LEMMA CookieKept ==
  ASSUME TypeOK, NEW r \in Request, NEW c \in CookieAfter(r)
  PROVE  c \in BOOLEAN
BY TabsAssumption DEF TypeOK, Request, CookieAfter

LEMMA HandleKeeps ==
  ASSUME IInv, NEW r \in reqs, Handle(r)
  PROVE  IInv'
<1>. DEFINE t == r.tab
            to == LeadsTo(r)
<1>1. r \in Request /\ t \in Tab /\ to \in View \cup {"stay"}
  BY AnswersLead DEF IInv, TypeOK, Request
<1>2. PICK c \in BOOLEAN :
        /\ cookie' = [cookie EXCEPT ![BrowserOf[t]] = c]
        /\ IF ~r.live
           THEN reqs' = reqs \ {r} /\ UNCHANGED tab
           ELSE IF to = "stay"
           THEN /\ tab' = [tab EXCEPT ![t].busy = StillBusy(r)]
                /\ reqs' = reqs \ {r}
           ELSE /\ Arrive(t, to)
                /\ reqs' = (reqs \ {r}) \cup OnArrival(t, to, c)
  BY <1>1, CookieKept DEF Handle, IInv
<1>3. UNCHANGED <<password, mustChange, limiter, loads, typedWrong, defaultIn>>
  BY DEF Handle
<1>. HIDE DEF t, to
<1>4. \A q \in OnArrival(t, to, c) : Sound(q)'
  BY <1>1, <1>3, ArrivalSound DEF IInv
<1>5. \A q \in reqs' : Sound(q)'
  BY <1>2, <1>3, <1>4, StaysSound DEF IInv
<1>6. tab' \in [Tab -> [view : View, busy : BOOLEAN]]
  <2>1. StillBusy(r) \in BOOLEAN /\ tab[t].view \in View
    BY <1>1 DEF StillBusy, IInv, TypeOK, t
  <2>2. CASE tab' = tab
    BY <2>2 DEF IInv, TypeOK
  <2>3. CASE to # "stay" /\ Arrive(t, to)
    BY <1>1, <2>3 DEF IInv, TypeOK, Arrive
  <2>4. CASE tab' = [tab EXCEPT ![t].busy = StillBusy(r)]
    <3>1. PICK busy \in BOOLEAN : busy = StillBusy(r)
      BY <2>1
    <3>2. tab' = [tab EXCEPT ![t].busy = busy]
      BY <2>4, <3>1
    <3>3. QED
      BY <1>1, <3>2 DEF IInv, TypeOK
  <2>5. QED
    BY <1>2, <2>2, <2>3, <2>4
<1>7. cookie' \in [Browser -> BOOLEAN]
  BY <1>2 DEF IInv, TypeOK
<1>8. TypeOK'
  BY <1>3, <1>5, <1>6, <1>7 DEF IInv, TypeOK, Sound
<1>9. DefaultBlocked' /\ LockedFull'
  BY <1>3 DEF IInv, DefaultBlocked, LockedFull
<1>10. QED
  BY <1>5, <1>8, <1>9 DEF IInv

-----------------------------------------------------------------------------
LEMMA InitIInv == Init => IInv
<1>. SUFFICES ASSUME Init PROVE IInv
  OBVIOUS
<1>1. /\ limiter \in [failures : 0 .. (MaxFailures - 1), locked : BOOLEAN]
      /\ loads \in 0 .. MaxLoads /\ typedWrong \in 0 .. MaxWrong
  BY BoundAssumption DEF Init
<1>2. tab \in [Tab -> [view : View, busy : BOOLEAN]] /\ cookie \in [Browser -> BOOLEAN]
  BY DEF Init, View
<1>3. TypeOK
  BY <1>1, <1>2 DEF Init, TypeOK
<1>4. DefaultBlocked /\ LockedFull /\ \A r \in reqs : Sound(r)
  BY DEF Init, DefaultBlocked, LockedFull
<1>5. QED
  BY <1>3, <1>4 DEF IInv

LEMMA NextKeeps == IInv /\ [Next]_vars => IInv'
<1>. SUFFICES ASSUME IInv, [Next]_vars PROVE IInv'
  OBVIOUS
<1>1. ASSUME NEW t \in Tab, NEW view \in View, Load(t, view) PROVE IInv'
  <2>1. loads' \in 0 .. MaxLoads
    BY <1>1, BoundAssumption DEF Load, IInv, TypeOK
  <2>2. QED
    BY <1>1, <2>1, StartOverKeeps DEF Load
<1>2. ASSUME NEW t \in Tab, Reload(t) PROVE IInv'
  BY <1>2, StartOverKeeps DEF Reload, View, IInv, TypeOK
<1>3. ASSUME NEW t \in Tab,
             \/ \E pw \in Password : SubmitLogin(t, pw)
             \/ \E new \in Password : SubmitChange(t, new)
             \/ \E cur, new \in Password : SubmitVoluntary(t, cur, new)
             \/ SubmitLogout(t)
      PROVE  IInv'
  BY <1>3, FormsKeep
<1>4. ASSUME NEW b \in Browser, Expire(b) PROVE IInv'
  BY <1>4, ExpireKeeps
<1>5. CASE Unlock
  BY <1>5, UnlockKeeps
<1>6. ASSUME NEW r \in reqs, ServeCheck(r) \/ ServeLogout(r) \/ Drop(r) PROVE IInv'
  BY <1>6, ServeKeeps
<1>7. ASSUME NEW r \in reqs, ReadRow(r) PROVE IInv'
  BY <1>7, ReadKeeps
<1>8. ASSUME NEW r \in reqs, FinishLogin(r) PROVE IInv'
  BY <1>8, LoginKeeps
<1>9. ASSUME NEW r \in reqs, FinishChange(r) PROVE IInv'
  BY <1>9, ChangeKeeps
<1>10. ASSUME NEW r \in reqs, Handle(r) PROVE IInv'
  BY <1>10, HandleKeeps
<1>11. CASE UNCHANGED vars
  <2>1. \A r \in reqs' : Sound(r)'
    BY <1>11, StaysSound DEF IInv, vars
  <2>2. TypeOK'
    BY <1>11 DEF IInv, TypeOK, vars
  <2>3. DefaultBlocked' /\ LockedFull'
    BY <1>11 DEF IInv, DefaultBlocked, LockedFull, vars
  <2>4. QED
    BY <2>1, <2>2, <2>3 DEF IInv
<1>12. QED
  BY <1>1, <1>2, <1>3, <1>4, <1>5, <1>6, <1>7, <1>8, <1>9, <1>10, <1>11 DEF Next

LEMMA Inductive == Spec => []IInv
BY InitIInv, NextKeeps, PTL DEF Spec

-----------------------------------------------------------------------------
\* Every variable keeps its type, the limiter's count among them
\* (LoginRateLimiter.register_failure).
THEOREM TypeCorrect == Spec => []TypeOK
<1>1. IInv => TypeOK
  BY DEF IInv
<1>2. QED
  BY <1>1, Inductive, PTL

\* However logins and changes overlap, the shipped password never opens the routes
\* (routers/auth.py, login and change_password).
THEOREM ShippedPasswordBlocked == Spec => []DefaultBlocked
<1>1. IInv => DefaultBlocked
  BY DEF IInv
<1>2. QED
  BY <1>1, Inductive, PTL

\* Nobody gets in with a login sent during a lockout, until that lockout is over
\* (_raise_if_locked_out before the comparison).
THEOREM LockoutsHold == Spec => []LockoutHolds
<1>1. IInv => LockoutHolds
  BY DEF IInv, LockoutHolds, Sound
<1>2. QED
  BY <1>1, Inductive, PTL
=============================================================================
