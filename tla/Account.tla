--------------------------------- MODULE Account ---------------------------------
(***************************************************************************)
(* Users and tokens: handler/user.go and handler/auth.go of the monolith    *)
(* ("mono"), or the gateway service/apigw with service/account behind it     *)
(* ("micro"), over the statements of db/user.go on tbl_user and              *)
(* tbl_user_token.                                                           *)
(*                                                                         *)
(* The gateway reaches the account service through go-micro, which gives up  *)
(* on a call after a while and may send it once more; a call it gave up on    *)
(* is still carried out by the service.  So a request has up to two attempts, *)
(* and an attempt takes its steps whether or not anybody waits for it.        *)
(*                                                                         *)
(* A token is the second it was made in: its md5 head differs by user and     *)
(* second, its tail is that second.  Which number the head reads as is what   *)
(* md5 makes of it, and arbitrary here.                                       *)
(***************************************************************************)
EXTENDS Naturals, FiniteSets

CONSTANTS
  Users,       \* user names
  Passwords,   \* (salted and hashed) passwords
  Workers,     \* slots for concurrent requests
  None,        \* no user or password, and no token
  Doors,       \* what may be deployed: "mono", "micro"
  Day,         \* ONEDAYTIME
  MaxClock,    \* bound: the last second
  Heads,       \* numbers the first eight hex digits of an md5 may read as
  Faults       \* what may fail: "db", "rpc", "crash"

ASSUME AccountAssumption ==
  /\ None \notin Users \cup Passwords \cup Nat
  /\ Doors \subseteq {"mono", "micro"}
  /\ Day \in Nat
  /\ MaxClock \in Nat
  /\ Heads \subseteq Nat
  /\ Faults \subseteq {"db", "rpc", "crash"}

VARIABLES
  door,      \* what is deployed
  head,      \* what the head of each token reads as
  now,       \* time.Now().Unix()
  pwd,       \* tbl_user: the password of each user, None without a row
  tokenRow,  \* tbl_user_token: the token of each user, None without a row
  req,       \* the HTTP request each worker is serving
  attempt,   \* attempts to carry a request out
  granted,   \* ghost: <<user, password>> of sign-ups answered OK
  told,      \* ghost: <<user, password, token>> of sign-ins answered OK
  latest,    \* ghost: the token each user was told last
  crossed,   \* ghost: users whose tokens overlapped, or one was never told,
             \* and who were told none since that overlapped no other
  alone      \* ghost: users whose last token overlapped no other

config == <<door, head>>
rows   == <<pwd, tokenRow>>
ghosts == <<granted, told, latest, crossed, alone>>
vars   == <<config, now, rows, req, attempt, ghosts>>

--------------------------------------------------------------------------------
(* Data *)

Clock == 0..MaxClock
Token == Clock
Try   == {1, 2}

\* A worker waits for the attempt of its latest try, or checks a token.
Request ==
  [pc    : {"idle", "signup", "signin", "check"},
   user  : Users \cup {None},
   pass  : Passwords \cup {None},
   tries : {0} \cup Try,
   token : Token \cup {None}]
Idle == [pc |-> "idle", user |-> None, pass |-> None, tries |-> 0, token |-> None]

\* An attempt of its own carries what its request asked for.
Attempt ==
  [pc    : {"none", "up", "in", "save", "ok", "fail"},
   user  : Users \cup {None},
   pass  : Passwords \cup {None},
   token : Token \cup {None}]
NoAttempt == [pc |-> "none", user |-> None, pass |-> None, token |-> None]

Waiting(w)  == req[w].pc \in {"signup", "signin"}
Awaited(w, k) == Waiting(w) /\ req[w].tries = k

\* The attempt worker w waits for.
Current(w) == attempt[<<w, req[w].tries>>]

\* Attempt k of worker w has made a token of n, which is not told to n yet.
TokenMade(w, k, n) ==
  LET a == attempt[<<w, k>>] IN a.user = n /\ a.pc \in {"save", "ok"} /\ a.token # None

\* Attempt k of worker w ends; if nobody waits for it, its answer is dropped.
Finish(w, k, pc, t) ==
  attempt' = [attempt EXCEPT ![<<w, k>>] =
    IF Awaited(w, k) THEN [@ EXCEPT !.pc = pc, !.token = t] ELSE NoAttempt]

\* Worker w answers; what it waited for is forgotten once it has ended.
Answer(w) ==
  /\ req' = [req EXCEPT ![w] = Idle]
  /\ attempt' = [attempt EXCEPT ![<<w, req[w].tries>>] =
       IF @.pc \in {"ok", "fail"} THEN NoAttempt ELSE @]

\* A token of n is made, and it overlaps another that is still to be told.
Cross(n) ==
  IF \E w \in Workers, k \in Try : TokenMade(w, k, n)
    THEN crossed' = crossed \cup {n} /\ alone' = alone \ {n}
    ELSE crossed' = crossed /\ alone' = alone \cup {n}

\* The requests of these workers end without a reply.
Cut(S) == crossed \cup
  {req[w].user : w \in {v \in S : req[v].pc = "signin" /\ Current(v).pc = "ok"}}

--------------------------------------------------------------------------------
(* Requests: DoSignupHandler, DoSignInHandler, and their calls by the gateway *)

Begin(w, kind, step, n, p) ==
  /\ req[w] = Idle
  /\ \A k \in Try : attempt[<<w, k>>] = NoAttempt
  /\ req' = [req EXCEPT ![w] = [Idle EXCEPT !.pc = kind, !.user = n, !.pass = p,
                                            !.tries = 1]]
  /\ attempt' = [attempt EXCEPT ![<<w, 1>>] = [NoAttempt EXCEPT !.pc = step,
                                             !.user = n, !.pass = p]]

StartSignup(w, n, p) ==
  /\ Begin(w, "signup", "up", n, p)
  /\ UNCHANGED <<config, now, rows, ghosts>>

StartSignin(w, n, p) ==
  /\ Begin(w, "signin", "in", n, p)
  /\ UNCHANGED <<config, now, rows, ghosts>>

--------------------------------------------------------------------------------
(* db/user.go *)

\* Variant: the count of rows is not looked at.
UserSignupUncounted(w, k) ==
  LET a == attempt[<<w, k>>] IN
  /\ a.pc = "up"
  /\ pwd' = [pwd EXCEPT ![a.user] = IF @ = None THEN a.pass ELSE @]
  /\ Finish(w, k, "ok", None)
  /\ UNCHANGED <<config, now, tokenRow, req, ghosts>>

\* UserSignup: insert ignore into tbl_user, which succeeds if a row was added.
\* A failed statement may have added it all the same.
UserSignup(w, k) ==
  LET a == attempt[<<w, k>>] IN
  /\ a.pc = "up"
  /\ \/ /\ pwd[a.user] = None
        /\ pwd' = [pwd EXCEPT ![a.user] = a.pass]
        /\ \/ Finish(w, k, "ok", None)
           \/ "db" \in Faults /\ Finish(w, k, "fail", None)
     \/ /\ pwd[a.user] # None \/ "db" \in Faults
        /\ Finish(w, k, "fail", None)
        /\ UNCHANGED pwd
  /\ UNCHANGED <<config, now, tokenRow, req, ghosts>>

\* UserSignin compares the password; GenToken makes a token of this second.
UserSignin(w, k) ==
  LET a == attempt[<<w, k>>] IN
  /\ a.pc = "in"
  /\ \/ /\ pwd[a.user] = a.pass
        /\ attempt' = [attempt EXCEPT ![<<w, k>>].pc = "save", ![<<w, k>>].token = now]
        /\ Cross(a.user)
     \/ /\ pwd[a.user] # a.pass \/ "db" \in Faults
        /\ Finish(w, k, "fail", None)
        /\ UNCHANGED <<crossed, alone>>
  /\ UNCHANGED <<config, now, rows, req, granted, told, latest>>

\* Variant: insert ignore into tbl_user_token.
UpdateTokenIgnore(w, k) ==
  LET a == attempt[<<w, k>>] IN
  /\ a.pc = "save"
  /\ tokenRow' = [tokenRow EXCEPT ![a.user] = IF @ = None THEN a.token ELSE @]
  /\ Finish(w, k, "ok", a.token)
  /\ UNCHANGED <<config, now, pwd, req, ghosts>>

\* UpdateToken: replace into tbl_user_token, also for a call given up on.  A
\* failed statement may have been carried out all the same.
UpdateToken(w, k) ==
  LET a == attempt[<<w, k>>]
      saved == [tokenRow EXCEPT ![a.user] = a.token]
  IN
  /\ a.pc = "save"
  /\ \/ /\ tokenRow' = saved
        /\ Finish(w, k, "ok", a.token)
        /\ crossed' = IF Awaited(w, k) THEN crossed ELSE crossed \cup {a.user}
     \/ /\ "db" \in Faults
        /\ Finish(w, k, "fail", None)
        /\ \/ tokenRow' = saved /\ crossed' = crossed \cup {a.user}
           \/ UNCHANGED <<tokenRow, crossed>>
  /\ UNCHANGED <<config, now, pwd, req, granted, told, latest, alone>>

--------------------------------------------------------------------------------
(* Replies *)

ReplySignup(w) ==
  /\ req[w].pc = "signup"
  /\ Current(w).pc \in {"ok", "fail"}
  /\ granted' = IF Current(w).pc = "ok"
                  THEN granted \cup {<<req[w].user, req[w].pass>>}
                  ELSE granted
  /\ Answer(w)
  /\ UNCHANGED <<config, now, rows, told, latest, crossed, alone>>

ReplySignin(w) ==
  /\ req[w].pc = "signin"
  /\ Current(w).pc \in {"ok", "fail"}
  /\ IF Current(w).pc = "ok"
       THEN /\ told' = told \cup {<<req[w].user, req[w].pass, Current(w).token>>}
            /\ latest' = [latest EXCEPT ![req[w].user] = Current(w).token]
            /\ crossed' = crossed \ ({req[w].user} \cap alone)
       ELSE UNCHANGED <<told, latest, crossed>>
  /\ Answer(w)
  /\ UNCHANGED <<config, now, rows, granted, alone>>

--------------------------------------------------------------------------------
(* The call between the gateway and the account service (go-micro, external) *)

\* Variant: a call is sent three times.
RetryOnceMore(w) ==
  /\ door = "micro"
  /\ Waiting(w)
  /\ req[w].tries <= 2
  /\ \/ "rpc" \in Faults
     \/ req[w].pc = "signin" /\ Current(w).pc = "fail"
  /\ req' = [req EXCEPT ![w].tries = @ + 1]
  /\ attempt' = [attempt EXCEPT
       ![<<w, 1>>] = IF @.pc \in {"ok", "fail"} THEN NoAttempt ELSE @,
       ![<<w, 2>>] = [NoAttempt EXCEPT !.pc = IF req[w].pc = "signup" THEN "up" ELSE "in",
                                   !.user = req[w].user, !.pass = req[w].pass]]
  /\ crossed' = Cut({w})
  /\ UNCHANGED <<config, now, rows, granted, told, latest, alone>>

\* The call is sent again: the first one was not answered in time, or with an
\* error, as Signin does for a wrong password and a token it cannot save.
Retry(w) ==
  /\ door = "micro"
  /\ Waiting(w)
  /\ req[w].tries = 1
  /\ \/ "rpc" \in Faults
     \/ req[w].pc = "signin" /\ Current(w).pc = "fail"
  /\ req' = [req EXCEPT ![w].tries = 2]
  /\ attempt' = [attempt EXCEPT
       ![<<w, 1>>] = IF @.pc \in {"ok", "fail"} THEN NoAttempt ELSE @,
       ![<<w, 2>>] = [NoAttempt EXCEPT !.pc = IF req[w].pc = "signup" THEN "up" ELSE "in",
                                   !.user = req[w].user, !.pass = req[w].pass]]
  /\ crossed' = Cut({w})
  /\ UNCHANGED <<config, now, rows, granted, told, latest, alone>>

\* The gateway gives up and answers 500.
GiveUp(w) ==
  /\ door = "micro"
  /\ "rpc" \in Faults
  /\ Waiting(w)
  /\ Answer(w)
  /\ crossed' = Cut({w})
  /\ UNCHANGED <<config, now, rows, granted, told, latest, alone>>

\* A call never reaches the service, or the service stops while it is at it.
CallLost(w, k) ==
  /\ door = "micro"
  /\ Faults \cap {"rpc", "crash"} # {}
  /\ attempt[<<w, k>>].pc \in {"up", "in", "save"}
  /\ Finish(w, k, "fail", None)
  /\ UNCHANGED <<config, now, rows, req, ghosts>>

--------------------------------------------------------------------------------
(* HTTPInterceptor of the monolith; the microservices' routers mount none *)

\* IsTokenValid for a token a user was told: its first eight digits, which are
\* the head of the md5, must not be more than a day ago.
StartCheck(w, n, t) ==
  /\ door = "mono"
  /\ req[w] = Idle
  /\ \E p \in Passwords : <<n, p, t>> \in told
  /\ head[<<n, t>>] + Day >= now
  /\ req' = [req EXCEPT ![w] = [Idle EXCEPT !.pc = "check", !.user = n, !.token = t]]
  /\ UNCHANGED <<config, now, rows, attempt, ghosts>>

\* select user_token from tbl_user_token.
GetTokenFromDB(n) == tokenRow[n]

\* It must also be the token of the user's row: the request goes on, or is
\* aborted, and is not followed any further here.
CheckRow(w) ==
  /\ req[w].pc = "check"
  /\ req' = [req EXCEPT ![w] = Idle]
  /\ UNCHANGED <<config, now, rows, attempt, ghosts>>

--------------------------------------------------------------------------------
(* Environment *)

Tick ==
  /\ now < MaxClock
  /\ now' = now + 1
  /\ UNCHANGED <<config, rows, req, attempt, ghosts>>

\* The server clients talk to stops and is started again.  In the monolith the
\* attempts are its own; the account service goes on with those it was sent.
ServerCrash ==
  /\ "crash" \in Faults
  /\ \E w \in Workers : req[w] # Idle
  /\ req' = [w \in Workers |-> Idle]
  /\ attempt' = IF door = "mono"
       THEN [wk \in Workers \X Try |-> NoAttempt]
       ELSE [wk \in Workers \X Try |->
               IF attempt[wk].pc \in {"ok", "fail"} THEN NoAttempt ELSE attempt[wk]]
  /\ crossed' = Cut(Workers)
  /\ UNCHANGED <<config, now, rows, granted, told, latest, alone>>

--------------------------------------------------------------------------------

Init ==
  /\ door \in Doors
  /\ head \in [Users \X Token -> Heads]
  /\ now = 0
  /\ pwd = [n \in Users |-> None]
  /\ tokenRow = [n \in Users |-> None]
  /\ req = [w \in Workers |-> Idle]
  /\ attempt = [wk \in Workers \X Try |-> NoAttempt]
  /\ granted = {}
  /\ told = {}
  /\ latest = [n \in Users |-> None]
  /\ crossed = {}
  /\ alone = Users

Start(w) ==
  \/ \E n \in Users, p \in Passwords : StartSignup(w, n, p) \/ StartSignin(w, n, p)
  \/ \E n \in Users, t \in Token : StartCheck(w, n, t)

\* The monolith's handlers take their own statements.
DoSignupHandler(w) ==
  /\ door = "mono"
  /\ UserSignup(w, 1) \/ ReplySignup(w)

DoSignInHandler(w) ==
  /\ door = "mono"
  /\ UserSignin(w, 1) \/ UpdateToken(w, 1) \/ ReplySignin(w)

\* The account service carries out the calls it was sent.
SvcSignup(w, k) == door = "micro" /\ UserSignup(w, k)
SvcSignin(w, k) == door = "micro" /\ (UserSignin(w, k) \/ UpdateToken(w, k))

\* The gateway waits for one of them, sends it again or gives up.
GatewaySignup(w) ==
  /\ door = "micro"
  /\ req[w].pc = "signup"
  /\ ReplySignup(w) \/ Retry(w) \/ GiveUp(w)

GatewaySignin(w) ==
  /\ door = "micro"
  /\ req[w].pc = "signin"
  /\ ReplySignin(w) \/ Retry(w) \/ GiveUp(w)

Handle(w) ==
  \/ DoSignupHandler(w) \/ DoSignInHandler(w)
  \/ GatewaySignup(w) \/ GatewaySignin(w)
  \/ \E k \in Try : SvcSignup(w, k) \/ SvcSignin(w, k) \/ CallLost(w, k)
  \/ CheckRow(w)

Next ==
  \/ \E w \in Workers : Start(w) \/ Handle(w)
  \/ Tick
  \/ ServerCrash

Spec == Init /\ [][Next]_vars

--------------------------------------------------------------------------------
(* Properties *)

\* Every variable has its type; a request and an attempt hold what they need.
TypeOK ==
  /\ door \in Doors
  /\ head \in [Users \X Token -> Heads]
  /\ now \in Clock
  /\ pwd \in [Users -> Passwords \cup {None}]
  /\ tokenRow \in [Users -> Token \cup {None}]
  /\ req \in [Workers -> Request]
  /\ attempt \in [Workers \X Try -> Attempt]
  /\ granted \subseteq Users \X Passwords
  /\ told \subseteq Users \X Passwords \X Token
  /\ latest \in [Users -> Token \cup {None}]
  /\ crossed \subseteq Users
  /\ alone \subseteq Users
  /\ \A w \in Workers :
       /\ Waiting(w) => /\ req[w].user \in Users /\ req[w].pass \in Passwords
                        /\ req[w].tries \in Try
                        /\ Current(w).user = req[w].user
                        /\ Current(w).pass = req[w].pass
       /\ req[w].pc = "check" => req[w].user \in Users /\ req[w].token \in Token

\* A password a sign-up was answered OK for, or a sign-in ever worked with, is
\* the user's for good: of sign-ups that race for one name, retried or lost
\* on the way, one wins and no other is ever told so (db/user.go:22).
OneSignupWins ==
  /\ \A n \in Users, p \in Passwords : <<n, p>> \in granted => pwd[n] = p
  /\ \A n \in Users, p \in Passwords, t \in Token :
       <<n, p, t>> \in told => pwd[n] = p

\* A user who was told a token is known by it until told another, unless two
\* sign-ins with the right password overlapped, a token was saved and never told,
\* or the reply with the next is on its way; and the next sign-in that overlaps
\* no other puts an end to either (handler/user.go:64, db/user.go:58).
LockedOutOnlyByOverlap == \A n \in Users :
  \/ latest[n] = None
  \/ GetTokenFromDB(n) = latest[n]
  \/ n \in crossed
  \/ \E w \in Workers : req[w].pc = "signin" /\ req[w].user = n /\ Current(w).pc = "ok"

\* handler/user.go:127 calls the first test of IsTokenValid the one for the age of
\* the token, and :120 sets the limit to a day.  NOT true of this code: it reads
\* the head of the md5, not the time, so that a token may pass at any age.
CheckedTokenIsFresh ==
  [][\A w \in Workers, n \in Users, t \in Token :
       StartCheck(w, n, t) => t + Day >= now]_vars

================================================================================
