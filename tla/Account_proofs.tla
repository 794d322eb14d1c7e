----------------------------- MODULE Account_proofs -----------------------------
(***************************************************************************)
(* Type correctness and safety of Account, for any number of users,          *)
(* passwords and concurrent requests, and whatever the clock is bound by.     *)
(*                                                                         *)
(* The invariant follows attempts: one that got past the password, or that     *)
(* added the user, carries the password of the row, which no statement ever    *)
(* changes; and a user whose last token overlapped no other has at most one    *)
(* attempt with a token that is not told yet.  For a user nothing has crossed  *)
(* that attempt is where a row that differs from the token told last got its   *)
(* token from; for one that was crossed before, telling that token ends it.    *)
(***************************************************************************)
EXTENDS Account, TLAPS

At(w, k) == attempt[<<w, k>>]

\* What a request that waits, or checks a token, holds.
RequestOK(w) ==
  /\ Waiting(w) => /\ req[w].user \in Users /\ req[w].pass \in Passwords
                   /\ req[w].tries \in Try
                   /\ Current(w).user = req[w].user
                   /\ Current(w).pass = req[w].pass
  /\ req[w].pc = "check" => req[w].user \in Users /\ req[w].token \in Token
RequestsOK == \A w \in Workers : RequestOK(w)

\* The types of what no attempt and no request is made of.
RowsOK ==
  /\ now \in Clock
  /\ pwd \in [Users -> Passwords \cup {None}]
  /\ tokenRow \in [Users -> Token \cup {None}]
  /\ granted \subseteq Users \X Passwords
  /\ told \subseteq Users \X Passwords \X Token
  /\ latest \in [Users -> Token \cup {None}]
  /\ crossed \subseteq Users
  /\ alone \subseteq Users

\* What an attempt holds; its answer is kept only while it is awaited.
AttemptOK(w, k) ==
  /\ At(w, k).pc # "none" => At(w, k).user \in Users /\ At(w, k).pass \in Passwords
  /\ At(w, k).pc = "save" => At(w, k).token \in Token
  /\ At(w, k).pc \in {"ok", "fail"} => Awaited(w, k)
AttemptsOK == \A w \in Workers, k \in Try : AttemptOK(w, k)

\* An attempt is of the kind of its request.
KindOK(w) ==
  /\ req[w].pc = "signup" =>
       Current(w).pc \in {"up", "ok", "fail"} /\ Current(w).token = None
  /\ req[w].pc = "signin" =>
       /\ Current(w).pc \in {"in", "save", "ok", "fail"}
       /\ Current(w).pc = "ok" => Current(w).token \in Token
KindsOK == \A w \in Workers : KindOK(w)

\* An attempt past the password, or that added its user, has the row's password.
PasswordsOK ==
  /\ \A w \in Workers, k \in Try :
       At(w, k).pc \in {"save", "ok"} => pwd[At(w, k).user] = At(w, k).pass
  /\ OneSignupWins

\* One token of n at most is still to be told; once saved, it is the row's.
Single(n) ==
  /\ \A v, w \in Workers, j, k \in Try :
       TokenMade(v, j, n) /\ TokenMade(w, k, n) => v = w /\ j = k
  /\ \A w \in Workers, k \in Try :
       TokenMade(w, k, n) /\ At(w, k).pc = "ok" => tokenRow[n] = At(w, k).token

\* The row of n is the token told last, or one that is being told.
Known(n) ==
  \/ tokenRow[n] = latest[n]
  \/ \E w \in Workers, k \in Try : TokenMade(w, k, n) /\ At(w, k).pc = "ok"

\* The tokens of a user.
Tokens(n) ==
  /\ n \in alone => Single(n)
  /\ n \notin crossed => n \in alone /\ Known(n)
TokensOK == \A n \in Users : Tokens(n)

AccountInv == TypeOK /\ AttemptsOK /\ KindsOK /\ PasswordsOK /\ TokensOK

--------------------------------------------------------------------------------
(* Attempts and requests *)

LEMMA SlotType ==
  ASSUME TypeOK, NEW w \in Workers, NEW k \in Try
  PROVE  <<w, k>> \in Workers \X Try /\ At(w, k) \in Attempt
BY DEF TypeOK, At

LEMMA NoAttemptType ==
  /\ NoAttempt \in Attempt
  /\ Idle \in Request
  /\ NoAttempt.pc = "none" /\ Idle.pc = "idle"
BY DEF NoAttempt, Attempt, Idle, Request

\* What Finish makes of attempt k of worker w, and of no other.
LEMMA FinishIs ==
  ASSUME TypeOK, NEW w \in Workers, NEW k \in Try,
         NEW pc \in {"ok", "fail"}, NEW t \in Token \cup {None}, Finish(w, k, pc, t)
  PROVE  /\ attempt' \in [Workers \X Try -> Attempt]
         /\ \A v \in Workers, j \in Try : v # w \/ j # k => At(v, j)' = At(v, j)
         /\ Awaited(w, k) => /\ At(w, k)'.pc = pc /\ At(w, k)'.token = t
                             /\ At(w, k)'.user = At(w, k).user
                             /\ At(w, k)'.pass = At(w, k).pass
         /\ ~Awaited(w, k) => At(w, k)' = NoAttempt
<1> DEFINE a == At(w, k)
           r == IF Awaited(w, k) THEN [a EXCEPT !.pc = pc, !.token = t] ELSE NoAttempt
<1>1. a \in Attempt /\ <<w, k>> \in Workers \X Try
  BY SlotType
<1>2. r \in Attempt
  BY <1>1, NoAttemptType DEF Attempt
<1>3. attempt' = [attempt EXCEPT ![<<w, k>>] = r]
  BY DEF Finish, At
<1>4. attempt' \in [Workers \X Try -> Attempt] /\ attempt'[<<w, k>>] = r
  BY <1>1, <1>2, <1>3 DEF TypeOK
<1>5. \A v \in Workers, j \in Try : v # w \/ j # k => attempt'[<<v, j>>] = attempt[<<v, j>>]
  BY <1>1, <1>3 DEF TypeOK
<1>6. Awaited(w, k) => /\ r.pc = pc /\ r.token = t /\ r.user = a.user /\ r.pass = a.pass
  BY <1>1 DEF Attempt
<1> QED
  BY <1>4, <1>5, <1>6 DEF At

\* What Answer makes of worker w and of what it waited for.
LEMMA AnswerIs ==
  ASSUME TypeOK, NEW w \in Workers, Waiting(w), Answer(w)
  PROVE  /\ attempt' \in [Workers \X Try -> Attempt]
         /\ req' \in [Workers -> Request] /\ req'[w] = Idle
         /\ \A v \in Workers \ {w} : req'[v] = req[v]
         /\ \A v \in Workers, j \in Try :
              IF v = w /\ j = req[w].tries /\ At(v, j).pc \in {"ok", "fail"}
                THEN At(v, j)' = NoAttempt
                ELSE At(v, j)' = At(v, j)
<1> DEFINE k == req[w].tries
           a == attempt[<<w, k>>]
           r == IF a.pc \in {"ok", "fail"} THEN NoAttempt ELSE a
<1>1. k \in Try /\ <<w, k>> \in Workers \X Try /\ a \in Attempt
  BY SlotType DEF TypeOK, At
<1>2. r \in Attempt
  BY <1>1, NoAttemptType
<1>3. attempt' = [attempt EXCEPT ![<<w, k>>] = r] /\ req' = [req EXCEPT ![w] = Idle]
  BY DEF Answer
<1>4. attempt' \in [Workers \X Try -> Attempt] /\ attempt'[<<w, k>>] = r
  BY <1>1, <1>2, <1>3 DEF TypeOK
<1>5. \A v \in Workers, j \in Try : v # w \/ j # k => attempt'[<<v, j>>] = attempt[<<v, j>>]
  BY <1>1, <1>3 DEF TypeOK
<1>6. /\ req' \in [Workers -> Request] /\ req'[w] = Idle
      /\ \A v \in Workers \ {w} : req'[v] = req[v]
  BY <1>3, NoAttemptType DEF TypeOK
<1> QED
  BY <1>4, <1>5, <1>6 DEF At

--------------------------------------------------------------------------------
(* The tokens of one user *)

\* A step that makes no token of n, and tells none; one it drops crosses n.
LEMMA TokensStay ==
  ASSUME NEW n \in Users, Tokens(n), tokenRow'[n] = tokenRow[n], latest'[n] = latest[n],
         n \in alone' <=> n \in alone, n \notin crossed' => n \notin crossed,
         \A w \in Workers, k \in Try :
           /\ TokenMade(w, k, n)' => At(w, k)' = At(w, k)
           /\ n \notin crossed' /\ TokenMade(w, k, n) /\ At(w, k).pc = "ok" =>
                At(w, k)' = At(w, k)
  PROVE  Tokens(n)'
<1>1. \A w \in Workers, k \in Try : TokenMade(w, k, n)' => TokenMade(w, k, n)
  BY DEF TokenMade, At
<1>2. ASSUME n \in alone PROVE Single(n)'
  BY <1>1, <1>2 DEF Tokens, Single
<1>3. ASSUME n \notin crossed' PROVE Known(n)'
  <2>1. \A w \in Workers, k \in Try :
          TokenMade(w, k, n) /\ At(w, k).pc = "ok" => TokenMade(w, k, n)' /\ At(w, k)'.pc = "ok"
    BY <1>3 DEF TokenMade, At
  <2> QED
    BY <1>3, <2>1 DEF Tokens, Known
<1> QED
  BY <1>2, <1>3 DEF Tokens

\* A token of n that is not saved yet, where none overlaps another, is the only
\* one; and if nothing has crossed n, the row is the token told last.
LEMMA OnlyToken ==
  ASSUME NEW n \in Users, Tokens(n), n \in alone, NEW w \in Workers, NEW k \in Try,
         TokenMade(w, k, n), At(w, k).pc = "save"
  PROVE  /\ n \notin crossed => tokenRow[n] = latest[n]
         /\ \A v \in Workers, j \in Try : TokenMade(v, j, n) => v = w /\ j = k
BY DEF Tokens, Single, Known

--------------------------------------------------------------------------------
(* The steps of an attempt *)

LEMMA TypeIs ==
  TypeOK <=> /\ door \in Doors
             /\ head \in [Users \X Token -> Heads]
             /\ req \in [Workers -> Request]
             /\ attempt \in [Workers \X Try -> Attempt]
             /\ RowsOK /\ RequestsOK
BY DEF TypeOK, RowsOK, RequestsOK, RequestOK

\* Attempt k of worker w moves on, or ends with nobody to wait for it.
LEMMA CallMoves ==
  ASSUME AccountInv, NEW w \in Workers, NEW k \in Try, RowsOK',
         UNCHANGED <<config, req>>, attempt' \in [Workers \X Try -> Attempt],
         \A v \in Workers, j \in Try : v # w \/ j # k => At(v, j)' = At(v, j),
         At(w, k).pc \in {"up", "in", "save"},
         \/ ~Awaited(w, k) /\ At(w, k)' = NoAttempt
         \/ /\ At(w, k)'.user = At(w, k).user /\ At(w, k)'.pass = At(w, k).pass
            /\ At(w, k)'.pc = "save" => At(w, k)'.token \in Token
            /\ At(w, k)'.pc \in {"ok", "fail"} => Awaited(w, k)
            /\ At(w, k).pc = "up" => At(w, k)'.pc \in {"ok", "fail"} /\ At(w, k)'.token = None
            /\ At(w, k).pc \in {"in", "save"} =>
                 /\ At(w, k)'.pc \in {"save", "ok", "fail"}
                 /\ At(w, k)'.pc = "ok" => At(w, k)'.token \in Token
  PROVE  TypeOK' /\ AttemptsOK' /\ KindsOK'
<1>1. AttemptsOK'
  BY NoAttemptType DEF AccountInv, AttemptsOK, AttemptOK, Awaited, Waiting
<1>2. \A v \in Workers : Waiting(v) =>
        /\ req[v].tries \in Try
        /\ At(v, req[v].tries) = Current(v)
        /\ At(v, req[v].tries)' = Current(v)'
  BY DEF AccountInv, TypeOK, At, Current
<1>3. RequestsOK'
  BY <1>2 DEF AccountInv, TypeOK, RequestsOK, RequestOK, Waiting, Awaited
<1>4. KindsOK'
  BY <1>2 DEF AccountInv, KindsOK, KindOK, Waiting, Awaited
<1>5. TypeOK'
  BY <1>3, TypeIs DEF AccountInv, TypeOK, RowsOK, RequestsOK, RequestOK, config
<1> QED
  BY <1>1, <1>4, <1>5

\* A row that has a password keeps it, and so does what was answered with it.
LEMMA CallPasswords ==
  ASSUME AccountInv, NEW w \in Workers, NEW k \in Try,
         \A n \in Users : pwd[n] # None => pwd'[n] = pwd[n],
         UNCHANGED <<granted, told>>,
         \A v \in Workers, j \in Try : v # w \/ j # k => At(v, j)' = At(v, j),
         At(w, k)'.pc \in {"save", "ok"} => pwd'[At(w, k)'.user] = At(w, k)'.pass
  PROVE  PasswordsOK'
<1>1. \A p \in Passwords : p # None
  BY AccountAssumption
<1>2. OneSignupWins'
  BY <1>1 DEF AccountInv, PasswordsOK, OneSignupWins
<1>3. \A v \in Workers, j \in Try :
        At(v, j)'.pc \in {"save", "ok"} => pwd'[At(v, j)'.user] = At(v, j)'.pass
  <2> SUFFICES ASSUME NEW v \in Workers, NEW j \in Try, v # w \/ j # k,
                      At(v, j).pc \in {"save", "ok"}
               PROVE  pwd'[At(v, j).user] = At(v, j).pass
    OBVIOUS
  <2>1. /\ At(v, j).user \in Users /\ At(v, j).pass \in Passwords
        /\ pwd[At(v, j).user] = At(v, j).pass
    BY DEF AccountInv, AttemptsOK, AttemptOK, PasswordsOK
  <2> QED
    BY <1>1, <2>1
<1> QED
  BY <1>2, <1>3 DEF PasswordsOK

LEMMA SignupInv ==
  ASSUME AccountInv, NEW w \in Workers, NEW k \in Try, UserSignup(w, k)
  PROVE  AccountInv'
<1> DEFINE a == At(w, k)
<1>1. /\ a \in Attempt /\ a.pc = "up" /\ a.user \in Users /\ a.pass \in Passwords
      /\ UNCHANGED <<config, now, tokenRow, req, ghosts>>
  BY SlotType DEF UserSignup, At, AccountInv, AttemptsOK, AttemptOK
<1>2. PICK pc \in {"ok", "fail"} :
        /\ Finish(w, k, pc, None)
        /\ pc = "ok" => pwd[a.user] = None /\ pwd' = [pwd EXCEPT ![a.user] = a.pass]
        /\ \/ pwd[a.user] = None /\ pwd' = [pwd EXCEPT ![a.user] = a.pass]
           \/ UNCHANGED pwd
  BY DEF UserSignup, At
<1>3. /\ attempt' \in [Workers \X Try -> Attempt]
      /\ \A v \in Workers, j \in Try : v # w \/ j # k => At(v, j)' = At(v, j)
      /\ Awaited(w, k) => /\ At(w, k)'.pc = pc /\ At(w, k)'.token = None
                          /\ At(w, k)'.user = a.user /\ At(w, k)'.pass = a.pass
      /\ ~Awaited(w, k) => At(w, k)' = NoAttempt
  BY <1>2, FinishIs DEF AccountInv
<1>4. RowsOK'
  BY <1>1, <1>2 DEF AccountInv, TypeOK, RowsOK, ghosts
<1>5. TypeOK' /\ AttemptsOK' /\ KindsOK'
  BY <1>1, <1>3, <1>4, CallMoves
<1>6. PasswordsOK'
  <2>1. \A n \in Users : pwd[n] # None => pwd'[n] = pwd[n]
    BY <1>1, <1>2 DEF AccountInv, TypeOK
  <2>2. At(w, k)'.pc \in {"save", "ok"} => pwd'[At(w, k)'.user] = At(w, k)'.pass
    BY <1>1, <1>2, <1>3, NoAttemptType DEF AccountInv, TypeOK
  <2> QED
    BY <1>1, <1>3, <2>1, <2>2, CallPasswords DEF ghosts
<1>7. TokensOK'
  <2>1. At(w, k)'.pc = "ok" => At(w, k)'.token = None
    BY <1>3, NoAttemptType
  <2>2. At(w, k)'.pc # "save"
    BY <1>2, <1>3, NoAttemptType
  <2>3. \A v \in Workers, j \in Try, n \in Users :
          /\ TokenMade(v, j, n)' => At(v, j)' = At(v, j)
          /\ TokenMade(v, j, n) /\ At(v, j).pc = "ok" => At(v, j)' = At(v, j)
    BY <1>1, <1>3, <2>1, <2>2 DEF TokenMade, At
  <2> QED
    BY <1>1, <2>3, TokensStay DEF AccountInv, TokensOK, ghosts
<1> QED
  BY <1>5, <1>6, <1>7 DEF AccountInv

LEMMA CallLostInv ==
  ASSUME AccountInv, NEW w \in Workers, NEW k \in Try, CallLost(w, k)
  PROVE  AccountInv'
<1> DEFINE a == At(w, k)
<1>1. /\ a \in Attempt /\ a.pc \in {"up", "in", "save"} /\ Finish(w, k, "fail", None)
      /\ UNCHANGED <<config, now, rows, req, ghosts>>
  BY SlotType DEF CallLost, At, AccountInv
<1>2. /\ attempt' \in [Workers \X Try -> Attempt]
      /\ \A v \in Workers, j \in Try : v # w \/ j # k => At(v, j)' = At(v, j)
      /\ Awaited(w, k) => /\ At(w, k)'.pc = "fail" /\ At(w, k)'.token = None
                          /\ At(w, k)'.user = a.user /\ At(w, k)'.pass = a.pass
      /\ ~Awaited(w, k) => At(w, k)' = NoAttempt
  BY <1>1, FinishIs DEF AccountInv
<1>3. RowsOK'
  BY <1>1 DEF AccountInv, TypeOK, RowsOK, rows, ghosts
<1>4. TypeOK' /\ AttemptsOK' /\ KindsOK'
  BY <1>1, <1>2, <1>3, CallMoves
<1>5. At(w, k)'.pc \in {"fail", "none"}
  BY <1>2, NoAttemptType
<1>6. PasswordsOK'
  BY <1>1, <1>2, <1>5, CallPasswords DEF rows, ghosts
<1>7. \A v \in Workers, j \in Try, n \in Users :
        /\ TokenMade(v, j, n)' => At(v, j)' = At(v, j)
        /\ TokenMade(v, j, n) /\ At(v, j).pc = "ok" => At(v, j)' = At(v, j)
  BY <1>1, <1>2, <1>5 DEF TokenMade, At
<1>8. TokensOK'
  BY <1>1, <1>7, TokensStay DEF AccountInv, TokensOK, rows, ghosts
<1> QED
  BY <1>4, <1>6, <1>8 DEF AccountInv

LEMMA SigninInv ==
  ASSUME AccountInv, NEW w \in Workers, NEW k \in Try, UserSignin(w, k)
  PROVE  AccountInv'
<1> DEFINE a == At(w, k)
<1>1. /\ a \in Attempt /\ a.pc = "in" /\ a.user \in Users /\ a.pass \in Passwords
      /\ UNCHANGED <<config, now, rows, req, granted, told, latest>>
      /\ Cross(a.user) \/ UNCHANGED <<crossed, alone>>
  BY SlotType DEF UserSignin, At, AccountInv, AttemptsOK, AttemptOK
<1>2. /\ crossed \subseteq crossed' /\ RowsOK'
      /\ \A n \in Users : n # a.user => (n \in alone' <=> n \in alone)
  BY <1>1 DEF Cross, AccountInv, TypeOK, RowsOK, rows
<1>3. CASE Finish(w, k, "fail", None) /\ UNCHANGED <<crossed, alone>>
  <2>1. /\ attempt' \in [Workers \X Try -> Attempt]
        /\ \A v \in Workers, j \in Try : v # w \/ j # k => At(v, j)' = At(v, j)
        /\ Awaited(w, k) => /\ At(w, k)'.pc = "fail" /\ At(w, k)'.token = None
                            /\ At(w, k)'.user = a.user /\ At(w, k)'.pass = a.pass
        /\ ~Awaited(w, k) => At(w, k)' = NoAttempt
    BY <1>3, FinishIs DEF AccountInv
  <2>2. TypeOK' /\ AttemptsOK' /\ KindsOK'
    BY <1>1, <1>2, <2>1, CallMoves
  <2>3. At(w, k)'.pc \in {"fail", "none"}
    BY <2>1, NoAttemptType
  <2>4. PasswordsOK'
    BY <1>1, <2>1, <2>3, CallPasswords DEF rows
  <2>5. \A v \in Workers, j \in Try, n \in Users :
          /\ TokenMade(v, j, n)' => At(v, j)' = At(v, j)
          /\ TokenMade(v, j, n) /\ At(v, j).pc = "ok" => At(v, j)' = At(v, j)
    BY <1>1, <2>1, <2>3 DEF TokenMade, At
  <2>6. TokensOK'
    BY <1>1, <1>3, <2>5, TokensStay DEF AccountInv, TokensOK, rows
  <2> QED
    BY <2>2, <2>4, <2>6 DEF AccountInv
<1>4. CASE /\ pwd[a.user] = a.pass /\ Cross(a.user)
           /\ attempt' = [attempt EXCEPT ![<<w, k>>].pc = "save", ![<<w, k>>].token = now]
  <2> DEFINE r == [a EXCEPT !.pc = "save", !.token = now]
  <2>1. /\ r \in Attempt /\ r.pc = "save" /\ r.token \in Token /\ r.user = a.user
        /\ r.pass = a.pass /\ <<w, k>> \in Workers \X Try
    BY <1>1, SlotType DEF Attempt, AccountInv, TypeOK, Token
  <2>2. attempt' = [attempt EXCEPT ![<<w, k>>] = r]
    BY <1>4, <2>1 DEF At, AccountInv, TypeOK
  <2>3. /\ attempt' \in [Workers \X Try -> Attempt] /\ At(w, k)' = r
        /\ \A v \in Workers, j \in Try : v # w \/ j # k => At(v, j)' = At(v, j)
    BY <2>1, <2>2 DEF At, AccountInv, TypeOK
  <2> HIDE DEF r
  <2>4. TypeOK' /\ AttemptsOK' /\ KindsOK'
    BY <1>1, <1>2, <2>1, <2>3, CallMoves
  <2>5. PasswordsOK'
    BY <1>1, <1>4, <2>1, <2>3, CallPasswords DEF rows
  <2>6. ASSUME NEW n \in Users
        PROVE  Tokens(n)'
    <3>1. Tokens(n)
      BY DEF AccountInv, TokensOK
    <3>2. CASE n # a.user
      <4>1. \A v \in Workers, j \in Try :
              /\ TokenMade(v, j, n)' => At(v, j)' = At(v, j)
              /\ TokenMade(v, j, n) /\ At(v, j).pc = "ok" => At(v, j)' = At(v, j)
        BY <1>1, <2>1, <2>3, <3>2 DEF TokenMade, At
      <4> QED
        BY <1>1, <1>2, <3>1, <3>2, <4>1, TokensStay DEF rows
    <3>3. CASE n = a.user /\ \E v \in Workers, j \in Try : TokenMade(v, j, n)
      BY <1>4, <3>3 DEF Cross, Tokens
    <3>4. CASE n = a.user /\ ~\E v \in Workers, j \in Try : TokenMade(v, j, n)
      <4>1. n \in alone' /\ UNCHANGED crossed
        BY <1>4, <3>4 DEF Cross
      <4>2. \A v \in Workers, j \in Try : ~TokenMade(v, j, n)
        BY <3>4
      <4>3. \A v \in Workers, j \in Try : TokenMade(v, j, n)' => v = w /\ j = k
        BY <2>3, <4>2 DEF TokenMade, At
      <4>4. Single(n)'
        <5>1. At(w, k)'.pc = "save"
          BY <2>1, <2>3
        <5> QED
          BY <4>3, <5>1 DEF Single
      <4>5. ASSUME n \notin crossed PROVE Known(n)'
        BY <1>1, <3>1, <3>4, <4>5 DEF Tokens, Known, rows
      <4> QED
        BY <4>1, <4>4, <4>5 DEF Tokens
    <3> QED
      BY <3>2, <3>3, <3>4
  <2> QED
    BY <2>4, <2>5, <2>6 DEF AccountInv, TokensOK
<1>5. \/ Finish(w, k, "fail", None) /\ UNCHANGED <<crossed, alone>>
      \/ /\ pwd[a.user] = a.pass /\ Cross(a.user)
         /\ attempt' = [attempt EXCEPT ![<<w, k>>].pc = "save", ![<<w, k>>].token = now]
  BY Zenon DEF UserSignin, At
<1> QED
  BY <1>3, <1>4, <1>5

LEMMA UpdateTokenInv ==
  ASSUME AccountInv, NEW w \in Workers, NEW k \in Try, UpdateToken(w, k)
  PROVE  AccountInv'
<1> DEFINE a == At(w, k)
<1>1. /\ a \in Attempt /\ a.pc = "save" /\ a.user \in Users /\ a.pass \in Passwords
      /\ a.token \in Token
      /\ pwd[a.user] = a.pass
      /\ UNCHANGED <<config, now, pwd, req, granted, told, latest, alone>>
  BY SlotType DEF UpdateToken, At, AccountInv, AttemptsOK, AttemptOK, PasswordsOK
<1>2. PICK pc \in {"ok", "fail"}, t \in Token \cup {None} :
        /\ Finish(w, k, pc, t)
        /\ pc = "ok" => /\ t = a.token
                        /\ tokenRow' = [tokenRow EXCEPT ![a.user] = a.token]
                        /\ crossed' = IF Awaited(w, k) THEN crossed
                                                       ELSE crossed \cup {a.user}
        /\ pc = "fail" =>
             /\ t = None
             /\ \/ /\ tokenRow' = [tokenRow EXCEPT ![a.user] = a.token]
                   /\ crossed' = crossed \cup {a.user}
                \/ UNCHANGED <<tokenRow, crossed>>
  BY <1>1 DEF UpdateToken, At
<1>3. /\ attempt' \in [Workers \X Try -> Attempt]
      /\ \A v \in Workers, j \in Try : v # w \/ j # k => At(v, j)' = At(v, j)
      /\ Awaited(w, k) => /\ At(w, k)'.pc = pc /\ At(w, k)'.token = t
                          /\ At(w, k)'.user = a.user /\ At(w, k)'.pass = a.pass
      /\ ~Awaited(w, k) => At(w, k)' = NoAttempt
  BY <1>2, FinishIs DEF AccountInv
<1>4. /\ RowsOK' /\ crossed \subseteq crossed'
      /\ \A n \in Users : n # a.user => tokenRow'[n] = tokenRow[n]
  BY <1>1, <1>2 DEF AccountInv, TypeOK, RowsOK
<1>5. TypeOK' /\ AttemptsOK' /\ KindsOK'
  BY <1>1, <1>2, <1>3, <1>4, CallMoves
<1>6. PasswordsOK'
  <2>1. At(w, k)'.pc \in {"save", "ok"} => pwd'[At(w, k)'.user] = At(w, k)'.pass
    BY <1>1, <1>3, NoAttemptType
  <2> QED
    BY <1>1, <1>3, <2>1, CallPasswords
<1>7. ASSUME NEW n \in Users
      PROVE  Tokens(n)'
  <2>1. Tokens(n)
    BY DEF AccountInv, TokensOK
  <2>2. CASE n # a.user
    <3>1. \A v \in Workers, j \in Try :
            /\ TokenMade(v, j, n)' => At(v, j)' = At(v, j)
            /\ TokenMade(v, j, n) /\ At(v, j).pc = "ok" => At(v, j)' = At(v, j)
      BY <1>1, <1>3, <2>2, NoAttemptType DEF TokenMade, At
    <3> QED
      BY <1>1, <1>4, <2>1, <2>2, <3>1, TokensStay
  <2>3. CASE n = a.user /\ n \in alone
    <3>1. TokenMade(w, k, n)
      BY <1>1, <2>3, AccountAssumption DEF TokenMade, At, Token, Clock
    <3>2. /\ n \notin crossed => tokenRow[n] = latest[n]
          /\ \A v \in Workers, j \in Try : TokenMade(v, j, n) => v = w /\ j = k
      BY <1>1, <2>1, <2>3, <3>1, OnlyToken
    <3>3. \A v \in Workers, j \in Try : TokenMade(v, j, n)' => v = w /\ j = k
      BY <1>3, <3>2 DEF TokenMade, At
    <3>4. CASE pc = "fail"
      <4>1. \A v \in Workers, j \in Try : ~TokenMade(v, j, n)'
        BY <1>2, <1>3, <3>3, <3>4, NoAttemptType DEF TokenMade, At
      <4>2. n \notin crossed' => n \notin crossed /\ tokenRow'[n] = tokenRow[n]
        BY <1>2, <2>3, <3>4
      <4> QED
        BY <1>1, <2>3, <3>2, <4>1, <4>2 DEF Tokens, Single, Known
    <3>5. CASE pc = "ok" /\ Awaited(w, k)
      <4>1. /\ tokenRow'[n] = a.token /\ At(w, k)'.token = a.token
            /\ At(w, k)'.pc = "ok" /\ TokenMade(w, k, n)'
        BY <1>1, <1>2, <1>3, <2>3, <3>5, AccountAssumption
           DEF AccountInv, TypeOK, TokenMade, At, Token, Clock
      <4> QED
        BY <1>1, <2>3, <3>3, <4>1 DEF Tokens, Single, Known
    <3>6. CASE pc = "ok" /\ ~Awaited(w, k)
      <4>1. \A v \in Workers, j \in Try : ~TokenMade(v, j, n)'
        BY <1>3, <3>3, <3>6, NoAttemptType DEF TokenMade, At
      <4>2. n \in crossed'
        BY <1>2, <2>3, <3>6
      <4> QED
        BY <4>1, <4>2 DEF Tokens, Single
    <3> QED
      BY <3>4, <3>5, <3>6
  <2>4. CASE n \notin alone
    BY <1>1, <1>4, <2>1, <2>4 DEF Tokens
  <2> QED
    BY <2>2, <2>3, <2>4
<1> QED
  BY <1>5, <1>6, <1>7 DEF AccountInv, TokensOK

--------------------------------------------------------------------------------
(* The steps of a request *)

\* The others are where they were; worker w and its attempts are as they should.
LEMMA WorkerMoves ==
  ASSUME AccountInv, NEW w \in Workers, RowsOK', UNCHANGED config,
         req' \in [Workers -> Request], attempt' \in [Workers \X Try -> Attempt],
         \A v \in Workers \ {w} : req'[v] = req[v],
         \A v \in Workers \ {w}, j \in Try : At(v, j)' = At(v, j),
         RequestOK(w)', KindOK(w)', \A j \in Try : AttemptOK(w, j)'
  PROVE  TypeOK' /\ AttemptsOK' /\ KindsOK'
<1>1. ASSUME NEW v \in Workers \ {w}
      PROVE  RequestOK(v)' /\ KindOK(v)' /\ \A j \in Try : AttemptOK(v, j)'
  <2>1. req'[v] = req[v] /\ \A j \in Try : attempt'[<<v, j>>] = attempt[<<v, j>>]
    BY DEF At
  <2>2. RequestOK(v) /\ KindOK(v) /\ \A j \in Try : AttemptOK(v, j)
    BY TypeIs DEF AccountInv, RequestsOK, KindsOK, AttemptsOK
  <2>3. Waiting(v) => req[v].tries \in Try
    BY <2>2 DEF RequestOK
  <2>4. /\ Waiting(v)' <=> Waiting(v)
        /\ Waiting(v) => Current(v)' = Current(v)
        /\ \A j \in Try : Awaited(v, j)' <=> Awaited(v, j)
    BY <2>1, <2>3 DEF Waiting, Awaited, Current
  <2>5. RequestOK(v)'
    BY <2>1, <2>2, <2>4 DEF RequestOK
  <2>6. KindOK(v)'
    BY <2>1, <2>2, <2>4 DEF KindOK, Waiting
  <2>7. \A j \in Try : AttemptOK(v, j)'
    BY <2>1, <2>2, <2>4 DEF AttemptOK, At
  <2> QED
    BY <2>5, <2>6, <2>7
<1>2. \A v \in Workers : RequestOK(v)' /\ KindOK(v)' /\ \A j \in Try : AttemptOK(v, j)'
  BY <1>1
<1>3. RequestsOK' /\ AttemptsOK' /\ KindsOK'
  BY <1>2 DEF RequestsOK, AttemptsOK, KindsOK
<1>4. TypeOK'
  BY <1>3 DEF AccountInv, TypeOK, RowsOK, RequestsOK, RequestOK, config
<1> QED
  BY <1>3, <1>4

\* An answer to be told is that of a sign-in its worker waits for.
LEMMA OkIsCurrent ==
  ASSUME AccountInv, NEW w \in Workers, NEW k \in Try, At(w, k).pc = "ok"
  PROVE  /\ Waiting(w) /\ req[w].tries = k /\ Current(w) = At(w, k)
         /\ At(w, k).user = req[w].user /\ At(w, k).pass = req[w].pass
         /\ At(w, k).token # None => req[w].pc = "signin"
<1>1. Awaited(w, k)
  BY DEF AccountInv, AttemptsOK, AttemptOK
<1>2. Waiting(w) /\ req[w].tries = k /\ Current(w) = At(w, k)
  BY <1>1 DEF Awaited, Current, At
<1>3. RequestOK(w) /\ KindOK(w)
  BY TypeIs DEF AccountInv, RequestsOK, KindsOK
<1> QED
  BY <1>2, <1>3 DEF RequestOK, KindOK, Waiting

\* A request that ends without a reply crosses its user if its token was saved.
LEMMA CutIs ==
  ASSUME AccountInv, NEW S \in SUBSET Workers
  PROVE  /\ crossed \subseteq Cut(S) /\ Cut(S) \subseteq Users
         /\ \A v \in S, j \in Try :
              At(v, j).pc = "ok" /\ At(v, j).token # None => At(v, j).user \in Cut(S)
<1>1. Cut(S) \subseteq Users
  BY DEF Cut, AccountInv, TypeOK, Waiting
<1>2. ASSUME NEW v \in S, NEW j \in Try, At(v, j).pc = "ok", At(v, j).token # None
      PROVE  At(v, j).user \in Cut(S)
  <2>1. /\ req[v].pc = "signin" /\ Current(v).pc = "ok"
        /\ At(v, j).user = req[v].user
    BY <1>2, OkIsCurrent
  <2> QED
    BY <2>1 DEF Cut
<1> QED
  BY <1>1, <1>2 DEF Cut

\* Attempts go, or start from nothing; a token that goes untold crosses its user.
LEMMA Dropped ==
  ASSUME AccountInv, UNCHANGED <<rows, granted, told, latest, alone>>,
         crossed \subseteq crossed',
         \A v \in Workers, j \in Try :
           \/ At(v, j)' = At(v, j)
           \/ /\ At(v, j)'.pc \in {"none", "up", "in"}
              /\ At(v, j).pc = "ok" /\ At(v, j).token # None =>
                   At(v, j).user \in crossed'
  PROVE  PasswordsOK' /\ TokensOK'
<1>1. PasswordsOK'
  BY DEF AccountInv, PasswordsOK, OneSignupWins, rows
<1>2. ASSUME NEW n \in Users
      PROVE  Tokens(n)'
  <2>1. Tokens(n)
    BY DEF AccountInv, TokensOK
  <2>2. \A v \in Workers, j \in Try :
          /\ TokenMade(v, j, n)' => At(v, j)' = At(v, j)
          /\ n \notin crossed' /\ TokenMade(v, j, n) /\ At(v, j).pc = "ok" =>
               At(v, j)' = At(v, j)
    BY DEF TokenMade, At
  <2> QED
    BY <2>1, <2>2, TokensStay DEF rows
<1> QED
  BY <1>1, <1>2 DEF TokensOK

\* Worker w answers, or gives up: it waits for nothing more.
LEMMA AnswerMoves ==
  ASSUME AccountInv, NEW w \in Workers, Waiting(w), Answer(w), RowsOK', UNCHANGED config
  PROVE  TypeOK' /\ AttemptsOK' /\ KindsOK'
<1>1. /\ attempt' \in [Workers \X Try -> Attempt]
      /\ req' \in [Workers -> Request] /\ req'[w] = Idle
      /\ \A v \in Workers \ {w} : req'[v] = req[v]
      /\ \A v \in Workers, j \in Try :
           IF v = w /\ j = req[w].tries /\ At(v, j).pc \in {"ok", "fail"}
             THEN At(v, j)' = NoAttempt
             ELSE At(v, j)' = At(v, j)
  BY AnswerIs DEF AccountInv
<1>2. ~Waiting(w)' /\ req'[w].pc = "idle"
  BY <1>1, NoAttemptType DEF Waiting
<1>3. RequestOK(w)' /\ KindOK(w)'
  BY <1>2 DEF RequestOK, KindOK
<1>4. ASSUME NEW j \in Try
      PROVE  AttemptOK(w, j)'
  <2>1. AttemptOK(w, j)
    BY DEF AccountInv, AttemptsOK
  <2>2. \/ At(w, j)' = NoAttempt
        \/ At(w, j)' = At(w, j) /\ At(w, j).pc \notin {"ok", "fail"}
    BY <1>1, <2>1 DEF AttemptOK, Awaited
  <2> QED
    BY <2>1, <2>2, NoAttemptType DEF AttemptOK
<1> QED
  BY <1>1, <1>3, <1>4, WorkerMoves

LEMMA GiveUpInv ==
  ASSUME AccountInv, NEW w \in Workers, GiveUp(w)
  PROVE  AccountInv'
<1>1. /\ Waiting(w) /\ Answer(w) /\ crossed' = Cut({w})
      /\ UNCHANGED <<config, now, rows, granted, told, latest, alone>>
  BY DEF GiveUp
<1>2. /\ crossed \subseteq crossed' /\ crossed' \subseteq Users
      /\ \A j \in Try :
           At(w, j).pc = "ok" /\ At(w, j).token # None => At(w, j).user \in crossed'
  BY <1>1, CutIs
<1>3. RowsOK'
  BY <1>1, <1>2 DEF AccountInv, TypeOK, RowsOK, rows
<1>4. \A v \in Workers, j \in Try : At(v, j)' = At(v, j) \/ (v = w /\ At(v, j)' = NoAttempt)
  BY <1>1, AnswerIs DEF AccountInv
<1>5. PasswordsOK' /\ TokensOK'
  BY <1>1, <1>2, <1>4, NoAttemptType, Dropped
<1> QED
  BY <1>1, <1>3, <1>5, AnswerMoves DEF AccountInv

LEMMA ReplySignupInv ==
  ASSUME AccountInv, NEW w \in Workers, ReplySignup(w)
  PROVE  AccountInv'
<1>1. /\ req[w].pc = "signup" /\ Waiting(w) /\ Answer(w)
      /\ UNCHANGED <<config, now, rows, told, latest, crossed, alone>>
      /\ \/ granted' = granted
         \/ Current(w).pc = "ok" /\ granted' = granted \cup {<<req[w].user, req[w].pass>>}
  BY DEF ReplySignup, Waiting
<1>2. /\ req[w].tries \in Try /\ Current(w) = At(w, req[w].tries)
      /\ req[w].user \in Users /\ req[w].pass \in Passwords
      /\ Current(w).user = req[w].user /\ Current(w).pass = req[w].pass
      /\ Current(w).token = None
  BY <1>1 DEF AccountInv, TypeOK, KindsOK, KindOK, Current, At
<1>3. RowsOK'
  BY <1>1, <1>2 DEF AccountInv, TypeOK, RowsOK, rows
<1>4. \A v \in Workers, j \in Try :
        \/ At(v, j)' = At(v, j)
        \/ v = w /\ j = req[w].tries /\ At(v, j)' = NoAttempt
  BY <1>1, AnswerIs DEF AccountInv
<1>5. PasswordsOK'
  <2>1. Current(w).pc = "ok" => pwd[req[w].user] = req[w].pass
    BY <1>2 DEF AccountInv, PasswordsOK
  <2>2. OneSignupWins'
    BY <1>1, <2>1 DEF AccountInv, PasswordsOK, OneSignupWins, rows
  <2> QED
    BY <1>1, <1>4, <2>2, NoAttemptType DEF AccountInv, PasswordsOK, rows
<1>6. \A v \in Workers, j \in Try, n \in Users :
        /\ TokenMade(v, j, n)' => At(v, j)' = At(v, j)
        /\ TokenMade(v, j, n) /\ At(v, j).pc = "ok" => At(v, j)' = At(v, j)
  BY <1>2, <1>4, NoAttemptType DEF TokenMade, At
<1>7. TokensOK'
  BY <1>1, <1>6, TokensStay DEF AccountInv, TokensOK, rows
<1> QED
  BY <1>1, <1>3, <1>5, <1>7, AnswerMoves DEF AccountInv

LEMMA AnswerForgets ==
  ASSUME TypeOK, NEW w \in Workers, Waiting(w), Answer(w), Current(w).pc \in {"ok", "fail"}
  PROVE  attempt'[<<w, req[w].tries>>] = NoAttempt
<1>1. <<w, req[w].tries>> \in Workers \X Try
  BY DEF TypeOK
<1> QED
  BY <1>1 DEF TypeOK, Answer, Current

LEMMA ReplySigninInv ==
  ASSUME AccountInv, NEW w \in Workers, ReplySignin(w)
  PROVE  AccountInv'
<1> DEFINE k == req[w].tries
           m == req[w].user
           a == At(w, k)
<1>1. /\ req[w].pc = "signin" /\ Waiting(w) /\ Answer(w)
      /\ UNCHANGED <<config, now, rows, granted, alone>>
  BY DEF ReplySignin, Waiting
<1>2. /\ k \in Try /\ Current(w) = a /\ m \in Users /\ req[w].pass \in Passwords
      /\ a.user = m /\ a.pass = req[w].pass
      /\ a.pc \in {"ok", "fail"}
      /\ a.pc = "ok" => a.token \in Token /\ a.token # None /\ pwd[m] = req[w].pass
  BY <1>1, AccountAssumption
     DEF ReplySignin, AccountInv, TypeOK, KindsOK, KindOK, PasswordsOK, Current, At, Token, Clock
<1>3. \/ a.pc = "fail" /\ UNCHANGED <<told, latest, crossed>>
      \/ /\ a.pc = "ok"
         /\ told' = told \cup {<<m, req[w].pass, a.token>>}
         /\ latest' = [latest EXCEPT ![m] = a.token]
         /\ crossed' = crossed \ ({m} \cap alone)
  BY <1>2 DEF ReplySignin
<1>4. RowsOK'
  BY <1>1, <1>2, <1>3 DEF AccountInv, TypeOK, RowsOK, rows
<1>5. \A v \in Workers, j \in Try :
        \/ At(v, j)' = At(v, j)
        \/ v = w /\ j = k /\ At(v, j)' = NoAttempt
  BY <1>1, AnswerIs DEF AccountInv
<1>6. PasswordsOK'
  <2>1. OneSignupWins'
    BY <1>1, <1>2, <1>3 DEF AccountInv, PasswordsOK, OneSignupWins, rows
  <2> QED
    BY <1>1, <1>5, <2>1, NoAttemptType DEF AccountInv, PasswordsOK, rows
<1>7. ASSUME NEW n \in Users
      PROVE  Tokens(n)'
  <2>1. Tokens(n)
    BY DEF AccountInv, TokensOK
  <2>2. CASE n # m \/ a.pc = "fail"
    <3>1. latest'[n] = latest[n] /\ (n \in crossed' <=> n \in crossed)
      BY <1>2, <1>3, <2>2 DEF AccountInv, TypeOK
    <3>2. \A v \in Workers, j \in Try :
            /\ TokenMade(v, j, n)' => At(v, j)' = At(v, j)
            /\ TokenMade(v, j, n) /\ At(v, j).pc = "ok" => At(v, j)' = At(v, j)
      BY <1>2, <1>5, <2>2, NoAttemptType DEF TokenMade, At
    <3> QED
      BY <1>1, <2>1, <3>1, <3>2, TokensStay DEF rows
  <2>3. CASE n = m /\ a.pc = "ok" /\ n \in alone
    <3>1. TokenMade(w, k, n)
      BY <1>2, <2>3 DEF TokenMade, At
    <3>2. tokenRow[n] = a.token
      BY <1>2, <2>1, <2>3, <3>1 DEF Tokens, Single
    <3>3. attempt'[<<w, k>>] = NoAttempt
      BY <1>1, <1>2, AnswerIs, AnswerForgets DEF AccountInv
    <3>4. \A v \in Workers, j \in Try : ~TokenMade(v, j, n)'
      <4>1. \A v \in Workers, j \in Try : TokenMade(v, j, n) => v = w /\ j = k
        BY <1>2, <2>1, <2>3, <3>1 DEF Tokens, Single
      <4>2. \A v \in Workers, j \in Try :
              attempt'[<<v, j>>] = attempt[<<v, j>>] \/ attempt'[<<v, j>>] = NoAttempt
        BY <1>5 DEF At
      <4>3. \A v \in Workers, j \in Try : TokenMade(v, j, n)' => TokenMade(v, j, n)
        BY <4>2, NoAttemptType DEF TokenMade
      <4> QED
        BY <3>3, <4>1, <4>3, NoAttemptType DEF TokenMade
    <3>5. latest'[n] = a.token /\ tokenRow'[n] = tokenRow[n]
      BY <1>1, <1>2, <1>3, <2>3 DEF AccountInv, TypeOK, rows
    <3> QED
      BY <1>1, <2>3, <3>2, <3>4, <3>5 DEF Tokens, Single, Known
  <2>4. CASE n = m /\ a.pc = "ok" /\ n \notin alone
    BY <1>1, <1>3, <2>1, <2>4 DEF Tokens
  <2> QED
    BY <1>3, <2>2, <2>3, <2>4
<1> QED
  BY <1>1, <1>4, <1>6, <1>7, AnswerMoves DEF AccountInv, TokensOK

LEMMA BeginInv ==
  ASSUME AccountInv, NEW w \in Workers, NEW n \in Users, NEW p \in Passwords,
         NEW kind, NEW step, <<kind, step>> \in {<<"signup", "up">>, <<"signin", "in">>},
         Begin(w, kind, step, n, p), UNCHANGED <<config, now, rows, ghosts>>
  PROVE  AccountInv'
<1> DEFINE q == [Idle EXCEPT !.pc = kind, !.user = n, !.pass = p, !.tries = 1]
           r == [NoAttempt EXCEPT !.pc = step, !.user = n, !.pass = p]
<1>1. /\ kind \in {"signup", "signin"} /\ step \in {"up", "in"}
      /\ kind = "signup" => step = "up"
      /\ kind = "signin" => step = "in"
  OBVIOUS
<1>2. /\ r \in Attempt /\ r.pc = step /\ r.user = n /\ r.pass = p /\ r.token = None
      /\ q \in Request /\ q.pc = kind /\ q.user = n /\ q.pass = p /\ q.tries = 1
  BY <1>1 DEF NoAttempt, Attempt, Idle, Request, Try
<1>3. /\ req' = [req EXCEPT ![w] = q] /\ attempt' = [attempt EXCEPT ![<<w, 1>>] = r]
      /\ \A j \in Try : attempt[<<w, j>>] = NoAttempt
  BY DEF Begin
<1> HIDE DEF q, r
<1>4. /\ req' \in [Workers -> Request] /\ req'[w] = q
      /\ \A v \in Workers \ {w} : req'[v] = req[v]
  BY <1>2, <1>3 DEF AccountInv, TypeOK
<1>5. /\ attempt' \in [Workers \X Try -> Attempt] /\ attempt'[<<w, 1>>] = r
      /\ attempt'[<<w, 2>>] = NoAttempt
      /\ \A v \in Workers \ {w}, j \in Try : At(v, j)' = At(v, j)
  BY <1>2, <1>3 DEF AccountInv, TypeOK, Try, At
<1>6. Current(w)' = r
  BY <1>2, <1>4, <1>5 DEF Current
<1>7. RequestOK(w)'
  BY <1>1, <1>2, <1>4, <1>6 DEF RequestOK, Try
<1>8. KindOK(w)'
  BY <1>1, <1>2, <1>4, <1>6 DEF KindOK
<1>9. \A j \in Try : AttemptOK(w, j)'
  BY <1>1, <1>2, <1>5, NoAttemptType DEF AttemptOK, At, Try
<1>10. RowsOK'
  BY DEF AccountInv, TypeOK, RowsOK, rows, ghosts
<1>11. TypeOK' /\ AttemptsOK' /\ KindsOK'
  BY <1>4, <1>5, <1>7, <1>8, <1>9, <1>10, WorkerMoves
<1>12. PasswordsOK' /\ TokensOK'
  <2>1. \A j \in Try : At(w, j) = NoAttempt /\ At(w, j)'.pc \in {"none", "up", "in"}
    BY <1>1, <1>2, <1>3, <1>5, NoAttemptType DEF At, Try
  <2> QED
    BY <1>5, <2>1, NoAttemptType, Dropped DEF ghosts
<1> QED
  BY <1>11, <1>12 DEF AccountInv

LEMMA RetryInv ==
  ASSUME AccountInv, NEW w \in Workers, Retry(w)
  PROVE  AccountInv'
<1> DEFINE a == attempt[<<w, 1>>]
           q == [req[w] EXCEPT !.tries = 2]
           s == IF a.pc \in {"ok", "fail"} THEN NoAttempt ELSE a
           r == [NoAttempt EXCEPT !.pc = IF req[w].pc = "signup" THEN "up" ELSE "in",
                                  !.user = req[w].user, !.pass = req[w].pass]
<1>1. /\ Waiting(w) /\ req[w].pc \in {"signup", "signin"} /\ req[w].tries = 1
      /\ req[w] \in Request /\ req[w].user \in Users /\ req[w].pass \in Passwords
      /\ UNCHANGED <<config, now, rows, granted, told, latest, alone>>
      /\ crossed' = Cut({w})
  BY DEF Retry, Waiting, AccountInv, TypeOK
<1>2. /\ r \in Attempt /\ r.user = req[w].user /\ r.pass = req[w].pass /\ r.token = None
      /\ r.pc = IF req[w].pc = "signup" THEN "up" ELSE "in"
      /\ q \in Request /\ q.pc = req[w].pc /\ q.user = req[w].user
      /\ q.pass = req[w].pass /\ q.tries = 2
  BY <1>1 DEF NoAttempt, Attempt, Request, Try
<1>3. s \in Attempt /\ (s = a \/ s = NoAttempt) /\ s.pc \notin {"ok", "fail"}
  BY NoAttemptType DEF AccountInv, TypeOK, Try
<1>4. /\ req' = [req EXCEPT ![w] = q]
      /\ attempt' = [attempt EXCEPT ![<<w, 1>>] = s, ![<<w, 2>>] = r]
  BY <1>1 DEF Retry, AccountInv, TypeOK
<1> HIDE DEF q, r, s
<1>5. /\ req' \in [Workers -> Request] /\ req'[w] = q
      /\ \A v \in Workers \ {w} : req'[v] = req[v]
  BY <1>2, <1>4 DEF AccountInv, TypeOK
<1>6. /\ attempt' \in [Workers \X Try -> Attempt]
      /\ attempt'[<<w, 1>>] = s /\ attempt'[<<w, 2>>] = r
      /\ \A v \in Workers \ {w}, j \in Try : At(v, j)' = At(v, j)
  <2>1. <<w, 1>> \in Workers \X Try /\ <<w, 2>> \in Workers \X Try /\ <<w, 1>> # <<w, 2>>
    BY DEF Try
  <2>2. attempt \in [Workers \X Try -> Attempt]
    BY DEF AccountInv, TypeOK
  <2>3. attempt' \in [Workers \X Try -> Attempt]
    BY <1>2, <1>3, <1>4, <2>2
  <2>4. attempt'[<<w, 1>>] = s /\ attempt'[<<w, 2>>] = r
    BY <1>4, <2>1, <2>2
  <2>5. \A v \in Workers \ {w}, j \in Try : attempt'[<<v, j>>] = attempt[<<v, j>>]
    BY <1>4, <2>2
  <2> QED
    BY <2>3, <2>4, <2>5 DEF At
<1>7. Current(w)' = r
  BY <1>2, <1>5, <1>6 DEF Current
<1>8. RequestOK(w)'
  BY <1>1, <1>2, <1>5, <1>7 DEF RequestOK, Try
<1>9. KindOK(w)'
  BY <1>1, <1>2, <1>5, <1>7 DEF KindOK
<1>10. \A j \in Try : AttemptOK(w, j)'
  <2>1. AttemptOK(w, 1)'
    <3>1. AttemptOK(w, 1)
      BY DEF AccountInv, AttemptsOK, Try
    <3> QED
      BY <1>3, <1>6, <3>1, NoAttemptType DEF AttemptOK, At
  <2>2. AttemptOK(w, 2)'
    BY <1>1, <1>2, <1>6 DEF AttemptOK, At
  <2> QED
    BY <2>1, <2>2 DEF Try
<1>11. /\ crossed \subseteq crossed' /\ crossed' \subseteq Users
       /\ \A j \in Try :
            At(w, j).pc = "ok" /\ At(w, j).token # None => At(w, j).user \in crossed'
  BY <1>1, CutIs
<1>12. RowsOK'
  BY <1>1, <1>11 DEF AccountInv, TypeOK, RowsOK, rows
<1>13. TypeOK' /\ AttemptsOK' /\ KindsOK'
  BY <1>1, <1>5, <1>6, <1>8, <1>9, <1>10, <1>12, WorkerMoves
<1>14. PasswordsOK' /\ TokensOK'
  <2>1. \A j \in Try : At(w, j)' = At(w, j) \/ At(w, j)'.pc \in {"none", "up", "in"}
    BY <1>1, <1>2, <1>3, <1>6, NoAttemptType DEF At, Try
  <2> QED
    BY <1>1, <1>6, <1>11, <2>1, Dropped
<1> QED
  BY <1>13, <1>14 DEF AccountInv

\* A request that waits for no attempt comes or goes.
LEMMA CheckMoves ==
  ASSUME AccountInv, NEW w \in Workers, ~Waiting(w),
         NEW q \in Request, req' = [req EXCEPT ![w] = q],
         q.pc \in {"idle", "check"},
         q.pc = "check" => q.user \in Users /\ q.token \in Token,
         UNCHANGED <<config, now, rows, attempt, ghosts>>
  PROVE  AccountInv'
<1>1. /\ req' \in [Workers -> Request] /\ req'[w] = q
      /\ \A v \in Workers \ {w} : req'[v] = req[v]
      /\ attempt' \in [Workers \X Try -> Attempt]
  BY DEF AccountInv, TypeOK
<1>2. \A v \in Workers, j \in Try : At(v, j)' = At(v, j)
  BY DEF At
<1>3. RequestOK(w)' /\ KindOK(w)'
  BY <1>1 DEF RequestOK, KindOK, Waiting
<1>4. \A j \in Try : AttemptOK(w, j)'
  BY <1>2 DEF AccountInv, AttemptsOK, AttemptOK, Awaited
<1>5. RowsOK'
  BY DEF AccountInv, TypeOK, RowsOK, rows, ghosts
<1>6. TypeOK' /\ AttemptsOK' /\ KindsOK'
  BY <1>1, <1>2, <1>3, <1>4, <1>5, WorkerMoves
<1>7. PasswordsOK' /\ TokensOK'
  BY <1>2, Dropped DEF ghosts
<1> QED
  BY <1>6, <1>7 DEF AccountInv

LEMMA StartCheckInv ==
  ASSUME AccountInv, NEW w \in Workers, NEW n \in Users, NEW t \in Token,
         StartCheck(w, n, t)
  PROVE  AccountInv'
<1> DEFINE q == [Idle EXCEPT !.pc = "check", !.user = n, !.token = t]
<1>1. q \in Request /\ q.pc = "check" /\ q.user = n /\ q.token = t
  BY DEF Idle, Request
<1>2. ~Waiting(w) /\ req' = [req EXCEPT ![w] = q]
  BY NoAttemptType DEF StartCheck, Waiting
<1> HIDE DEF q
<1> QED
  BY <1>1, <1>2, CheckMoves DEF StartCheck

LEMMA CheckRowInv ==
  ASSUME AccountInv, NEW w \in Workers, CheckRow(w)
  PROVE  AccountInv'
<1>1. ~Waiting(w) /\ req' = [req EXCEPT ![w] = Idle]
  BY DEF CheckRow, Waiting
<1> QED
  BY <1>1, NoAttemptType, CheckMoves DEF CheckRow

LEMMA TickInv ==
  ASSUME AccountInv, Tick
  PROVE  AccountInv'
<1>1. UNCHANGED <<config, rows, req, attempt, ghosts>> /\ now' \in Clock
  BY AccountAssumption DEF Tick, AccountInv, TypeOK, Clock
<1>2. TypeOK'
  BY <1>1 DEF AccountInv, TypeOK, Waiting, Current, config, rows, ghosts
<1>3. AttemptsOK' /\ KindsOK'
  BY <1>1 DEF AccountInv, AttemptsOK, AttemptOK, KindsOK, KindOK, Awaited, Waiting, Current, At
<1>4. PasswordsOK' /\ TokensOK'
  <2>1. \A v \in Workers, j \in Try : At(v, j)' = At(v, j)
    BY <1>1 DEF At
  <2> QED
    BY <1>1, <2>1, Dropped DEF ghosts
<1> QED
  BY <1>2, <1>3, <1>4 DEF AccountInv

LEMMA ServerCrashInv ==
  ASSUME AccountInv, ServerCrash
  PROVE  AccountInv'
<1>1. /\ req' = [w \in Workers |-> Idle] /\ crossed' = Cut(Workers)
      /\ UNCHANGED <<config, now, rows, granted, told, latest, alone>>
  BY DEF ServerCrash
<1>2. \A wk \in Workers \X Try :
        \/ attempt'[wk] = NoAttempt
        \/ attempt'[wk] = attempt[wk] /\ attempt[wk].pc \notin {"ok", "fail"}
  BY DEF ServerCrash
<1>3. attempt' \in [Workers \X Try -> Attempt]
  <2>1. CASE door = "mono"
    BY <2>1, NoAttemptType DEF ServerCrash
  <2>2. CASE door # "mono"
    BY <2>2, NoAttemptType DEF ServerCrash, AccountInv, TypeOK
  <2> QED
    BY <2>1, <2>2
<1>4. \A v \in Workers, j \in Try :
        \/ At(v, j)' = NoAttempt
        \/ At(v, j)' = At(v, j) /\ At(v, j).pc \notin {"ok", "fail"}
  BY <1>2 DEF At
<1>5. \A v \in Workers : req'[v] = Idle /\ ~Waiting(v)'
  BY <1>1, NoAttemptType DEF Waiting
<1>6. /\ crossed \subseteq crossed' /\ crossed' \subseteq Users
      /\ \A v \in Workers, j \in Try :
           At(v, j).pc = "ok" /\ At(v, j).token # None => At(v, j).user \in crossed'
  BY <1>1, CutIs
<1>7. RowsOK' /\ RequestsOK'
  BY <1>1, <1>5, <1>6, NoAttemptType
     DEF AccountInv, TypeOK, RowsOK, RequestsOK, RequestOK, rows
<1>8. req' \in [Workers -> Request]
  BY <1>1, NoAttemptType
<1>9. TypeOK'
  BY <1>1, <1>3, <1>7, <1>8 DEF AccountInv, TypeOK, RowsOK, RequestsOK, RequestOK, config
<1>10. AttemptsOK'
  BY <1>4, NoAttemptType DEF AccountInv, AttemptsOK, AttemptOK
<1>11. KindsOK'
  BY <1>5, NoAttemptType DEF KindsOK, KindOK
<1>12. PasswordsOK' /\ TokensOK'
  BY <1>1, <1>4, <1>6, NoAttemptType, Dropped
<1> QED
  BY <1>9, <1>10, <1>11, <1>12 DEF AccountInv

--------------------------------------------------------------------------------
(* Every step *)

LEMMA InitInv == Init => AccountInv
<1> SUFFICES ASSUME Init PROVE AccountInv
  OBVIOUS
<1>1. /\ \A w \in Workers : req[w] = Idle /\ ~Waiting(w)
      /\ \A w \in Workers, k \in Try : At(w, k) = NoAttempt
      /\ req \in [Workers -> Request] /\ attempt \in [Workers \X Try -> Attempt]
  BY NoAttemptType DEF Init, At, Waiting
<1>2. TypeOK
  BY <1>1, NoAttemptType, AccountAssumption DEF Init, TypeOK, Clock
<1>3. AttemptsOK /\ KindsOK
  BY <1>1, NoAttemptType DEF AttemptsOK, AttemptOK, KindsOK, KindOK
<1>4. PasswordsOK
  BY <1>1, NoAttemptType DEF Init, PasswordsOK, OneSignupWins
<1>5. TokensOK
  BY <1>1, NoAttemptType DEF Init, TokensOK, Tokens, Single, Known, TokenMade, At
<1> QED
  BY <1>2, <1>3, <1>4, <1>5 DEF AccountInv

LEMMA StartInv ==
  ASSUME AccountInv, NEW w \in Workers, Start(w)
  PROVE  AccountInv'
<1>1. ASSUME NEW n \in Users, NEW p \in Passwords, StartSignup(w, n, p)
      PROVE  AccountInv'
  BY <1>1, BeginInv DEF StartSignup
<1>2. ASSUME NEW n \in Users, NEW p \in Passwords, StartSignin(w, n, p)
      PROVE  AccountInv'
  BY <1>2, BeginInv DEF StartSignin
<1>3. ASSUME NEW n \in Users, NEW t \in Token, StartCheck(w, n, t)
      PROVE  AccountInv'
  BY <1>3, StartCheckInv
<1> QED
  BY <1>1, <1>2, <1>3 DEF Start

LEMMA HandleInv ==
  ASSUME AccountInv, NEW w \in Workers, Handle(w)
  PROVE  AccountInv'
<1>1. CASE DoSignupHandler(w)
  BY <1>1, SignupInv, ReplySignupInv DEF DoSignupHandler, Try
<1>2. CASE DoSignInHandler(w)
  BY <1>2, SigninInv, UpdateTokenInv, ReplySigninInv DEF DoSignInHandler, Try
<1>3. CASE GatewaySignup(w)
  BY <1>3, ReplySignupInv, RetryInv, GiveUpInv DEF GatewaySignup
<1>4. CASE GatewaySignin(w)
  BY <1>4, ReplySigninInv, RetryInv, GiveUpInv DEF GatewaySignin
<1>5. ASSUME NEW k \in Try, SvcSignup(w, k) \/ SvcSignin(w, k) \/ CallLost(w, k)
      PROVE  AccountInv'
  BY <1>5, SignupInv, SigninInv, UpdateTokenInv, CallLostInv DEF SvcSignup, SvcSignin
<1>6. CASE CheckRow(w)
  BY <1>6, CheckRowInv
<1> QED
  BY <1>1, <1>2, <1>3, <1>4, <1>5, <1>6 DEF Handle

LEMMA StutterInv ==
  ASSUME AccountInv, UNCHANGED vars
  PROVE  AccountInv'
<1>1. UNCHANGED <<config, now, rows, req, attempt, ghosts>>
  BY DEF vars
<1>2. TypeOK'
  BY <1>1 DEF AccountInv, TypeOK, Waiting, Current, config, rows, ghosts
<1>3. AttemptsOK' /\ KindsOK'
  BY <1>1 DEF AccountInv, AttemptsOK, AttemptOK, KindsOK, KindOK, Awaited, Waiting, Current, At
<1>4. \A v \in Workers, j \in Try : At(v, j)' = At(v, j)
  BY <1>1 DEF At
<1>5. PasswordsOK' /\ TokensOK'
  BY <1>1, <1>4, Dropped DEF ghosts
<1> QED
  BY <1>2, <1>3, <1>5 DEF AccountInv

\* The invariant, and with it type correctness.
THEOREM AlwaysAccounted == Spec => []AccountInv
<1>1. AccountInv /\ [Next]_vars => AccountInv'
  BY StartInv, HandleInv, TickInv, ServerCrashInv, StutterInv DEF Next
<1> QED
  BY InitInv, <1>1, PTL DEF Spec

\* Of sign-ups and sign-ins that were answered OK for one name, all had the one
\* password that is in the row (db/user.go:22).
THEOREM SignupWins == Spec => []OneSignupWins
<1>1. AccountInv => OneSignupWins
  BY DEF AccountInv, PasswordsOK
<1> QED
  BY <1>1, AlwaysAccounted, PTL

\* Whom nothing crossed since a sign-in that overlapped no other is known by the
\* token told last, or is being told the next (handler/user.go:64).
THEOREM LockedOutByCrossing == Spec => []LockedOutOnlyByOverlap
<1>1. ASSUME AccountInv, NEW n \in Users, n \notin crossed, tokenRow[n] # latest[n]
      PROVE  \E w \in Workers :
               req[w].pc = "signin" /\ req[w].user = n /\ Current(w).pc = "ok"
  <2>1. PICK w \in Workers, k \in Try : TokenMade(w, k, n) /\ At(w, k).pc = "ok"
    BY <1>1 DEF AccountInv, TokensOK, Tokens, Known
  <2>2. At(w, k).token # None /\ At(w, k).user = n
    BY <2>1 DEF TokenMade, At
  <2> QED
    BY <1>1, <2>1, <2>2, OkIsCurrent
<1>2. AccountInv => LockedOutOnlyByOverlap
  BY <1>1 DEF LockedOutOnlyByOverlap, GetTokenFromDB
<1> QED
  BY <1>2, AlwaysAccounted, PTL

\* Every variable keeps its type, and a request and its attempt what they need.
THEOREM AccountTypeCorrect == Spec => []TypeOK
<1>1. AccountInv => TypeOK
  BY DEF AccountInv
<1> QED
  BY <1>1, AlwaysAccounted, PTL

================================================================================
