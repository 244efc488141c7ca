-------------------------- MODULE AccessProofs --------------------------
(***************************************************************************)
(* Proofs about Accounts, SupportAccess, OperatingMode, HttpRequests and   *)
(* RateLimiter for any number of requests, any passwords, any threshold,   *)
(* and any number of sessions, codes, visits, changes, calls and servers.  *)
(*                                                                         *)
(* What makes the properties of Accounts inductive: an owner is never      *)
(* suspended, so that a session opened in an owner's name has its grounds; *)
(* an archive under way has found every session that is not late; and a    *)
(* verification code that a request is about to grant is locked by that    *)
(* request alone and still active.  A request of support knows the visit   *)
(* it works on (SupportInv).  A request past its gate has shown what the   *)
(* gate asks for (GateInv), and every row of the table of routes is sound  *)
(* (KindsAreSound).  The members of the limiter's set are, age by age,     *)
(* those that passed, were lost or are taken back (RedisCounts).           *)
(***************************************************************************)
EXTENDS Accounts, SupportAccess, OperatingMode, HttpRequests, RateLimiter, SumTheorems,
        SequenceTheorems, FiniteSetTheorems, TLAPS

Loaded == [pw : Passwords, failed : Nat, locked : Lockouts]

Doings ==
    [pc : {"idle", "done", "reset_request", "resend_revoke", "imp_mint"}]
    \cup [pc : {"raised"}, user : BOOLEAN, token : Nat]
    \cup [pc : LoginPcs, pw : Passwords]
    \cup [pc : {"change_lock"}, session : Nat, current : Passwords, new : Passwords,
          seen : Loaded]
    \cup [pc : {"reset_confirm"}, token : Nat, pw : Passwords, seen : TokenStatuses]
    \cup [pc : {"resend_lock"}, seen : BOOLEAN]
    \cup [pc : {"verify_lock", "verify_user"}, token : Nat]
    \cup [pc : {"status"}, active : BOOLEAN]
    \cup [pc : {"archive_tokens"}, found : SUBSET Nat]
    \cup [pc : {"archive_commit"}, found : SUBSET Nat, tokens : SUBSET Nat]

\* The codes of a kind.
CodesOf(kind) == {t \in DOMAIN tokens : tokens[t].kind = kind}

\* The rows a request names are among the sessions and the codes there are.
Names(x, ids, resets, verifies) ==
    /\ x.pc = "change_lock" => x.session \in ids
    /\ x.pc = "reset_confirm" => x.token \in resets
    /\ x.pc \in {"verify_lock", "verify_user"} => x.token \in verifies
    /\ x.pc = "archive_commit" => x.tokens \subseteq resets

TypeInv ==
    /\ TypeOK
    /\ req \in [Requests -> Doings]
    /\ \A r \in Requests :
          Names(req[r], DOMAIN sessions, CodesOf("reset"), CodesOf("verify"))

\* The states of an archive.
ArchivePcs == {"archive_tokens", "archive_commit"}

\* Only members that are not owners are suspended; support acts for owners only.
OwnerInv ==
    /\ user.owner => user.active
    /\ \A r \in Requests : /\ req[r].pc = "imp_mint" => user.owner
                           /\ req[r].pc \in {"status"} \cup ArchivePcs => ~user.owner

\* An archive under way has found every session but the late ones.
ArchiveInv ==
    \A r \in Requests, s \in DOMAIN sessions :
        req[r].pc \in ArchivePcs /\ sessions[s].state = "live" /\ ~sessions[s].late
        => s \in req[r].found

\* One active code of a kind; a verification code that is active, or about to be
\* granted, has not been granted yet, and one request is about to grant it.
CodeInv ==
    /\ \A t, u \in DOMAIN tokens :
           /\ tokens[t].kind = tokens[u].kind
           /\ tokens[t].status = "active" /\ tokens[u].status = "active"
           => t = u
    /\ \A t \in DOMAIN tokens :
          tokens[t].kind = "verify" =>
              /\ tokens[t].uses <= 1
              /\ tokens[t].status = "active" => tokens[t].uses = 0
    /\ \A r \in Requests, t \in DOMAIN tokens :
          req[r].pc = "verify_user" /\ req[r].token = t =>
              /\ tokens[t].status = "active"
              /\ \A q \in Requests : req[q].pc = "verify_user" /\ req[q].token = t => q = r

IInv == /\ TypeInv /\ OwnerInv /\ ArchiveInv /\ CodeInv /\ LockoutHolds
        /\ SessionsEndWithTheirGrounds

-----------------------------------------------------------------------------
(* Types                                                                   *)

LEMMA IdleIsDoing == Idle \in Doings /\ Idle.pc = "idle"
BY DEF Idle, Doings

LEMMA DoingFields ==
    ASSUME NEW x \in Doings
    PROVE  /\ x.pc \in LoginPcs => x.pw \in Passwords /\ x = [pc |-> x.pc, pw |-> x.pw]
           /\ x.pc = "change_lock" => /\ x.session \in Nat /\ x.current \in Passwords
                                      /\ x.new \in Passwords /\ x.seen \in Loaded
           /\ x.pc = "reset_confirm" => /\ x.token \in Nat /\ x.pw \in Passwords
                                        /\ x.seen \in TokenStatuses
           /\ x.pc = "resend_lock" => x.seen \in BOOLEAN
           /\ x.pc \in {"verify_lock", "verify_user"} =>
                 x.token \in Nat /\ x = [pc |-> x.pc, token |-> x.token]
           /\ x.pc = "status" => x.active \in BOOLEAN
           /\ x.pc \in ArchivePcs => x.found \in SUBSET Nat
BY DEF ArchivePcs, Doings, LoginPcs

\* One request takes another state or none does, and rows are added or change.
LEMMA TypeStep ==
    ASSUME TypeInv, NEW x \in Doings,
           req' = req \/ \E r \in Requests : req' = [req EXCEPT ![r] = x],
           user' \in Users, tokens' \in Seq(Tokens), sessions' \in Seq(AuthSessions),
           guesses' \in Nat, DOMAIN sessions \subseteq DOMAIN sessions',
           CodesOf("reset") \subseteq CodesOf("reset")',
           CodesOf("verify") \subseteq CodesOf("verify")',
           Names(x, DOMAIN sessions', CodesOf("reset")', CodesOf("verify")')
    PROVE  TypeInv'
<1>1. \A t \in Requests : req'[t] \in {req[t], x}
  BY DEF TypeInv
<1>2. req' \in [Requests -> Doings]
  BY DEF TypeInv
<1>3. \A t \in Requests :
         Names(req[t], DOMAIN sessions', CodesOf("reset")', CodesOf("verify")')
  BY DEF Names, TypeInv
<1>4. \A t \in Requests :
         Names(req'[t], DOMAIN sessions', CodesOf("reset")', CodesOf("verify")')
  BY <1>1, <1>3
<1> QED
  BY <1>2, <1>4 DEF TypeInv, TypeOK

LEMMA RowFacts ==
    ASSUME TypeInv
    PROVE  /\ user \in Users /\ tokens \in Seq(Tokens) /\ sessions \in Seq(AuthSessions)
           /\ guesses \in Nat
           /\ Len(tokens) \in Nat /\ DOMAIN tokens = 1 .. Len(tokens)
           /\ Len(sessions) \in Nat /\ DOMAIN sessions = 1 .. Len(sessions)
           /\ \A t \in DOMAIN tokens : tokens[t] \in Tokens
           /\ \A s \in DOMAIN sessions : sessions[s] \in AuthSessions
<1>1. /\ user \in Users /\ tokens \in Seq(Tokens) /\ sessions \in Seq(AuthSessions)
      /\ guesses \in Nat
  BY DEF TypeInv, TypeOK
<1> QED
  BY <1>1, ElementOfSeq

\* A request takes another state, and no row changes.
LEMMA TypeQuiet ==
    ASSUME TypeInv, NEW r \in Requests, NEW x \in Doings, req' = [req EXCEPT ![r] = x],
           UNCHANGED <<user, tokens, sessions, guesses>>,
           Names(x, DOMAIN sessions, CodesOf("reset"), CodesOf("verify"))
    PROVE  TypeInv'
<1>1. UNCHANGED CodesOf("reset") /\ UNCHANGED CodesOf("verify")
  BY DEF CodesOf
<1> QED
  BY <1>1, RowFacts, TypeStep

LEMMA TypeBegin ==
    ASSUME TypeInv, NEW r \in Requests, NEW x \in Doings, Begin(r, x),
           Names(x, DOMAIN sessions, CodesOf("reset"), CodesOf("verify"))
    PROVE  TypeInv'
BY TypeQuiet DEF Begin, rowVars

\* The states that name no row.
LEMMA Nameless ==
    ASSUME NEW x, NEW ids, NEW resets, NEW verifies,
           x.pc \in {"idle", "done", "raised", "reset_request", "resend_lock", "resend_revoke",
                     "imp_mint", "status"} \cup LoginPcs
    PROVE  Names(x, ids, resets, verifies)
BY DEF Names, LoginPcs

LEMMA EndStates ==
    /\ [pc |-> "done"] \in Doings
    /\ \A holds \in BOOLEAN, t \in Nat : [pc |-> "raised", user |-> holds, token |-> t] \in Doings
BY DEF Doings

LEMMA TypeLoad ==
    ASSUME TypeInv, NEW r \in Requests,
           \/ LoginBegin(r) \/ ChangeBegin(r) \/ ResetRequestBegin(r) \/ ResetConfirmBegin(r)
           \/ ResendBegin(r) \/ VerifyBegin(r) \/ StatusBegin(r) \/ ImpersonateBegin(r)
           \/ ArchiveBegin(r)
    PROVE  TypeInv'
<1> DEFINE Named(x) == Names(x, DOMAIN sessions, CodesOf("reset"), CodesOf("verify"))
<1>1. CASE LoginBegin(r)
  <2>1. PICK p \in Passwords : Begin(r, [pc |-> "login_lock", pw |-> p])
    BY <1>1 DEF LoginBegin
  <2>2. [pc |-> "login_lock", pw |-> p] \in Doings /\ Named([pc |-> "login_lock", pw |-> p])
    BY DEF Doings, LoginPcs, Names
  <2> QED
    BY <2>1, <2>2, TypeBegin
<1>2. CASE ChangeBegin(r)
  <2>1. PICK s \in DOMAIN sessions, current \in Passwords, new \in Passwords :
           Begin(r, [pc |-> "change_lock", session |-> s, current |-> current, new |-> new,
                     seen |-> [pw |-> user.pw, failed |-> user.failed,
                               locked |-> user.locked]])
    BY <1>2 DEF ChangeBegin
  <2> DEFINE x == [pc |-> "change_lock", session |-> s, current |-> current, new |-> new,
                   seen |-> [pw |-> user.pw, failed |-> user.failed, locked |-> user.locked]]
  <2>2. s \in Nat /\ user \in Users
    BY RowFacts
  <2>3. x \in Doings
    BY <2>2 DEF Doings, Loaded, Users
  <2>4. Named(x)
    BY DEF Names
  <2> QED
    BY <2>1, <2>3, <2>4, TypeBegin
<1>3. CASE ResetRequestBegin(r)
  <2>1. [pc |-> "reset_request"] \in Doings /\ Named([pc |-> "reset_request"])
    BY DEF Doings, Names
  <2> QED
    BY <1>3, <2>1, TypeBegin DEF ResetRequestBegin
<1>4. CASE ResetConfirmBegin(r)
  <2>1. PICK t \in DOMAIN tokens, p \in Passwords :
           /\ tokens[t].kind = "reset"
           /\ Begin(r, [pc |-> "reset_confirm", token |-> t, pw |-> p,
                        seen |-> tokens[t].status])
    BY <1>4 DEF ResetConfirmBegin
  <2> DEFINE x == [pc |-> "reset_confirm", token |-> t, pw |-> p, seen |-> tokens[t].status]
  <2>2. t \in Nat /\ tokens[t] \in Tokens
    BY RowFacts
  <2>3. x \in Doings
    BY <2>2 DEF Doings, Tokens
  <2>4. Named(x)
    BY <2>1 DEF Names, CodesOf
  <2> QED
    BY <2>1, <2>3, <2>4, TypeBegin
<1>5. CASE ResendBegin(r)
  <2>1. user.verified \in BOOLEAN
    BY RowFacts DEF Users
  <2>2. /\ [pc |-> "resend_lock", seen |-> user.verified] \in Doings
        /\ Named([pc |-> "resend_lock", seen |-> user.verified])
    BY <2>1 DEF Doings, Names
  <2> QED
    BY <1>5, <2>2, TypeBegin DEF ResendBegin
<1>6. CASE VerifyBegin(r)
  <2>1. PICK t \in DOMAIN tokens :
           tokens[t].kind = "verify" /\ Begin(r, [pc |-> "verify_lock", token |-> t])
    BY <1>6 DEF VerifyBegin
  <2>2. t \in Nat
    BY RowFacts
  <2>3. /\ [pc |-> "verify_lock", token |-> t] \in Doings
        /\ Named([pc |-> "verify_lock", token |-> t])
    BY <2>1, <2>2 DEF Doings, Names, CodesOf
  <2> QED
    BY <2>1, <2>3, TypeBegin
<1>7. CASE StatusBegin(r)
  <2>1. PICK active \in BOOLEAN : Begin(r, [pc |-> "status", active |-> active])
    BY <1>7 DEF StatusBegin
  <2>2. /\ [pc |-> "status", active |-> active] \in Doings
        /\ Named([pc |-> "status", active |-> active])
    BY DEF Doings, Names
  <2> QED
    BY <2>1, <2>2, TypeBegin
<1>8. CASE ImpersonateBegin(r)
  <2>1. [pc |-> "imp_mint"] \in Doings /\ Named([pc |-> "imp_mint"])
    BY DEF Doings, Names
  <2> QED
    BY <1>8, <2>1, TypeBegin DEF ImpersonateBegin
<1>9. CASE ArchiveBegin(r)
  <2> DEFINE found == {s \in DOMAIN sessions : sessions[s].state \in {"live", "lapsed"}}
  <2>1. Begin(r, [pc |-> "archive_tokens", found |-> found])
    BY <1>9 DEF ArchiveBegin
  <2>2. found \in SUBSET Nat
    BY RowFacts
  <2> HIDE DEF found
  <2>3. /\ [pc |-> "archive_tokens", found |-> found] \in Doings
        /\ Named([pc |-> "archive_tokens", found |-> found])
    BY <2>2 DEF Doings, Names
  <2> QED
    BY <2>1, <2>3, TypeBegin
<1> QED
  BY <1>1, <1>2, <1>3, <1>4, <1>5, <1>6, <1>7, <1>8, <1>9

\* The steps that write no row.
LEMMA TypeWait ==
    ASSUME TypeInv, NEW r \in Requests,
           LoginMember(r) \/ ResendLock(r) \/ ArchiveTokens(r) \/ DeadlockVictim(r) \/ Close(r)
    PROVE  TypeInv'
<1>1. CASE LoginMember(r)
  <2>1. UNCHANGED <<user, tokens, sessions, guesses>> /\ req[r].pc = "login_member"
    BY <1>1 DEF LoginMember, rowVars
  <2>2. req[r] = [pc |-> "login_member", pw |-> req[r].pw] /\ req[r].pw \in Passwords
    BY <2>1, DoingFields DEF TypeInv, LoginPcs
  <2> DEFINE x == [pc |-> "login_mint", pw |-> req[r].pw]
             y == [pc |-> "raised", user |-> FALSE, token |-> 0]
  <2>3. [req[r] EXCEPT !.pc = "login_mint"] = x
    BY <2>2
  <2>4. req' = [req EXCEPT ![r] = x] \/ req' = [req EXCEPT ![r] = y]
    BY <1>1, <2>3 DEF LoginMember, Raise
  <2>5. x \in Doings /\ x.pc \in LoginPcs
    BY <2>2 DEF Doings, LoginPcs
  <2>6. y \in Doings /\ y.pc = "raised"
    BY DEF Doings
  <2> HIDE DEF x, y
  <2> QED
    BY <2>1, <2>4, <2>5, <2>6, Nameless, TypeQuiet
<1>2. CASE ResendLock(r)
  <2> DEFINE x == [pc |-> "resend_revoke"]
             y == [pc |-> "raised", user |-> TRUE, token |-> 0]
  <2>1. UNCHANGED <<user, tokens, sessions, guesses>>
    BY <1>2 DEF ResendLock, rowVars
  <2>2. req' = [req EXCEPT ![r] = x] \/ req' = [req EXCEPT ![r] = y]
    BY <1>2 DEF ResendLock, Raise
  <2>3. x \in Doings /\ x.pc = "resend_revoke" /\ y \in Doings /\ y.pc = "raised"
    BY DEF Doings
  <2> HIDE DEF x, y
  <2> QED
    BY <2>1, <2>2, <2>3, Nameless, TypeQuiet
<1>3. CASE DeadlockVictim(r)
  <2> DEFINE y == [pc |-> "raised", user |-> FALSE, token |-> 0]
  <2>1. UNCHANGED <<user, tokens, sessions, guesses>> /\ req' = [req EXCEPT ![r] = y]
    BY <1>3 DEF DeadlockVictim, rowVars, Raise
  <2>2. y \in Doings /\ y.pc = "raised"
    BY DEF Doings
  <2> HIDE DEF y
  <2> QED
    BY <2>1, <2>2, Nameless, TypeQuiet
<1>4. CASE Close(r)
  <2>1. UNCHANGED <<user, tokens, sessions, guesses>> /\ req' = [req EXCEPT ![r] = Idle]
    BY <1>4 DEF Close, rowVars
  <2> QED
    BY <2>1, IdleIsDoing, Nameless, TypeQuiet
<1>5. CASE ArchiveTokens(r)
  <2> DEFINE x == [pc |-> "archive_commit", found |-> req[r].found,
                   tokens |-> ActiveTokens("reset")]
  <2>1. /\ UNCHANGED <<user, tokens, sessions, guesses>> /\ req' = [req EXCEPT ![r] = x]
        /\ req[r].pc = "archive_tokens"
    BY <1>5 DEF ArchiveTokens, rowVars
  <2>2. req[r].found \in SUBSET Nat
    BY <2>1, DoingFields DEF TypeInv, ArchivePcs
  <2>3. ActiveTokens("reset") \in SUBSET Nat /\ ActiveTokens("reset") \subseteq CodesOf("reset")
    BY RowFacts DEF ActiveTokens, CodesOf
  <2>4. x \in Doings
    BY <2>2, <2>3 DEF Doings
  <2>5. Names(x, DOMAIN sessions, CodesOf("reset"), CodesOf("verify"))
    BY <2>3 DEF Names
  <2> HIDE DEF x
  <2> QED
    BY <2>1, <2>4, <2>5, TypeQuiet
<1> QED
  BY <1>1, <1>2, <1>3, <1>4, <1>5

-----------------------------------------------------------------------------
(* What the writes of rows change                                          *)

LEMMA AppendRow ==
    ASSUME NEW R, NEW q \in Seq(R), NEW e \in R
    PROVE  /\ Append(q, e) \in Seq(R)
           /\ DOMAIN Append(q, e) = DOMAIN q \cup {Len(q) + 1}
           /\ Len(q) + 1 \notin DOMAIN q
           /\ \A i \in DOMAIN q : Append(q, e)[i] = q[i]
           /\ Append(q, e)[Len(q) + 1] = e
OBVIOUS

LEMMA WriteRow ==
    ASSUME NEW R, NEW q \in Seq(R), NEW i \in DOMAIN q, NEW e \in R
    PROVE  /\ [q EXCEPT ![i] = e] \in Seq(R) /\ DOMAIN [q EXCEPT ![i] = e] = DOMAIN q
           /\ \A j \in DOMAIN q : [q EXCEPT ![i] = e][j] = IF j = i THEN e ELSE q[j]
OBVIOUS

LEMMA RowOf ==
    ASSUME NEW R, NEW q \in Seq(R), NEW i \in DOMAIN q
    PROVE  q[i] \in R
OBVIOUS

LEMMA MapRows ==
    ASSUME NEW R, NEW q \in Seq(R), NEW f, f = [i \in DOMAIN q |-> f[i]],
           \A i \in DOMAIN q : f[i] \in R
    PROVE  f \in Seq(R) /\ DOMAIN f = DOMAIN q
OBVIOUS

LEMMA RevokedRows ==
    ASSUME TypeInv, NEW others
    PROVE  /\ Revoked(others) \in Seq(AuthSessions)
           /\ DOMAIN Revoked(others) = DOMAIN sessions
           /\ \A s \in DOMAIN sessions :
                 LET old == sessions[s]
                     new == Revoked(others)[s]
                 IN  /\ new.pw = old.pw /\ new.late = old.late
                     /\ new.state # "revoked" => new.state = old.state
                     /\ new.state = "live" => s \notin others
<1> DEFINE row(s) == IF s \in others /\ sessions[s].state \in {"live", "lapsed"}
                     THEN [sessions[s] EXCEPT !.state = "revoked"] ELSE sessions[s]
<1>1. Revoked(others) = [s \in DOMAIN sessions |-> row(s)]
  BY DEF Revoked
<1>2. ASSUME NEW s \in DOMAIN sessions
      PROVE  /\ row(s) \in AuthSessions
             /\ row(s).pw = sessions[s].pw /\ row(s).late = sessions[s].late
             /\ row(s).state # "revoked" => row(s).state = sessions[s].state
             /\ row(s).state = "live" => s \notin others
  BY RowFacts DEF AuthSessions
<1> HIDE DEF row
<1>3. Revoked(others) \in Seq(AuthSessions)
  BY <1>1, <1>2, RowFacts, MapRows
<1> QED
  BY <1>1, <1>2, <1>3

LEMMA TokensRevokedRows ==
    ASSUME TypeInv, NEW kind
    PROVE  /\ TokensRevoked(kind) \in Seq(Tokens)
           /\ DOMAIN TokensRevoked(kind) = DOMAIN tokens
           /\ Len(TokensRevoked(kind)) = Len(tokens)
           /\ \A t \in DOMAIN tokens :
                 LET old == tokens[t]
                     new == TokensRevoked(kind)[t]
                 IN  /\ new.kind = old.kind /\ new.uses = old.uses
                     /\ old.kind = kind => new.status # "active"
                     /\ old.kind # kind => new = old
                     /\ new.status = "active" => old.status = "active"
<1> DEFINE row(t) == IF tokens[t].kind = kind /\ tokens[t].status = "active"
                     THEN [tokens[t] EXCEPT !.status = "revoked"] ELSE tokens[t]
<1>1. TokensRevoked(kind) = [t \in DOMAIN tokens |-> row(t)]
  BY DEF TokensRevoked, ActiveTokens
<1>2. ASSUME NEW t \in DOMAIN tokens
      PROVE  /\ row(t) \in Tokens
             /\ row(t).kind = tokens[t].kind /\ row(t).uses = tokens[t].uses
             /\ tokens[t].kind = kind => row(t).status # "active"
             /\ tokens[t].kind # kind => row(t) = tokens[t]
             /\ row(t).status = "active" => tokens[t].status = "active"
  BY RowFacts DEF Tokens, TokenStatuses
<1> HIDE DEF row
<1>3. TokensRevoked(kind) \in Seq(Tokens)
  BY <1>1, <1>2, RowFacts, MapRows
<1>4. Len(TokensRevoked(kind)) = Len(tokens)
  BY <1>1, <1>3, RowFacts
<1> QED
  BY <1>1, <1>2, <1>3, <1>4

\* The new code is the only active one of its kind.
LEMMA TokenReplacedRows ==
    ASSUME TypeInv, NEW kind \in Kinds
    PROVE  /\ TokenReplaced(kind) \in Seq(Tokens)
           /\ DOMAIN TokenReplaced(kind) = DOMAIN tokens \cup {Len(tokens) + 1}
           /\ Len(tokens) + 1 \notin DOMAIN tokens
           /\ \A t \in DOMAIN tokens :
                 LET old == tokens[t]
                     new == TokenReplaced(kind)[t]
                 IN  /\ new.kind = old.kind /\ new.uses = old.uses
                     /\ old.kind = kind => new.status # "active"
                     /\ old.kind # kind => new = old
                     /\ new.status = "active" => old.status = "active"
           /\ TokenReplaced(kind)[Len(tokens) + 1] =
                 [kind |-> kind, status |-> "active", lapsed |-> FALSE, uses |-> 0]
<1> DEFINE e == [kind |-> kind, status |-> "active", lapsed |-> FALSE, uses |-> 0]
<1>1. e \in Tokens
  BY DEF Tokens, TokenStatuses
<1>2. TokenReplaced(kind) = Append(TokensRevoked(kind), e)
  BY DEF TokenReplaced
<1> HIDE DEF e
<1>3. /\ TokenReplaced(kind) \in Seq(Tokens)
      /\ DOMAIN TokenReplaced(kind) = DOMAIN tokens \cup {Len(tokens) + 1}
      /\ Len(tokens) + 1 \notin DOMAIN tokens
      /\ \A t \in DOMAIN tokens : TokenReplaced(kind)[t] = TokensRevoked(kind)[t]
      /\ TokenReplaced(kind)[Len(tokens) + 1] = e
  BY <1>1, <1>2, TokensRevokedRows, AppendRow
<1> QED
  BY <1>3, TokensRevokedRows DEF e

LEMMA TokenUsedRows ==
    ASSUME TypeInv, NEW i \in DOMAIN tokens
    PROVE  /\ TokenUsed(i) \in Seq(Tokens) /\ DOMAIN TokenUsed(i) = DOMAIN tokens
           /\ TokenUsed(i)[i].kind = tokens[i].kind /\ TokenUsed(i)[i].status = "used"
           /\ TokenUsed(i)[i].uses = tokens[i].uses + 1
           /\ \A t \in DOMAIN tokens : t # i => TokenUsed(i)[t] = tokens[t]
<1> DEFINE e == [tokens[i] EXCEPT !.status = "used", !.uses = @ + 1]
<1>1. tokens[i] \in Tokens /\ tokens \in Seq(Tokens)
  BY RowFacts
<1>2. /\ e \in Tokens /\ e.kind = tokens[i].kind /\ e.status = "used"
      /\ e.uses = tokens[i].uses + 1
  <2> DEFINE n == tokens[i].uses + 1
             d == [tokens[i] EXCEPT !.status = "used", !.uses = n]
  <2>1. n \in Nat
    BY <1>1 DEF Tokens
  <2>2. e = d
    BY <1>1 DEF Tokens
  <2> HIDE DEF n
  <2>3. d \in Tokens /\ d.kind = tokens[i].kind /\ d.status = "used" /\ d.uses = n
    BY <1>1, <2>1 DEF Tokens, TokenStatuses
  <2> QED
    BY <2>2, <2>3 DEF n
<1>3. TokenUsed(i) = [tokens EXCEPT ![i] = e]
  BY <1>1 DEF TokenUsed
<1> HIDE DEF e
<1> QED
  BY <1>1, <1>2, <1>3, WriteRow

\* The codes of a kind are not fewer where rows keep their kind.
LEMMA KindsKept ==
    ASSUME NEW kind, DOMAIN tokens \subseteq DOMAIN tokens',
           \A t \in DOMAIN tokens : tokens'[t].kind = tokens[t].kind
    PROVE  CodesOf(kind) \subseteq CodesOf(kind)'
BY DEF CodesOf

-----------------------------------------------------------------------------
(* Types: the steps that write rows                                        *)

\* The handler returns or raises.
Ended(r) ==
    \/ Done(r)
    \/ \E holds \in BOOLEAN, t \in Nat : Raise(r, holds, t)

LEMMA TypeWrite ==
    ASSUME TypeInv, NEW r \in Requests, NEW x \in Doings,
           req' = [req EXCEPT ![r] = x] \/ req' = req,
           user' \in Users, guesses' \in Nat,
           tokens' \in Seq(Tokens), DOMAIN tokens \subseteq DOMAIN tokens',
           \A t \in DOMAIN tokens : tokens'[t].kind = tokens[t].kind,
           sessions' \in Seq(AuthSessions), DOMAIN sessions \subseteq DOMAIN sessions',
           Names(x, DOMAIN sessions', CodesOf("reset")', CodesOf("verify")')
    PROVE  TypeInv'
<1>1. /\ CodesOf("reset") \subseteq CodesOf("reset")'
      /\ CodesOf("verify") \subseteq CodesOf("verify")'
  BY KindsKept
<1> QED
  BY <1>1, TypeStep

LEMMA EndedState ==
    ASSUME NEW r \in Requests, Ended(r)
    PROVE  \E x \in Doings : x.pc \in {"done", "raised"} /\ req' = [req EXCEPT ![r] = x]
<1>1. CASE Done(r)
  BY <1>1, EndStates DEF Done
<1>2. ASSUME NEW holds \in BOOLEAN, NEW t \in Nat, Raise(r, holds, t)
      PROVE  \E x \in Doings : x.pc \in {"done", "raised"} /\ req' = [req EXCEPT ![r] = x]
  <2>1. [pc |-> "raised", user |-> holds, token |-> t] \in Doings
    BY EndStates
  <2> QED
    BY <1>2, <2>1 DEF Raise
<1> QED
  BY <1>1, <1>2 DEF Ended

LEMMA TypeEnded ==
    ASSUME TypeInv, NEW r \in Requests, Ended(r),
           user' \in Users, guesses' \in Nat,
           tokens' \in Seq(Tokens), DOMAIN tokens \subseteq DOMAIN tokens',
           \A t \in DOMAIN tokens : tokens'[t].kind = tokens[t].kind,
           sessions' \in Seq(AuthSessions), DOMAIN sessions \subseteq DOMAIN sessions'
    PROVE  TypeInv'
<1>1. PICK x \in Doings : x.pc \in {"done", "raised"} /\ req' = [req EXCEPT ![r] = x]
  BY EndedState
<1>2. Names(x, DOMAIN sessions', CodesOf("reset")', CodesOf("verify")')
  BY <1>1, Nameless
<1> QED
  BY <1>1, <1>2, TypeWrite

\* What authenticate_account does with the account.
LEMMA LoginCheckRows ==
    ASSUME TypeInv, NEW r \in Requests, LoginCheck(r)
    PROVE  /\ req[r].pc = "login_lock" /\ req[r].pw \in Passwords
           /\ UNCHANGED <<tokens, sessions>>
           /\ \/ Done(r) /\ UNCHANGED <<user, guesses>>
              \/ /\ Done(r) /\ LoginRefused(r)
              \/ /\ req' = [req EXCEPT ![r] = [pc |-> "login_member", pw |-> req[r].pw]]
                 /\ LoginAccepted(r)
           /\ user' \in Users /\ guesses' \in Nat
           /\ user'.owner = user.owner /\ user'.active = user.active /\ user'.pw = user.pw
<1>1. req[r].pc = "login_lock" /\ UNCHANGED <<tokens, sessions>> /\ req[r] \in Doings
  BY DEF LoginCheck, TypeInv
<1>2. req[r].pw \in Passwords /\ req[r] = [pc |-> "login_lock", pw |-> req[r].pw]
  BY <1>1, DoingFields DEF LoginPcs
<1>3. user \in Users /\ guesses \in Nat
  BY RowFacts
<1>4. ASSUME LoginRefused(r)
      PROVE  /\ Done(r) /\ user' \in Users /\ guesses' \in Nat
             /\ user'.owner = user.owner /\ user'.active = user.active
             /\ user'.pw = user.pw
  <2> DEFINE base == IF user.locked = "over" THEN 0 ELSE user.failed
             failed == base + 1
             locked == IF failed >= Threshold THEN "running" ELSE "no"
  <2>1. user' = [user EXCEPT !.failed = failed, !.locked = locked]
    BY <1>4 DEF LoginRefused
  <2>2. failed \in Nat /\ locked \in Lockouts
    BY <1>3 DEF Users, Lockouts
  <2> HIDE DEF failed, locked
  <2>3. /\ user' \in Users /\ user'.owner = user.owner /\ user'.active = user.active
        /\ user'.pw = user.pw
    BY <1>3, <2>1, <2>2 DEF Users
  <2>4. Done(r) /\ guesses' \in Nat
    BY <1>3, <1>4 DEF LoginRefused
  <2> QED
    BY <2>3, <2>4
<1>5. ASSUME LoginAccepted(r)
      PROVE  /\ req' = [req EXCEPT ![r] = [pc |-> "login_member", pw |-> req[r].pw]]
             /\ user' \in Users /\ guesses' \in Nat
             /\ user'.owner = user.owner /\ user'.active = user.active
             /\ user'.pw = user.pw
  <2>1. [req[r] EXCEPT !.pc = "login_member"] = [pc |-> "login_member", pw |-> req[r].pw]
    BY <1>2
  <2>2. req' = [req EXCEPT ![r] = [pc |-> "login_member", pw |-> req[r].pw]]
    BY <1>5, <2>1 DEF LoginAccepted
  <2>3. /\ user' \in Users /\ user'.owner = user.owner /\ user'.active = user.active
        /\ user'.pw = user.pw
    BY <1>3, <1>5 DEF LoginAccepted, Users, Lockouts
  <2> QED
    BY <1>5, <2>2, <2>3 DEF LoginAccepted
<1>6. \/ Done(r) /\ UNCHANGED <<user, guesses>>
      \/ LoginRefused(r)
      \/ LoginAccepted(r)
  BY DEF LoginCheck
<1> QED
  BY <1>1, <1>2, <1>3, <1>4, <1>5, <1>6

\* What a change of password does.
LEMMA ChangeRows ==
    ASSUME TypeInv, NEW r \in Requests, ChangeCommit(r)
    PROVE  LET q == req[r] IN
           /\ q.pc = "change_lock" /\ q.session \in DOMAIN sessions
           /\ Ended(r)
           /\ \/ UNCHANGED <<user, tokens, sessions, guesses>>
              \/ /\ user' \in Users /\ guesses' = 0
                 /\ user'.owner = user.owner /\ user'.active = user.active
                 /\ user'.pw = q.new
                 /\ tokens' = TokensRevoked("reset")
                 /\ sessions' \in Seq(AuthSessions) /\ DOMAIN sessions' = DOMAIN sessions
                 /\ \A s \in DOMAIN sessions :
                       LET old == sessions[s]
                           new == sessions'[s]
                       IN  /\ new.late = old.late
                           /\ new.state # "revoked" => new.state = old.state
                           /\ new.state = "live" => s = q.session /\ new.pw = q.new
<1> DEFINE q == req[r]
           i == q.session
           others == DOMAIN sessions \ {i}
<1>1. q \in Doings /\ q.pc = "change_lock" /\ i \in DOMAIN sessions
  BY DEF ChangeCommit, TypeInv, Names
<1>2. user \in Users /\ q.new \in Passwords
  BY <1>1, RowFacts, DoingFields
<1>3. ASSUME Raise(r, TRUE, 0) /\ UNCHANGED <<rowVars, guesses>>
      PROVE  Ended(r) /\ UNCHANGED <<user, tokens, sessions, guesses>>
  BY <1>3 DEF Ended, rowVars
<1>4. ASSUME user' = [user EXCEPT !.pw = q.new,
                                  !.failed = Written(q.seen.failed, 0, @),
                                  !.locked = Written(q.seen.locked, "no", @)],
             sessions' = [Revoked(others) EXCEPT ![i].pw = q.new]
      PROVE  /\ user' \in Users /\ user'.owner = user.owner /\ user'.active = user.active
             /\ user'.pw = q.new
             /\ sessions' \in Seq(AuthSessions) /\ DOMAIN sessions' = DOMAIN sessions
             /\ \A s \in DOMAIN sessions :
                   LET old == sessions[s]
                       new == sessions'[s]
                   IN  /\ new.late = old.late
                       /\ new.state # "revoked" => new.state = old.state
                       /\ new.state = "live" => s = i /\ new.pw = q.new
  <2> DEFINE failed == Written(q.seen.failed, 0, user.failed)
             locked == Written(q.seen.locked, "no", user.locked)
             row == Revoked(others)[i]
             e == [row EXCEPT !.pw = q.new]
  <2>1. failed \in Nat /\ locked \in Lockouts
    BY <1>2 DEF Written, Users, Lockouts
  <2>2. user' = [user EXCEPT !.pw = q.new, !.failed = failed, !.locked = locked]
    BY <1>2, <1>4 DEF Users
  <2> HIDE DEF failed, locked
  <2>3. /\ user' \in Users /\ user'.owner = user.owner /\ user'.active = user.active
        /\ user'.pw = q.new
    BY <1>2, <2>1, <2>2 DEF Users
  <2>4. /\ Revoked(others) \in Seq(AuthSessions)
        /\ DOMAIN Revoked(others) = DOMAIN sessions
    BY RevokedRows
  <2>5. row \in AuthSessions
    BY <1>1, <2>4, RowOf
  <2>6. /\ e \in AuthSessions /\ e.late = row.late
        /\ e.state = row.state /\ e.pw = q.new
    BY <1>2, <2>5 DEF AuthSessions
  <2>7. sessions' = [Revoked(others) EXCEPT ![i] = e]
    BY <1>1, <1>4, <2>4
  <2> HIDE DEF e
  <2>8. /\ sessions' \in Seq(AuthSessions) /\ DOMAIN sessions' = DOMAIN sessions
        /\ \A s \in DOMAIN sessions :
              sessions'[s] = IF s = i THEN e ELSE Revoked(others)[s]
    BY <1>1, <2>4, <2>6, <2>7, WriteRow
  <2>9. \A s \in DOMAIN sessions :
           LET old == sessions[s]
               new == Revoked(others)[s]
           IN  /\ new.late = old.late
               /\ new.state # "revoked" => new.state = old.state
               /\ new.state = "live" => s \notin others
    BY RevokedRows
  <2> QED
    BY <2>3, <2>6, <2>8, <2>9
<1>5. CASE q.current # q.seen.pw \/ q.new = q.seen.pw
  BY <1>1, <1>3, <1>5 DEF ChangeCommit
<1>6. CASE ~(q.current # q.seen.pw \/ q.new = q.seen.pw)
  <2>1. /\ user' = [user EXCEPT !.pw = q.new,
                                !.failed = Written(q.seen.failed, 0, @),
                                !.locked = Written(q.seen.locked, "no", @)]
        /\ sessions' = [Revoked(others) EXCEPT ![i].pw = q.new]
        /\ tokens' = TokensRevoked("reset") /\ guesses' = 0 /\ Done(r)
    BY <1>6 DEF ChangeCommit
  <2> QED
    BY <1>1, <1>4, <2>1 DEF Ended
<1> QED
  BY <1>5, <1>6

LEMMA ExpiredRows ==
    ASSUME TypeInv, NEW i \in DOMAIN tokens, NEW new,
           new = [tokens EXCEPT ![i].status = "expired"]
    PROVE  /\ new \in Seq(Tokens) /\ DOMAIN new = DOMAIN tokens
           /\ new[i].kind = tokens[i].kind /\ new[i].uses = tokens[i].uses
           /\ new[i].status = "expired"
           /\ \A t \in DOMAIN tokens : t # i => new[t] = tokens[t]
<1> DEFINE e == [tokens[i] EXCEPT !.status = "expired"]
<1>1. tokens[i] \in Tokens /\ tokens \in Seq(Tokens)
  BY RowFacts
<1>2. /\ e \in Tokens /\ e.kind = tokens[i].kind /\ e.status = "expired"
      /\ e.uses = tokens[i].uses
  BY <1>1 DEF Tokens, TokenStatuses
<1>3. new = [tokens EXCEPT ![i] = e]
  BY <1>1
<1> HIDE DEF e
<1> QED
  BY <1>1, <1>2, <1>3, WriteRow

\* What a reset code does.
LEMMA ResetConfirmRows ==
    ASSUME TypeInv, NEW r \in Requests, ResetConfirm(r)
    PROVE  LET i == req[r].token IN
           /\ req[r].pc = "reset_confirm" /\ i \in DOMAIN tokens /\ tokens[i].kind = "reset"
           /\ Ended(r)
           /\ \/ /\ user' \in Users /\ guesses' = 0
                 /\ user'.owner = user.owner /\ user'.active = user.active
                 /\ tokens' = TokenUsed(i)
                 /\ sessions' = Revoked(DOMAIN sessions)
              \/ /\ UNCHANGED <<user, sessions, guesses>>
                 /\ tokens' = tokens \/ tokens' = [tokens EXCEPT ![i].status = "expired"]
<1> DEFINE i == req[r].token
<1>1. /\ req[r].pc = "reset_confirm" /\ i \in DOMAIN tokens /\ tokens[i].kind = "reset"
      /\ i \in Nat /\ req[r].pw \in Passwords /\ user \in Users
  BY RowFacts, DoingFields DEF ResetConfirm, TypeInv, Names, CodesOf
<1>2. CASE ResetGranted(r)
  <2>1. user' = [user EXCEPT !.pw = req[r].pw, !.failed = 0, !.locked = "no"]
    BY <1>2 DEF ResetGranted
  <2>2. user' \in Users /\ user'.owner = user.owner /\ user'.active = user.active
    BY <1>1, <2>1 DEF Users, Lockouts
  <2> QED
    BY <1>1, <1>2, <2>2 DEF ResetGranted, Ended
<1>3. CASE ResetDenied(r)
  BY <1>1, <1>3 DEF ResetDenied, Ended
<1> QED
  BY <1>2, <1>3 DEF ResetConfirm

LEMMA TypeLogin ==
    ASSUME TypeInv, NEW r \in Requests, LoginCheck(r)
    PROVE  TypeInv'
<1> DEFINE x == [pc |-> "login_member", pw |-> req[r].pw]
<1>1. /\ UNCHANGED <<tokens, sessions>> /\ user' \in Users /\ guesses' \in Nat
      /\ Done(r) \/ req' = [req EXCEPT ![r] = x]
      /\ req[r].pw \in Passwords
  BY LoginCheckRows
<1>2. CASE Done(r)
  BY <1>1, <1>2, RowFacts, TypeEnded DEF Ended
<1>3. CASE req' = [req EXCEPT ![r] = x]
  <2>1. x \in Doings /\ x.pc \in LoginPcs
    BY <1>1 DEF Doings, LoginPcs
  <2> HIDE DEF x
  <2>2. Names(x, DOMAIN sessions', CodesOf("reset")', CodesOf("verify")')
    BY <2>1, Nameless
  <2> QED
    BY <1>1, <1>3, <2>1, <2>2, RowFacts, TypeWrite
<1> QED
  BY <1>1, <1>2, <1>3

LEMMA TypePasswords ==
    ASSUME TypeInv, NEW r \in Requests,
           ChangeCommit(r) \/ ResetRequest(r) \/ ResetConfirm(r)
    PROVE  TypeInv'
<1>1. CASE ChangeCommit(r)
  <2>1. /\ Ended(r) /\ user' \in Users /\ guesses' \in Nat
        /\ tokens' = tokens \/ tokens' = TokensRevoked("reset")
        /\ sessions' \in Seq(AuthSessions) /\ DOMAIN sessions' = DOMAIN sessions
    BY <1>1, ChangeRows, RowFacts
  <2>2. /\ tokens' \in Seq(Tokens) /\ DOMAIN tokens' = DOMAIN tokens
        /\ \A t \in DOMAIN tokens : tokens'[t].kind = tokens[t].kind
    BY <2>1, TokensRevokedRows, RowFacts
  <2> QED
    BY <2>1, <2>2, TypeEnded
<1>2. CASE ResetRequest(r)
  <2>1. /\ Ended(r) /\ UNCHANGED <<user, sessions, guesses>>
        /\ tokens' = tokens \/ tokens' = TokenReplaced("reset")
    BY <1>2 DEF ResetRequest, Ended
  <2>2. /\ tokens' \in Seq(Tokens) /\ DOMAIN tokens \subseteq DOMAIN tokens'
        /\ \A t \in DOMAIN tokens : tokens'[t].kind = tokens[t].kind
    BY <2>1, TokenReplacedRows, RowFacts DEF Kinds
  <2> QED
    BY <2>1, <2>2, RowFacts, TypeEnded
<1>3. CASE ResetConfirm(r)
  <2> DEFINE i == req[r].token
  <2>1. /\ Ended(r) /\ user' \in Users /\ guesses' \in Nat /\ i \in DOMAIN tokens
        /\ \/ tokens' = tokens \/ tokens' = TokenUsed(i)
           \/ tokens' = [tokens EXCEPT ![i].status = "expired"]
        /\ sessions' = sessions \/ sessions' = Revoked(DOMAIN sessions)
    BY <1>3, ResetConfirmRows, RowFacts
  <2>2. /\ tokens' \in Seq(Tokens) /\ DOMAIN tokens' = DOMAIN tokens
        /\ \A t \in DOMAIN tokens : tokens'[t].kind = tokens[t].kind
    <3>1. CASE tokens' = tokens
      BY <3>1, RowFacts
    <3>2. CASE tokens' = TokenUsed(i)
      BY <2>1, <3>2, TokenUsedRows
    <3>3. CASE tokens' = [tokens EXCEPT ![i].status = "expired"]
      BY <2>1, <3>3, ExpiredRows
    <3> QED
      BY <2>1, <3>1, <3>2, <3>3
  <2>3. sessions' \in Seq(AuthSessions) /\ DOMAIN sessions' = DOMAIN sessions
    BY <2>1, RevokedRows, RowFacts
  <2> QED
    BY <2>1, <2>2, <2>3, TypeEnded
<1> QED
  BY <1>1, <1>2, <1>3

\* What the steps of a verification do.
LEMMA VerifyRows ==
    ASSUME TypeInv, NEW r \in Requests, VerifyLock(r) \/ VerifyCommit(r)
    PROVE  LET i == req[r].token IN
           /\ i \in DOMAIN tokens /\ tokens[i].kind = "verify" /\ i \in Nat
           /\ UNCHANGED <<sessions, guesses>>
           /\ user' \in Users /\ user'.owner = user.owner /\ user'.active = user.active
           /\ user'.pw = user.pw /\ user'.failed = user.failed /\ user'.locked = user.locked
           /\ req[r].pc = "verify_lock" => TokenFree(r, i)
           /\ \/ /\ req[r].pc = "verify_lock" /\ Ended(r)
                 /\ tokens' = tokens \/ tokens' = [tokens EXCEPT ![i].status = "expired"]
              \/ /\ req[r].pc = "verify_lock" /\ tokens' = tokens
                 /\ tokens[i].status = "active"
                 /\ req' = [req EXCEPT ![r] = [pc |-> "verify_user", token |-> i]]
              \/ /\ req[r].pc = "verify_user" /\ Ended(r)
                 /\ tokens' = TokenUsed(i)
<1> DEFINE i == req[r].token
<1>1. /\ req[r].pc \in {"verify_lock", "verify_user"} /\ i \in DOMAIN tokens
      /\ tokens[i].kind = "verify" /\ i \in Nat
      /\ req[r] = [pc |-> req[r].pc, token |-> i] /\ user \in Users
  BY RowFacts, DoingFields DEF VerifyLock, VerifyCommit, TypeInv, Names, CodesOf
<1>2. CASE VerifyLock(r)
  <2>1. [req[r] EXCEPT !.pc = "verify_user"] = [pc |-> "verify_user", token |-> i]
    BY <1>1
  <2>2. UNCHANGED <<user, sessions, guesses>> /\ req[r].pc = "verify_lock"
    BY <1>2 DEF VerifyLock
  <2>3. \/ Ended(r) /\ (tokens' = tokens \/ tokens' = [tokens EXCEPT ![i].status = "expired"])
        \/ /\ tokens' = tokens /\ tokens[i].status = "active"
           /\ req' = [req EXCEPT ![r] = [pc |-> "verify_user", token |-> i]]
    BY <1>1, <1>2, <2>1 DEF VerifyLock, Ended
  <2>4. TokenFree(r, i)
    BY <1>2 DEF VerifyLock
  <2> QED
    BY <1>1, <2>2, <2>3, <2>4
<1>3. CASE VerifyCommit(r)
  <2>1. user' = [user EXCEPT !.verified = TRUE]
    BY <1>3 DEF VerifyCommit
  <2>2. /\ user' \in Users /\ user'.owner = user.owner /\ user'.active = user.active
        /\ user'.pw = user.pw /\ user'.failed = user.failed /\ user'.locked = user.locked
    BY <1>1, <2>1 DEF Users
  <2> QED
    BY <1>1, <1>3, <2>2 DEF VerifyCommit, Ended
<1> QED
  BY <1>2, <1>3

LEMMA TypeCodes ==
    ASSUME TypeInv, NEW r \in Requests, ResendRevoke(r) \/ VerifyLock(r) \/ VerifyCommit(r)
    PROVE  TypeInv'
<1>1. CASE ResendRevoke(r)
  <2>1. /\ Ended(r) /\ UNCHANGED <<user, sessions, guesses>>
        /\ tokens' = TokenReplaced("verify")
    BY <1>1 DEF ResendRevoke, Ended
  <2>2. /\ tokens' \in Seq(Tokens) /\ DOMAIN tokens \subseteq DOMAIN tokens'
        /\ \A t \in DOMAIN tokens : tokens'[t].kind = tokens[t].kind
    BY <2>1, TokenReplacedRows DEF Kinds
  <2> QED
    BY <2>1, <2>2, RowFacts, TypeEnded
<1>2. CASE VerifyLock(r) \/ VerifyCommit(r)
  <2> DEFINE i == req[r].token
             x == [pc |-> "verify_user", token |-> i]
  <2>1. /\ i \in DOMAIN tokens /\ tokens[i].kind = "verify" /\ i \in Nat
        /\ UNCHANGED <<sessions, guesses>> /\ user' \in Users
        /\ \/ tokens' = tokens \/ tokens' = TokenUsed(i)
           \/ tokens' = [tokens EXCEPT ![i].status = "expired"]
        /\ Ended(r) \/ (tokens' = tokens /\ req' = [req EXCEPT ![r] = x])
    BY <1>2, VerifyRows
  <2>2. /\ tokens' \in Seq(Tokens) /\ DOMAIN tokens' = DOMAIN tokens
        /\ \A t \in DOMAIN tokens : tokens'[t].kind = tokens[t].kind
    <3>1. CASE tokens' = tokens
      BY <3>1, RowFacts
    <3>2. CASE tokens' = TokenUsed(i)
      BY <2>1, <3>2, TokenUsedRows
    <3>3. CASE tokens' = [tokens EXCEPT ![i].status = "expired"]
      BY <2>1, <3>3, ExpiredRows
    <3> QED
      BY <2>1, <3>1, <3>2, <3>3
  <2>3. CASE Ended(r)
    BY <2>1, <2>2, <2>3, RowFacts, TypeEnded
  <2>4. CASE tokens' = tokens /\ req' = [req EXCEPT ![r] = x]
    <3>1. x \in Doings
      BY <2>1 DEF Doings
    <3>2. Names(x, DOMAIN sessions', CodesOf("reset")', CodesOf("verify")')
      <4>1. i \in CodesOf("verify")'
        BY <2>1, <2>4 DEF CodesOf
      <4>2. x.pc = "verify_user" /\ x.token = i
        OBVIOUS
      <4> HIDE DEF x, i
      <4> QED
        BY <4>1, <4>2 DEF Names
    <3> QED
      BY <2>1, <2>2, <2>4, <3>1, <3>2, RowFacts, TypeWrite
  <2> QED
    BY <2>1, <2>3, <2>4
<1> QED
  BY <1>1, <1>2

\* A new session.
LEMMA MintRows ==
    ASSUME TypeInv, NEW r \in Requests, LoginMint(r) \/ ImpersonateMint(r)
    PROVE  /\ UNCHANGED <<user, tokens, guesses>> /\ Ended(r)
           /\ \E e \in AuthSessions :
                 /\ sessions' = Append(sessions, e)
                 /\ \/ /\ req[r].pc = "login_mint"
                       /\ e.late = (e.pw # user.pw \/ ~user.active \/ Archiving)
                    \/ req[r].pc = "imp_mint" /\ e.pw = user.pw
<1>1. CASE LoginMint(r)
  <2> DEFINE e == [state |-> "live", pw |-> req[r].pw,
                   late |-> req[r].pw # user.pw \/ ~user.active \/ Archiving]
  <2>1. req[r].pw \in Passwords
    BY <1>1, DoingFields DEF LoginMint, LoginPcs, TypeInv
  <2>2. e \in AuthSessions
    BY <2>1, RowFacts DEF AuthSessions, Users, Archiving
  <2>3. sessions' = Append(sessions, e) /\ Ended(r) /\ req[r].pc = "login_mint"
    BY <1>1 DEF LoginMint, Ended
  <2> QED
    BY <1>1, <2>2, <2>3 DEF LoginMint
<1>2. CASE ImpersonateMint(r)
  <2> DEFINE e == [state |-> "live", pw |-> user.pw, late |-> FALSE]
  <2>1. e \in AuthSessions
    BY RowFacts DEF AuthSessions, Users
  <2>2. sessions' = Append(sessions, e)
    BY <1>2 DEF ImpersonateMint
  <2> QED
    BY <1>2, <2>1, <2>2 DEF ImpersonateMint, Ended
<1> QED
  BY <1>1, <1>2

LEMMA RevokeRows ==
    ASSUME TypeInv, NEW r \in Requests, RevokeSessions(r)
    PROVE  /\ Ended(r) /\ UNCHANGED <<user, tokens, guesses>>
           /\ \E others : sessions' = Revoked(others)
BY DEF RevokeSessions, Ended

LEMMA StatusRows ==
    ASSUME TypeInv, NEW r \in Requests, MemberStatus(r)
    PROVE  /\ Ended(r) /\ UNCHANGED guesses /\ req[r].pc = "status"
           /\ user' \in Users /\ user'.owner = user.owner
           /\ user'.pw = user.pw /\ user'.failed = user.failed /\ user'.locked = user.locked
           /\ \/ /\ user'.active = user.active \/ user'.active
                 /\ UNCHANGED <<tokens, sessions>>
              \/ /\ tokens' = TokensRevoked("reset") /\ sessions' = Revoked(DOMAIN sessions)
<1>1. req[r].pc = "status" /\ req[r].active \in BOOLEAN /\ user \in Users
  BY RowFacts, DoingFields DEF MemberStatus, TypeInv
<1>2. CASE req[r].active /\ user.archived
  <2>1. Raise(r, TRUE, 0) /\ UNCHANGED <<user, tokens, sessions, guesses>>
    BY <1>2 DEF MemberStatus, rowVars
  <2> QED
    BY <1>1, <2>1 DEF Ended
<1>3. CASE ~(req[r].active /\ user.archived)
  <2>1. user' = [user EXCEPT !.active = req[r].active] /\ Done(r) /\ UNCHANGED guesses
    BY <1>3 DEF MemberStatus
  <2>2. /\ user' \in Users /\ user'.owner = user.owner /\ user'.active = req[r].active
        /\ user'.pw = user.pw /\ user'.failed = user.failed /\ user'.locked = user.locked
    BY <1>1, <2>1 DEF Users
  <2> QED
    BY <1>1, <1>3, <2>1, <2>2 DEF MemberStatus, Ended
<1> QED
  BY <1>2, <1>3

\* What the last step of an archive writes.
LEMMA ArchiveRows ==
    ASSUME TypeInv, NEW r \in Requests, ArchiveCommit(r)
    PROVE  /\ Ended(r) /\ UNCHANGED guesses /\ req[r].pc = "archive_commit"
           /\ user' \in Users /\ user'.owner = user.owner /\ ~user'.active
           /\ user'.pw = user.pw /\ user'.failed = user.failed /\ user'.locked = user.locked
           /\ sessions' = Revoked(req[r].found)
           /\ tokens' \in Seq(Tokens) /\ DOMAIN tokens' = DOMAIN tokens
           /\ \A t \in DOMAIN tokens :
                 /\ tokens'[t].kind = tokens[t].kind /\ tokens'[t].uses = tokens[t].uses
                 /\ tokens[t].kind # "reset" => tokens'[t] = tokens[t]
                 /\ tokens'[t].status = "active" => tokens[t].status = "active"
<1> DEFINE row(t) == IF t \in req[r].tokens THEN [tokens[t] EXCEPT !.status = "revoked"]
                     ELSE tokens[t]
<1>1. /\ Ended(r) /\ UNCHANGED guesses /\ req[r].pc = "archive_commit"
      /\ user' = [user EXCEPT !.active = FALSE, !.archived = TRUE]
      /\ sessions' = Revoked(req[r].found) /\ tokens' = [t \in DOMAIN tokens |-> row(t)]
  BY DEF ArchiveCommit, Ended
<1>2. /\ user' \in Users /\ user'.owner = user.owner /\ ~user'.active
      /\ user'.pw = user.pw /\ user'.failed = user.failed /\ user'.locked = user.locked
  BY <1>1, RowFacts DEF Users
<1>3. req[r].tokens \subseteq CodesOf("reset")
  BY <1>1 DEF TypeInv, Names
<1>4. ASSUME NEW t \in DOMAIN tokens
      PROVE  /\ row(t) \in Tokens
             /\ row(t).kind = tokens[t].kind /\ row(t).uses = tokens[t].uses
             /\ tokens[t].kind # "reset" => row(t) = tokens[t]
             /\ row(t).status = "active" => tokens[t].status = "active"
  BY <1>3, RowFacts DEF Tokens, TokenStatuses, CodesOf
<1> HIDE DEF row
<1>5. tokens' \in Seq(Tokens) /\ DOMAIN tokens' = DOMAIN tokens
  BY <1>1, <1>4, RowFacts, MapRows
<1> QED
  BY <1>1, <1>2, <1>4, <1>5

LEMMA TimeRows ==
    ASSUME TypeInv, TimePasses
    PROVE  /\ UNCHANGED <<req, guesses>>
           /\ user' \in Users /\ user'.owner = user.owner /\ user'.active = user.active
           /\ user'.pw = user.pw /\ user'.failed = user.failed
           /\ user'.locked = user.locked \/ user'.locked = "over"
           /\ tokens' \in Seq(Tokens) /\ DOMAIN tokens' = DOMAIN tokens
           /\ \A t \in DOMAIN tokens : /\ tokens'[t].kind = tokens[t].kind
                                       /\ tokens'[t].status = tokens[t].status
                                       /\ tokens'[t].uses = tokens[t].uses
           /\ sessions' \in Seq(AuthSessions) /\ DOMAIN sessions' = DOMAIN sessions
           /\ \A s \in DOMAIN sessions :
                 \/ sessions'[s] = sessions[s]
                 \/ sessions'[s].state = "lapsed"
<1> user \in Users
  BY RowFacts
<1>1. ASSUME user' = [user EXCEPT !.locked = "over"], UNCHANGED <<tokens, sessions, req, guesses>>
      PROVE  /\ user' \in Users /\ user'.owner = user.owner /\ user'.active = user.active
             /\ user'.pw = user.pw /\ user'.failed = user.failed /\ user'.locked = "over"
  BY <1>1 DEF Users, Lockouts
<1>2. ASSUME NEW i \in DOMAIN tokens, tokens' = [tokens EXCEPT ![i].lapsed = TRUE]
      PROVE  /\ tokens' \in Seq(Tokens) /\ DOMAIN tokens' = DOMAIN tokens
             /\ \A t \in DOMAIN tokens : /\ tokens'[t].kind = tokens[t].kind
                                         /\ tokens'[t].status = tokens[t].status
                                         /\ tokens'[t].uses = tokens[t].uses
  <2> DEFINE e == [tokens[i] EXCEPT !.lapsed = TRUE]
  <2>1. tokens[i] \in Tokens /\ tokens \in Seq(Tokens)
    BY RowFacts
  <2>2. /\ e \in Tokens /\ e.kind = tokens[i].kind /\ e.status = tokens[i].status
        /\ e.uses = tokens[i].uses
    BY <2>1 DEF Tokens
  <2>3. tokens' = [tokens EXCEPT ![i] = e]
    BY <1>2, <2>1
  <2> HIDE DEF e
  <2> QED
    BY <2>1, <2>2, <2>3, WriteRow
<1>3. ASSUME NEW i \in DOMAIN sessions, sessions' = [sessions EXCEPT ![i].state = "lapsed"]
      PROVE  /\ sessions' \in Seq(AuthSessions) /\ DOMAIN sessions' = DOMAIN sessions
             /\ \A s \in DOMAIN sessions :
                   sessions'[s] = sessions[s] \/ sessions'[s].state = "lapsed"
  <2> DEFINE e == [sessions[i] EXCEPT !.state = "lapsed"]
  <2>1. sessions[i] \in AuthSessions /\ sessions \in Seq(AuthSessions)
    BY RowFacts
  <2>2. e \in AuthSessions /\ e.state = "lapsed"
    BY <2>1 DEF AuthSessions
  <2>3. sessions' = [sessions EXCEPT ![i] = e]
    BY <1>3, <2>1
  <2> HIDE DEF e
  <2> QED
    BY <2>1, <2>2, <2>3, WriteRow
<1>4. UNCHANGED <<req, guesses>>
  BY DEF TimePasses
<1>5. CASE user' = [user EXCEPT !.locked = "over"] /\ UNCHANGED <<tokens, sessions>>
  BY <1>1, <1>4, <1>5, RowFacts
<1>6. CASE /\ UNCHANGED <<user, sessions>>
           /\ \E i \in DOMAIN tokens : tokens' = [tokens EXCEPT ![i].lapsed = TRUE]
  BY <1>2, <1>4, <1>6, RowFacts
<1>7. CASE /\ UNCHANGED <<user, tokens>>
           /\ \E i \in DOMAIN sessions : sessions' = [sessions EXCEPT ![i].state = "lapsed"]
  BY <1>3, <1>4, <1>7, RowFacts
<1> QED
  BY <1>5, <1>6, <1>7 DEF TimePasses

LEMMA TypeSessions ==
    ASSUME TypeInv, NEW r \in Requests,
           \/ LoginMint(r) \/ RevokeSessions(r) \/ MemberStatus(r) \/ ImpersonateMint(r)
           \/ ArchiveCommit(r)
    PROVE  TypeInv'
<1>1. CASE LoginMint(r) \/ ImpersonateMint(r)
  <2>1. PICK e \in AuthSessions :
           sessions' = Append(sessions, e) /\ UNCHANGED <<user, tokens, guesses>> /\ Ended(r)
    BY <1>1, MintRows
  <2>2. /\ sessions' \in Seq(AuthSessions)
        /\ DOMAIN sessions' = DOMAIN sessions \cup {Len(sessions) + 1}
    BY <2>1, RowFacts, AppendRow
  <2> QED
    BY <2>1, <2>2, RowFacts, TypeEnded
<1>2. CASE RevokeSessions(r)
  BY <1>2, RevokeRows, RevokedRows, RowFacts, TypeEnded
<1>3. CASE MemberStatus(r)
  <2>1. /\ Ended(r) /\ guesses' \in Nat /\ user' \in Users
        /\ tokens' = tokens \/ tokens' = TokensRevoked("reset")
        /\ sessions' = sessions \/ sessions' = Revoked(DOMAIN sessions)
    BY <1>3, StatusRows, RowFacts
  <2>2. /\ tokens' \in Seq(Tokens) /\ DOMAIN tokens' = DOMAIN tokens
        /\ \A t \in DOMAIN tokens : tokens'[t].kind = tokens[t].kind
    BY <2>1, TokensRevokedRows, RowFacts
  <2>3. sessions' \in Seq(AuthSessions) /\ DOMAIN sessions' = DOMAIN sessions
    BY <2>1, RevokedRows, RowFacts
  <2> QED
    BY <2>1, <2>2, <2>3, TypeEnded
<1>4. CASE ArchiveCommit(r)
  <2>1. /\ Ended(r) /\ guesses' \in Nat /\ user' \in Users
        /\ tokens' \in Seq(Tokens) /\ DOMAIN tokens' = DOMAIN tokens
        /\ \A t \in DOMAIN tokens : tokens'[t].kind = tokens[t].kind
        /\ sessions' = Revoked(req[r].found)
    BY <1>4, ArchiveRows, RowFacts
  <2>2. sessions' \in Seq(AuthSessions) /\ DOMAIN sessions' = DOMAIN sessions
    BY <2>1, RevokedRows
  <2> QED
    BY <2>1, <2>2, TypeEnded
<1> QED
  BY <1>1, <1>2, <1>3, <1>4

LEMMA TypeNext ==
    ASSUME TypeInv, [Next]_vars
    PROVE  TypeInv'
<1>1. CASE UNCHANGED vars
  BY <1>1 DEF TypeInv, TypeOK, CodesOf, vars, rowVars
<1>2. CASE TimePasses
  <2>1. /\ CodesOf("reset") \subseteq CodesOf("reset")'
        /\ CodesOf("verify") \subseteq CodesOf("verify")'
    BY <1>2, TimeRows, KindsKept
  <2>2. Names(Idle, DOMAIN sessions', CodesOf("reset")', CodesOf("verify")')
    BY IdleIsDoing, Nameless
  <2> QED
    BY <1>2, <2>1, <2>2, TimeRows, RowFacts, IdleIsDoing, TypeStep
<1>3. ASSUME NEW r \in Requests,
             \/ LoginBegin(r) \/ LoginCheck(r) \/ LoginMember(r) \/ LoginMint(r)
             \/ ChangeBegin(r) \/ ChangeCommit(r)
             \/ ResetRequestBegin(r) \/ ResetRequest(r)
             \/ ResetConfirmBegin(r) \/ ResetConfirm(r)
             \/ ResendBegin(r) \/ ResendLock(r) \/ ResendRevoke(r)
             \/ VerifyBegin(r) \/ VerifyLock(r) \/ VerifyCommit(r) \/ DeadlockVictim(r)
             \/ RevokeSessions(r) \/ StatusBegin(r) \/ MemberStatus(r)
             \/ ArchiveBegin(r) \/ ArchiveTokens(r) \/ ArchiveCommit(r)
             \/ ImpersonateBegin(r) \/ ImpersonateMint(r)
             \/ Close(r)
      PROVE  TypeInv'
  BY <1>3, TypeLoad, TypeWait, TypeLogin, TypePasswords, TypeCodes, TypeSessions
<1> QED
  BY <1>1, <1>2, <1>3 DEF Next

-----------------------------------------------------------------------------
(* How requests move                                                       *)

\* The steps that write no row.
Quiet(r) ==
    \/ LoginBegin(r) \/ ChangeBegin(r) \/ ResetRequestBegin(r) \/ ResetConfirmBegin(r)
    \/ ResendBegin(r) \/ VerifyBegin(r) \/ StatusBegin(r) \/ ImpersonateBegin(r)
    \/ ArchiveBegin(r) \/ ArchiveTokens(r)
    \/ LoginMember(r) \/ ResendLock(r) \/ DeadlockVictim(r) \/ Close(r)

LEMMA NextCases ==
    ASSUME [Next]_vars
    PROVE  \/ UNCHANGED vars
           \/ TimePasses
           \/ \E r \in Requests :
                 \/ Quiet(r) \/ LoginCheck(r) \/ LoginMint(r) \/ ChangeCommit(r)
                 \/ ResetRequest(r) \/ ResetConfirm(r) \/ ResendRevoke(r) \/ VerifyLock(r)
                 \/ VerifyCommit(r) \/ RevokeSessions(r) \/ MemberStatus(r)
                 \/ ArchiveCommit(r) \/ ImpersonateMint(r)
BY DEF Next, Quiet

LEMMA BeginMove ==
    ASSUME TypeInv, NEW r \in Requests, NEW x, Begin(r, x)
    PROVE  /\ UNCHANGED <<user, tokens, sessions, guesses>>
           /\ req[r].pc = "idle"
           /\ \A t \in Requests : req'[t] = IF t = r THEN x ELSE req[t]
BY IdleIsDoing DEF Begin, rowVars, TypeInv

LEMMA QuietMove ==
    ASSUME TypeInv, NEW r \in Requests, Quiet(r)
    PROVE  /\ UNCHANGED <<user, tokens, sessions, guesses>>
           /\ \A t \in Requests \ {r} : req'[t] = req[t]
           /\ req'[r].pc # "verify_user"
           /\ req'[r].pc = "imp_mint" => user.owner
           /\ req'[r].pc \in {"status", "archive_tokens"} => ~user.owner
           /\ req'[r].pc = "archive_tokens" =>
                 \A s \in DOMAIN sessions : sessions[s].state = "live" => s \in req'[r].found
           /\ req'[r].pc = "archive_commit" =>
                 req[r].pc = "archive_tokens" /\ req'[r].found = req[r].found
<1>1. CASE LoginBegin(r)
  BY <1>1, BeginMove DEF LoginBegin
<1>2. CASE ChangeBegin(r)
  BY <1>2, BeginMove DEF ChangeBegin
<1>3. CASE ResetRequestBegin(r)
  BY <1>3, BeginMove DEF ResetRequestBegin
<1>4. CASE ResetConfirmBegin(r)
  BY <1>4, BeginMove DEF ResetConfirmBegin
<1>5. CASE ResendBegin(r)
  BY <1>5, BeginMove DEF ResendBegin
<1>6. CASE VerifyBegin(r)
  BY <1>6, BeginMove DEF VerifyBegin
<1>7. CASE StatusBegin(r)
  BY <1>7, BeginMove DEF StatusBegin
<1>8. CASE ImpersonateBegin(r)
  BY <1>8, BeginMove DEF ImpersonateBegin
<1>9. CASE ArchiveBegin(r)
  <2> DEFINE found == {s \in DOMAIN sessions : sessions[s].state \in {"live", "lapsed"}}
  <2>1. ~user.owner /\ Begin(r, [pc |-> "archive_tokens", found |-> found])
    BY <1>9 DEF ArchiveBegin
  <2>2. \A s \in DOMAIN sessions : sessions[s].state = "live" => s \in found
    OBVIOUS
  <2> HIDE DEF found
  <2> QED
    BY <2>1, <2>2, BeginMove
<1>10. CASE ArchiveTokens(r)
  <2> DEFINE x == [pc |-> "archive_commit", found |-> req[r].found,
                   tokens |-> ActiveTokens("reset")]
  <2>1. /\ UNCHANGED <<user, tokens, sessions, guesses>> /\ req[r].pc = "archive_tokens"
        /\ req' = [req EXCEPT ![r] = x]
    BY <1>10 DEF ArchiveTokens, rowVars
  <2>2. x.pc = "archive_commit" /\ x.found = req[r].found
    OBVIOUS
  <2> HIDE DEF x
  <2> QED
    BY <2>1, <2>2 DEF TypeInv
<1>11. CASE LoginMember(r)
  <2>1. req[r] \in Doings /\ req[r].pc = "login_member"
    BY <1>11 DEF LoginMember, TypeInv
  <2>2. req[r] = [pc |-> req[r].pc, pw |-> req[r].pw]
    BY <2>1, DoingFields DEF LoginPcs
  <2>3. [req[r] EXCEPT !.pc = "login_mint"].pc = "login_mint"
    BY <2>2
  <2> DEFINE x == [req[r] EXCEPT !.pc = "login_mint"]
             y == [pc |-> "raised", user |-> FALSE, token |-> 0]
  <2>4. /\ UNCHANGED <<user, tokens, sessions, guesses>>
        /\ req' = [req EXCEPT ![r] = x] \/ req' = [req EXCEPT ![r] = y]
    BY <1>11 DEF LoginMember, Raise, rowVars
  <2>5. y.pc = "raised"
    OBVIOUS
  <2> HIDE DEF x, y
  <2>6. req'[r].pc \in {"login_mint", "raised"} /\ \A t \in Requests \ {r} : req'[t] = req[t]
    BY <2>3, <2>4, <2>5 DEF TypeInv, x
  <2> QED
    BY <2>1, <2>4, <2>6
<1>12. CASE ResendLock(r)
  BY <1>12 DEF ResendLock, Raise, rowVars, TypeInv
<1>13. CASE DeadlockVictim(r)
  BY <1>13 DEF DeadlockVictim, CrossWait, Raise, rowVars, TypeInv
<1>14. CASE Close(r)
  BY <1>14, IdleIsDoing DEF Close, rowVars, TypeInv
<1> QED
  BY <1>1, <1>2, <1>3, <1>4, <1>5, <1>6, <1>7, <1>8, <1>9, <1>10, <1>11, <1>12, <1>13,
     <1>14 DEF Quiet

LEMMA EndedMove ==
    ASSUME TypeInv, NEW r \in Requests, Ended(r)
    PROVE  /\ req'[r].pc \in {"done", "raised"}
           /\ \A t \in Requests \ {r} : req'[t] = req[t]
BY EndedState DEF TypeInv

-----------------------------------------------------------------------------
(* Owners                                                                  *)

LEMMA OwnerNext ==
    ASSUME TypeInv, OwnerInv, [Next]_vars
    PROVE  OwnerInv'
<1> DEFINE Kept == user'.owner = user.owner /\ user'.active = user.active
           Still == \A t \in Requests :
                       \/ req'[t] = req[t]
                       \/ req'[t].pc \notin {"imp_mint", "status"} \cup ArchivePcs
<1>1. ASSUME Kept, Still
      PROVE  OwnerInv'
  BY <1>1 DEF OwnerInv
<1>2. CASE UNCHANGED vars
  BY <1>2, <1>1 DEF vars, rowVars
<1>3. CASE TimePasses
  BY <1>3, <1>1, TimeRows
<1>4. ASSUME NEW r \in Requests, Quiet(r)
      PROVE  OwnerInv'
  BY <1>4, QuietMove DEF OwnerInv, ArchivePcs
<1>5. ASSUME NEW r \in Requests, LoginCheck(r)
      PROVE  OwnerInv'
  <2>1. Kept /\ (Ended(r) \/ req' = [req EXCEPT ![r] = [pc |-> "login_member",
                                                        pw |-> req[r].pw]])
    BY <1>5, LoginCheckRows DEF Ended
  <2>2. Still
    BY <2>1, EndedMove DEF TypeInv, ArchivePcs
  <2> QED
    BY <1>1, <2>1, <2>2
<1>6. ASSUME NEW r \in Requests, VerifyLock(r) \/ VerifyCommit(r)
      PROVE  OwnerInv'
  <2>1. Kept /\ (Ended(r) \/ req' = [req EXCEPT ![r] = [pc |-> "verify_user",
                                                        token |-> req[r].token]])
    BY <1>6, VerifyRows
  <2>2. Still
    BY <2>1, EndedMove DEF TypeInv, ArchivePcs
  <2> QED
    BY <1>1, <2>1, <2>2
<1>7. ASSUME NEW r \in Requests,
             \/ ChangeCommit(r) \/ ResetRequest(r) \/ ResetConfirm(r) \/ ResendRevoke(r)
             \/ RevokeSessions(r) \/ LoginMint(r) \/ ImpersonateMint(r)
      PROVE  OwnerInv'
  <2>1. Kept /\ Ended(r)
    BY <1>7, ChangeRows, ResetConfirmRows, RevokeRows, MintRows
    DEF ResetRequest, ResendRevoke, Ended
  <2>2. Still
    BY <2>1, EndedMove DEF ArchivePcs
  <2> QED
    BY <1>1, <2>1, <2>2
<1>8. ASSUME NEW r \in Requests, MemberStatus(r) \/ ArchiveCommit(r)
       PROVE  OwnerInv'
  <2>1. Ended(r) /\ req[r].pc \in {"status", "archive_commit"} /\ user'.owner = user.owner
    BY <1>8, StatusRows, ArchiveRows
  <2>2. ~user.owner
    BY <2>1 DEF OwnerInv, ArchivePcs
  <2>3. Still
    BY <2>1, EndedMove DEF ArchivePcs
  <2> QED
    BY <2>1, <2>2, <2>3 DEF OwnerInv
<1> QED
  BY <1>2, <1>3, <1>4, <1>5, <1>6, <1>7, <1>8, NextCases

-----------------------------------------------------------------------------
(* The lockout                                                             *)

LEMMA LockoutNext ==
    ASSUME TypeInv, LockoutHolds, [Next]_vars
    PROVE  LockoutHolds'
<1>1. user.failed \in Nat /\ guesses \in Nat /\ Threshold \in Nat /\ Threshold > 0
  BY RowFacts, ThresholdAssumption DEF Users
<1>2. ASSUME UNCHANGED guesses, user'.failed = user.failed,
             user'.locked = user.locked \/ user'.locked = "over"
      PROVE  LockoutHolds'
  BY <1>2 DEF LockoutHolds
<1>3. ASSUME guesses' = 0, user'.failed \in Nat
      PROVE  LockoutHolds'
  BY <1>1, <1>3 DEF LockoutHolds
<1>4. CASE UNCHANGED <<user, guesses>>
  BY <1>4, <1>2
<1>5. CASE TimePasses
  BY <1>5, <1>2, TimeRows
<1>6. ASSUME NEW r \in Requests, LoginCheck(r)
      PROVE  LockoutHolds'
  <2>1. CASE LoginRefused(r)
    <3> DEFINE base == IF user.locked = "over" THEN 0 ELSE user.failed
               failed == base + 1
               locked == IF failed >= Threshold THEN "running" ELSE "no"
    <3>1. user' = [user EXCEPT !.failed = failed, !.locked = locked]
      BY <2>1 DEF LoginRefused
    <3>2. user'.failed = failed /\ user'.locked = locked
      BY <3>1, RowFacts DEF Users
    <3>3. guesses' = IF user.locked = "over" THEN 1 ELSE guesses + 1
      BY <2>1 DEF LoginRefused
    <3>4. guesses' <= failed
      BY <1>1, <3>3 DEF LockoutHolds
    <3>5. guesses' \in Nat /\ failed \in Nat
      BY <1>1, <3>3
    <3>6. guesses' >= Threshold => user'.locked # "no"
      BY <1>1, <3>2, <3>4, <3>5
    <3> QED
      BY <3>2, <3>4, <3>5, <3>6 DEF LockoutHolds
  <2>2. CASE LoginAccepted(r)
    <3>1. guesses' = 0 /\ user' \in Users
      BY <1>6, <2>2, LoginCheckRows DEF LoginAccepted
    <3> QED
      BY <3>1, <1>3 DEF Users
  <2> QED
    BY <1>6, <2>1, <2>2, <1>4, LoginCheckRows
<1>7. ASSUME NEW r \in Requests, ChangeCommit(r) \/ ResetConfirm(r)
      PROVE  LockoutHolds'
  <2>1. UNCHANGED <<user, guesses>> \/ (guesses' = 0 /\ user' \in Users)
    BY <1>7, ChangeRows, ResetConfirmRows
  <2> QED
    BY <2>1, <1>3, <1>4 DEF Users
<1>8. ASSUME NEW r \in Requests, VerifyLock(r) \/ VerifyCommit(r) \/ MemberStatus(r)
                                \/ ArchiveCommit(r)
      PROVE  LockoutHolds'
  BY <1>8, <1>2, VerifyRows, StatusRows, ArchiveRows
<1>9. ASSUME NEW r \in Requests,
             \/ Quiet(r) \/ LoginMint(r) \/ ResetRequest(r) \/ ResendRevoke(r)
             \/ RevokeSessions(r) \/ ImpersonateMint(r)
      PROVE  UNCHANGED <<user, guesses>>
  BY <1>9, QuietMove, MintRows, RevokeRows
  DEF ResetRequest, ResendRevoke
<1>10. UNCHANGED vars => UNCHANGED <<user, guesses>>
  BY DEF vars, rowVars
<1> QED
  BY <1>4, <1>5, <1>6, <1>7, <1>8, <1>9, <1>10, NextCases

-----------------------------------------------------------------------------
(* Sessions and their grounds                                              *)

LEMMA ArchiveNext ==
    ASSUME TypeInv, OwnerInv, ArchiveInv, [Next]_vars
    PROVE  ArchiveInv'
<1> DEFINE Waits == \A t \in Requests : req'[t] = req[t] \/ req'[t].pc \notin ArchivePcs
           \* No session becomes live or stops being late.
           Fewer == /\ DOMAIN sessions' = DOMAIN sessions
                    /\ \A s \in DOMAIN sessions :
                          sessions'[s].state = "live" =>
                              sessions[s].state = "live" /\ sessions'[s].late = sessions[s].late
<1>1. ASSUME Waits, Fewer
      PROVE  ArchiveInv'
  BY <1>1 DEF ArchiveInv
<1>2. ASSUME NEW r \in Requests, Ended(r)
      PROVE  Waits
  BY <1>2, EndedMove DEF ArchivePcs
<1>3. ASSUME NEW others, sessions' = Revoked(others)
      PROVE  Fewer
  BY <1>3, RevokedRows
<1>4. CASE UNCHANGED vars
  BY <1>4, <1>1 DEF vars, rowVars
<1>5. CASE TimePasses
  <2>1. Fewer
    BY <1>5, TimeRows
  <2>2. Waits
    BY <1>5, TimeRows
  <2> QED
    BY <1>1, <2>1, <2>2
<1>6. ASSUME NEW r \in Requests, Quiet(r)
      PROVE  ArchiveInv'
  BY <1>6, QuietMove DEF ArchiveInv, ArchivePcs
<1>7. ASSUME NEW r \in Requests, LoginMint(r) \/ ImpersonateMint(r)
      PROVE  ArchiveInv'
  <2>1. PICK e \in AuthSessions :
           /\ sessions' = Append(sessions, e)
           /\ \/ e.late = (e.pw # user.pw \/ ~user.active \/ Archiving)
              \/ req[r].pc = "imp_mint"
    BY <1>7, MintRows
  <2>2. Waits
    BY <1>2, <1>7, MintRows
  <2>3. ASSUME NEW t \in Requests, req[t].pc \in ArchivePcs
        PROVE  e.late
    BY <2>1, <2>3 DEF Archiving, ArchivePcs, OwnerInv
  <2>4. /\ DOMAIN sessions' = DOMAIN sessions \cup {Len(sessions) + 1}
        /\ \A s \in DOMAIN sessions : sessions'[s] = sessions[s]
        /\ sessions'[Len(sessions) + 1] = e
    BY <2>1, RowFacts, AppendRow
  <2> QED
    BY <2>2, <2>3, <2>4 DEF ArchiveInv
<1>8. ASSUME NEW r \in Requests, LoginCheck(r) \/ VerifyLock(r) \/ VerifyCommit(r)
      PROVE  ArchiveInv'
  <2>1. /\ UNCHANGED sessions
        /\ \/ Ended(r)
           \/ req' = [req EXCEPT ![r] = [pc |-> "login_member", pw |-> req[r].pw]]
           \/ req' = [req EXCEPT ![r] = [pc |-> "verify_user", token |-> req[r].token]]
    BY <1>8, LoginCheckRows, VerifyRows DEF Ended
  <2>2. Waits
    BY <2>1, EndedMove DEF TypeInv, ArchivePcs
  <2> QED
    BY <1>1, <2>1, <2>2
<1>9. ASSUME NEW r \in Requests, ChangeCommit(r)
      PROVE  ArchiveInv'
  <2>1. Fewer /\ Ended(r)
    BY <1>9, ChangeRows
  <2> QED
    BY <1>1, <1>2, <2>1
<1>10. ASSUME NEW r \in Requests,
              \/ ResetRequest(r) \/ ResetConfirm(r) \/ ResendRevoke(r)
              \/ RevokeSessions(r) \/ MemberStatus(r) \/ ArchiveCommit(r)
       PROVE  ArchiveInv'
  <2>1. Ended(r) /\ (UNCHANGED sessions \/ \E others : sessions' = Revoked(others))
    BY <1>10, ResetConfirmRows, RevokeRows, StatusRows, ArchiveRows
    DEF ResetRequest, ResendRevoke, Ended
  <2> QED
    BY <1>1, <1>2, <1>3, <2>1
<1> QED
  BY <1>4, <1>5, <1>6, <1>7, <1>8, <1>9, <1>10, NextCases

LEMMA GroundsNext ==
    ASSUME TypeInv, OwnerInv, ArchiveInv, SessionsEndWithTheirGrounds, [Next]_vars
    PROVE  SessionsEndWithTheirGrounds'
<1> DEFINE Kept == user'.pw = user.pw /\ (user.active => user'.active)
           \* No session becomes live, changes its password or stops being late.
           Fewer == /\ DOMAIN sessions' = DOMAIN sessions
                    /\ \A s \in DOMAIN sessions :
                          sessions'[s].state = "live" =>
                              /\ sessions[s].state = "live"
                              /\ sessions'[s].late = sessions[s].late
                              /\ sessions'[s].pw = sessions[s].pw
<1>1. ASSUME Kept, Fewer
      PROVE  SessionsEndWithTheirGrounds'
  BY <1>1 DEF SessionsEndWithTheirGrounds
<1>2. ASSUME sessions' = Revoked(DOMAIN sessions)
      PROVE  SessionsEndWithTheirGrounds'
  BY <1>2, RevokedRows DEF SessionsEndWithTheirGrounds
<1>3. CASE TimePasses
  <2>1. Fewer
    BY <1>3, TimeRows
  <2>2. Kept
    BY <1>3, TimeRows
  <2> QED
    BY <1>1, <2>1, <2>2
<1>4. ASSUME NEW r \in Requests, LoginMint(r) \/ ImpersonateMint(r)
      PROVE  SessionsEndWithTheirGrounds'
  <2>1. PICK e \in AuthSessions :
           /\ sessions' = Append(sessions, e) /\ UNCHANGED user
           /\ \/ e.late = (e.pw # user.pw \/ ~user.active \/ Archiving)
              \/ req[r].pc = "imp_mint" /\ e.pw = user.pw
    BY <1>4, MintRows
  <2>2. ~e.late => user.active /\ e.pw = user.pw
    BY <2>1 DEF OwnerInv
  <2>3. /\ DOMAIN sessions' = DOMAIN sessions \cup {Len(sessions) + 1}
        /\ \A s \in DOMAIN sessions : sessions'[s] = sessions[s]
        /\ sessions'[Len(sessions) + 1] = e
    BY <2>1, RowFacts, AppendRow
  <2> QED
    BY <2>1, <2>2, <2>3 DEF SessionsEndWithTheirGrounds
<1>5. ASSUME NEW r \in Requests, ChangeCommit(r)
      PROVE  SessionsEndWithTheirGrounds'
  <2>1. CASE UNCHANGED <<user, sessions>>
    BY <2>1, <1>1
  <2>2. CASE ~UNCHANGED <<user, sessions>>
    <3> DEFINE i == req[r].session
               p == req[r].new
    <3>1. /\ user'.active = user.active /\ user'.pw = p
          /\ DOMAIN sessions' = DOMAIN sessions
          /\ \A s \in DOMAIN sessions :
                /\ sessions'[s].late = sessions[s].late
                /\ sessions'[s].state = "live" =>
                      sessions[s].state = "live" /\ sessions'[s].pw = p
      BY <1>5, <2>2, ChangeRows
    <3> HIDE DEF p
    <3> QED
      BY <3>1 DEF SessionsEndWithTheirGrounds
  <2> QED
    BY <2>1, <2>2
<1>6. ASSUME NEW r \in Requests, ResetConfirm(r)
      PROVE  SessionsEndWithTheirGrounds'
  BY <1>6, <1>1, <1>2, ResetConfirmRows
<1>7. ASSUME NEW r \in Requests, MemberStatus(r)
      PROVE  SessionsEndWithTheirGrounds'
  <2>1. \/ Kept /\ UNCHANGED sessions
        \/ sessions' = Revoked(DOMAIN sessions)
    BY <1>7, StatusRows
  <2> QED
    BY <1>1, <1>2, <2>1
<1>8. ASSUME NEW r \in Requests, RevokeSessions(r)
      PROVE  SessionsEndWithTheirGrounds'
  <2>1. PICK others : sessions' = Revoked(others) /\ UNCHANGED user
    BY <1>8, RevokeRows
  <2>2. Fewer
    BY <2>1, RevokedRows
  <2> QED
    BY <1>1, <2>1, <2>2
<1>9. ASSUME NEW r \in Requests, ArchiveCommit(r)
      PROVE  SessionsEndWithTheirGrounds'
  <2>1. sessions' = Revoked(req[r].found) /\ req[r].pc \in ArchivePcs
    BY <1>9, ArchiveRows DEF ArchivePcs
  <2>2. \A s \in DOMAIN sessions' : sessions'[s].state = "live" => sessions'[s].late
    BY <2>1, RevokedRows DEF ArchiveInv
  <2> QED
    BY <2>2 DEF SessionsEndWithTheirGrounds
<1>10. ASSUME NEW r \in Requests,
              \/ Quiet(r) \/ LoginCheck(r) \/ ResetRequest(r) \/ ResendRevoke(r)
              \/ VerifyLock(r) \/ VerifyCommit(r)
       PROVE  SessionsEndWithTheirGrounds'
  <2>1. UNCHANGED sessions /\ user'.pw = user.pw /\ user'.active = user.active
    BY <1>10, QuietMove, LoginCheckRows, VerifyRows DEF ResetRequest, ResendRevoke
  <2> QED
    BY <1>1, <2>1
<1>11. CASE UNCHANGED vars
  BY <1>11, <1>1 DEF vars, rowVars
<1> QED
  BY <1>3, <1>4, <1>5, <1>6, <1>7, <1>8, <1>9, <1>10, <1>11, NextCases

-----------------------------------------------------------------------------
(* Codes                                                                   *)

\* No code is added, and none becomes active again.
LEMMA CodesFewer ==
    ASSUME TypeInv, CodeInv, DOMAIN tokens' = DOMAIN tokens,
           \A t \in DOMAIN tokens :
              /\ tokens'[t].kind = tokens[t].kind
              /\ tokens'[t].status = "active" => tokens[t].status = "active"
              /\ tokens[t].kind = "verify" => tokens'[t].uses = tokens[t].uses,
           \A q \in Requests : req'[q].pc = "verify_user" =>
              req'[q] = req[q] /\ tokens'[req[q].token].status = "active"
    PROVE  CodeInv'
BY DEF CodeInv

\* A new code replaces the active one of its kind, which no request is about to grant.
LEMMA CodesReplaced ==
    ASSUME TypeInv, CodeInv, NEW kind \in Kinds, tokens' = TokenReplaced(kind),
           \A q \in Requests : req'[q].pc = "verify_user" =>
              req'[q] = req[q] /\ tokens[req[q].token].kind # kind
    PROVE  CodeInv'
<1> DEFINE n == Len(tokens) + 1
<1>1. /\ DOMAIN tokens' = DOMAIN tokens \cup {n} /\ n \notin DOMAIN tokens
      /\ \A t \in DOMAIN tokens :
            /\ tokens'[t].kind = tokens[t].kind /\ tokens'[t].uses = tokens[t].uses
            /\ tokens[t].kind = kind => tokens'[t].status # "active"
            /\ tokens[t].kind # kind => tokens'[t] = tokens[t]
            /\ tokens'[t].status = "active" => tokens[t].status = "active"
      /\ tokens'[n].kind = kind /\ tokens'[n].uses = 0 /\ tokens'[n].status = "active"
  <2> DEFINE e == [kind |-> kind, status |-> "active", lapsed |-> FALSE, uses |-> 0]
  <2>1. e.kind = kind /\ e.uses = 0 /\ e.status = "active"
    OBVIOUS
  <2> HIDE DEF e
  <2>2. tokens'[n] = e
    BY TokenReplacedRows DEF e
  <2>3. /\ DOMAIN tokens' = DOMAIN tokens \cup {n} /\ n \notin DOMAIN tokens
        /\ \A t \in DOMAIN tokens :
              /\ tokens'[t].kind = tokens[t].kind /\ tokens'[t].uses = tokens[t].uses
              /\ tokens[t].kind = kind => tokens'[t].status # "active"
              /\ tokens[t].kind # kind => tokens'[t] = tokens[t]
              /\ tokens'[t].status = "active" => tokens[t].status = "active"
    BY TokenReplacedRows
  <2> QED
    BY <2>1, <2>2, <2>3
<1> HIDE DEF n
<1>2. \A t, u \in DOMAIN tokens' :
         /\ tokens'[t].kind = tokens'[u].kind
         /\ tokens'[t].status = "active" /\ tokens'[u].status = "active"
         => t = u
  BY <1>1 DEF CodeInv
<1>3. \A t \in DOMAIN tokens' :
         tokens'[t].kind = "verify" =>
            tokens'[t].uses <= 1 /\ (tokens'[t].status = "active" => tokens'[t].uses = 0)
  BY <1>1 DEF CodeInv
<1>4. \A q \in Requests, t \in DOMAIN tokens' :
         req'[q].pc = "verify_user" /\ req'[q].token = t =>
            /\ tokens'[t].status = "active"
            /\ \A p \in Requests : req'[p].pc = "verify_user" /\ req'[p].token = t => p = q
  <2> SUFFICES ASSUME NEW q \in Requests, NEW t \in DOMAIN tokens',
                      req'[q].pc = "verify_user", req'[q].token = t
               PROVE  /\ tokens'[t].status = "active"
                      /\ \A p \in Requests :
                            req'[p].pc = "verify_user" /\ req'[p].token = t => p = q
    OBVIOUS
  <2>1. req'[q] = req[q] /\ t \in DOMAIN tokens /\ tokens[t].kind # kind
    BY DEF TypeInv, Names, CodesOf
  <2> QED
    BY <1>1, <2>1 DEF CodeInv
<1> QED
  BY <1>2, <1>3, <1>4 DEF CodeInv

\* The codes that requests are about to grant are verification codes.
LEMMA GrantedKind ==
    ASSUME TypeInv, NEW q \in Requests, req[q].pc = "verify_user"
    PROVE  req[q].token \in DOMAIN tokens /\ tokens[req[q].token].kind = "verify"
BY DEF TypeInv, Names, CodesOf

LEMMA CodesVerified ==
    ASSUME TypeInv, CodeInv, NEW r \in Requests, VerifyLock(r) \/ VerifyCommit(r)
    PROVE  CodeInv'
<1> DEFINE i == req[r].token
           x == [pc |-> "verify_user", token |-> i]
<1>1. /\ i \in DOMAIN tokens /\ tokens[i].kind = "verify" /\ i \in Nat
      /\ req[r].pc = "verify_lock" => TokenFree(r, i)
      /\ \/ /\ req[r].pc = "verify_lock" /\ Ended(r)
            /\ tokens' = tokens \/ tokens' = [tokens EXCEPT ![i].status = "expired"]
         \/ /\ req[r].pc = "verify_lock" /\ tokens' = tokens
            /\ tokens[i].status = "active" /\ req' = [req EXCEPT ![r] = x]
         \/ req[r].pc = "verify_user" /\ Ended(r) /\ tokens' = TokenUsed(i)
  BY VerifyRows
  \* Nobody else is about to grant this code.
<1>2. \A q \in Requests \ {r} : ~(req[q].pc = "verify_user" /\ req[q].token = i)
  <2>1. CASE req[r].pc = "verify_lock"
    BY <1>1, <2>1 DEF TokenFree, HoldsToken
  <2>2. CASE req[r].pc = "verify_user"
    BY <1>1, <2>2 DEF CodeInv
  <2> QED
    BY <1>1, <2>1, <2>2
<1>3. CASE Ended(r) /\ tokens' = tokens
  <2>1. \A q \in Requests : req'[q].pc = "verify_user" =>
           req'[q] = req[q] /\ tokens[req[q].token].status = "active"
    BY <1>3, EndedMove, GrantedKind DEF CodeInv
  <2> QED
    BY <1>3, <2>1, CodesFewer
<1>4. CASE Ended(r) /\ tokens' = [tokens EXCEPT ![i].status = "expired"]
  <2>1. /\ DOMAIN tokens' = DOMAIN tokens
        /\ tokens'[i].kind = tokens[i].kind /\ tokens'[i].uses = tokens[i].uses
        /\ tokens'[i].status = "expired"
        /\ \A t \in DOMAIN tokens : t # i => tokens'[t] = tokens[t]
    BY <1>1, <1>4, ExpiredRows
  <2>2. \A q \in Requests : req'[q].pc = "verify_user" =>
           req'[q] = req[q] /\ tokens'[req[q].token].status = "active"
    <3> SUFFICES ASSUME NEW q \in Requests, req'[q].pc = "verify_user"
                 PROVE  req'[q] = req[q] /\ tokens'[req[q].token].status = "active"
      OBVIOUS
    <3>1. q # r /\ req'[q] = req[q]
      BY <1>4, EndedMove
    <3>2. /\ req[q].token \in DOMAIN tokens /\ req[q].token # i
          /\ tokens[req[q].token].status = "active"
      BY <3>1, <1>2, GrantedKind DEF CodeInv
    <3> QED
      BY <2>1, <3>1, <3>2
  <2> QED
    BY <2>1, <2>2, CodesFewer
<1>5. CASE /\ req[r].pc = "verify_lock" /\ tokens' = tokens
           /\ tokens[i].status = "active" /\ req' = [req EXCEPT ![r] = x]
  <2>1. x.pc = "verify_user" /\ x.token = i
    OBVIOUS
  <2> HIDE DEF x, i
  <2>2. req'[r] = x /\ \A q \in Requests \ {r} : req'[q] = req[q]
    BY <1>5 DEF TypeInv
  <2> QED
    BY <1>2, <1>5, <2>1, <2>2 DEF CodeInv
<1>6. CASE req[r].pc = "verify_user" /\ Ended(r) /\ tokens' = TokenUsed(i)
  <2>1. tokens[i].status = "active" /\ tokens[i].uses = 0
    BY <1>1, <1>6 DEF CodeInv
  <2>2. /\ DOMAIN tokens' = DOMAIN tokens
        /\ tokens'[i].kind = tokens[i].kind /\ tokens'[i].status = "used"
        /\ tokens'[i].uses = 1
        /\ \A t \in DOMAIN tokens : t # i => tokens'[t] = tokens[t]
    BY <1>1, <1>6, <2>1, TokenUsedRows
  <2>3. \A q \in Requests : req'[q].pc = "verify_user" =>
           /\ q # r /\ req'[q] = req[q]
           /\ req[q].token \in DOMAIN tokens /\ req[q].token # i
    BY <1>2, <1>6, EndedMove, GrantedKind
  <2> HIDE DEF i
  <2>4. \A t, u \in DOMAIN tokens' :
           /\ tokens'[t].kind = tokens'[u].kind
           /\ tokens'[t].status = "active" /\ tokens'[u].status = "active"
           => t = u
    BY <2>2 DEF CodeInv
  <2>5. \A t \in DOMAIN tokens' :
           tokens'[t].kind = "verify" =>
              tokens'[t].uses <= 1 /\ (tokens'[t].status = "active" => tokens'[t].uses = 0)
    BY <2>2 DEF CodeInv
  <2>6. \A q \in Requests, t \in DOMAIN tokens' :
           req'[q].pc = "verify_user" /\ req'[q].token = t =>
              /\ tokens'[t].status = "active"
              /\ \A p \in Requests : req'[p].pc = "verify_user" /\ req'[p].token = t => p = q
    BY <2>2, <2>3 DEF CodeInv
  <2> QED
    BY <2>4, <2>5, <2>6 DEF CodeInv
<1> QED
  BY <1>1, <1>3, <1>4, <1>5, <1>6

LEMMA CodeNext ==
    ASSUME TypeInv, CodeInv, [Next]_vars
    PROVE  CodeInv'
<1> DEFINE Waits == \A q \in Requests : req'[q].pc = "verify_user" => req'[q] = req[q]
  \* Where codes do not change, and where the reset codes are revoked.
<1>1. ASSUME Waits, UNCHANGED tokens
      PROVE  CodeInv'
  <2>1. \A q \in Requests : req'[q].pc = "verify_user" =>
           req'[q] = req[q] /\ tokens'[req[q].token].status = "active"
    BY <1>1, GrantedKind DEF CodeInv
  <2> QED
    BY <1>1, <2>1, CodesFewer
<1>2. ASSUME Waits,
             /\ DOMAIN tokens' = DOMAIN tokens
             /\ \A t \in DOMAIN tokens :
                   /\ tokens'[t].kind = tokens[t].kind /\ tokens'[t].uses = tokens[t].uses
                   /\ tokens[t].kind # "reset" => tokens'[t] = tokens[t]
                   /\ tokens'[t].status = "active" => tokens[t].status = "active"
      PROVE  CodeInv'
  <2>1. \A q \in Requests : req'[q].pc = "verify_user" =>
           req'[q] = req[q] /\ tokens'[req[q].token].status = "active"
    BY <1>2, GrantedKind DEF CodeInv
  <2> QED
    BY <1>2, <2>1, CodesFewer
<1>3. ASSUME NEW r \in Requests, Ended(r)
      PROVE  Waits
  BY <1>3, EndedMove
<1>4. CASE UNCHANGED vars
  BY <1>4, <1>1 DEF vars, rowVars
<1>5. CASE TimePasses
  <2>1. /\ UNCHANGED req /\ DOMAIN tokens' = DOMAIN tokens
        /\ \A t \in DOMAIN tokens : /\ tokens'[t].kind = tokens[t].kind
                                    /\ tokens'[t].status = tokens[t].status
                                    /\ tokens'[t].uses = tokens[t].uses
    BY <1>5, TimeRows
  <2>2. \A q \in Requests : req'[q].pc = "verify_user" =>
           req'[q] = req[q] /\ tokens'[req[q].token].status = "active"
    BY <2>1, GrantedKind DEF CodeInv
  <2> QED
    BY <2>1, <2>2, CodesFewer
<1>6. ASSUME NEW r \in Requests, Quiet(r)
      PROVE  CodeInv'
  <2>1. Waits /\ UNCHANGED tokens
    BY <1>6, QuietMove
  <2> QED
    BY <1>1, <2>1
<1>7. ASSUME NEW r \in Requests, LoginCheck(r)
      PROVE  CodeInv'
  <2>1. /\ UNCHANGED tokens
        /\ Ended(r) \/ req' = [req EXCEPT ![r] = [pc |-> "login_member", pw |-> req[r].pw]]
    BY <1>7, LoginCheckRows DEF Ended
  <2>2. Waits
    BY <2>1, <1>3 DEF TypeInv
  <2> QED
    BY <1>1, <2>1, <2>2
<1>8. ASSUME NEW r \in Requests, LoginMint(r) \/ ImpersonateMint(r)
      PROVE  CodeInv'
  BY <1>8, <1>1, <1>3, MintRows
<1>9. ASSUME NEW r \in Requests, ArchiveCommit(r)
      PROVE  CodeInv'
  BY <1>9, <1>2, <1>3, ArchiveRows
<1>10. ASSUME NEW r \in Requests,
              ChangeCommit(r) \/ MemberStatus(r) \/ RevokeSessions(r)
       PROVE  CodeInv'
  <2>1. Ended(r) /\ (UNCHANGED tokens \/ tokens' = TokensRevoked("reset"))
    BY <1>10, ChangeRows, StatusRows, RevokeRows
  <2> QED
    BY <1>1, <1>2, <1>3, <2>1, TokensRevokedRows
<1>11. ASSUME NEW r \in Requests, ResetRequest(r)
       PROVE  CodeInv'
  <2>1. Ended(r) /\ (UNCHANGED tokens \/ tokens' = TokenReplaced("reset"))
    BY <1>11 DEF ResetRequest, Ended
  <2>2. CASE tokens' = TokenReplaced("reset")
    <3>1. \A q \in Requests : req'[q].pc = "verify_user" =>
             req'[q] = req[q] /\ tokens[req[q].token].kind # "reset"
      BY <2>1, <1>3, GrantedKind
    <3> QED
      BY <2>2, <3>1, CodesReplaced DEF Kinds
  <2> QED
    BY <1>1, <1>3, <2>1, <2>2
<1>12. ASSUME NEW r \in Requests, ResetConfirm(r)
       PROVE  CodeInv'
  <2> DEFINE i == req[r].token
  <2>1. /\ i \in DOMAIN tokens /\ tokens[i].kind = "reset" /\ Ended(r)
        /\ \/ tokens' = tokens \/ tokens' = TokenUsed(i)
           \/ tokens' = [tokens EXCEPT ![i].status = "expired"]
    BY <1>12, ResetConfirmRows
  <2>2. CASE tokens' = TokenUsed(i) \/ tokens' = [tokens EXCEPT ![i].status = "expired"]
    <3>1. /\ DOMAIN tokens' = DOMAIN tokens
          /\ tokens'[i].kind = "reset" /\ tokens'[i].status # "active"
          /\ \A t \in DOMAIN tokens : t # i => tokens'[t] = tokens[t]
      <4>1. CASE tokens' = TokenUsed(i)
        BY <2>1, <4>1, TokenUsedRows
      <4>2. CASE tokens' = [tokens EXCEPT ![i].status = "expired"]
        BY <2>1, <4>2, ExpiredRows
      <4> QED
        BY <2>2, <4>1, <4>2
    <3>2. \A q \in Requests : req'[q].pc = "verify_user" =>
             req'[q] = req[q] /\ tokens'[req[q].token].status = "active"
      BY <2>1, <3>1, <1>3, GrantedKind DEF CodeInv
    <3> HIDE DEF i
    <3> QED
      BY <2>1, <3>1, <3>2, CodesFewer
  <2> QED
    BY <1>1, <1>3, <2>1, <2>2
<1>13. ASSUME NEW r \in Requests, ResendRevoke(r)
       PROVE  CodeInv'
  <2>1. /\ Ended(r) /\ tokens' = TokenReplaced("verify") /\ req[r].pc = "resend_revoke"
        /\ \A t \in DOMAIN tokens :
              tokens[t].kind = "verify" /\ tokens[t].status = "active" => TokenFree(r, t)
    BY <1>13 DEF ResendRevoke, Ended, ActiveFree, ActiveTokens
  <2>2. \A q \in Requests : req[q].pc # "verify_user"
    BY <2>1, GrantedKind DEF CodeInv, TokenFree, HoldsToken
  <2>3. \A q \in Requests : req'[q].pc # "verify_user"
    BY <2>1, <2>2, EndedMove
  <2> QED
    BY <2>1, <2>3, CodesReplaced DEF Kinds
<1>14. ASSUME NEW r \in Requests, VerifyLock(r) \/ VerifyCommit(r)
       PROVE  CodeInv'
  BY <1>14, CodesVerified
<1> QED
  BY <1>4, <1>5, <1>6, <1>7, <1>8, <1>9, <1>10, <1>11, <1>12, <1>13, <1>14, NextCases

-----------------------------------------------------------------------------
LEMMA InvInit == Init => IInv
<1> SUFFICES ASSUME Init
             PROVE  IInv
  OBVIOUS
<1>1. /\ tokens = <<>> /\ sessions = <<>> /\ guesses = 0
      /\ req = [r \in Requests |-> Idle]
      /\ user \in [owner : BOOLEAN, pw : Passwords, active : {TRUE}, archived : {FALSE},
                   failed : {0}, locked : {"no"}, verified : BOOLEAN]
  BY DEF Init
<1>2. user \in Users /\ user.active /\ user.failed = 0
  <2>1. /\ {TRUE} \subseteq BOOLEAN /\ {FALSE} \subseteq BOOLEAN /\ {0} \subseteq Nat
        /\ {"no"} \subseteq Lockouts
    BY DEF Lockouts
  <2>2. user \in Users
    BY <1>1, <2>1 DEF Users
  <2>3. user.failed = 0
    BY <1>1
  <2>4. user.active = TRUE
    BY <1>1
  <2> QED
    BY <2>2, <2>3, <2>4
<1>3. TypeInv
  BY <1>1, <1>2, IdleIsDoing, Nameless DEF TypeInv, TypeOK
<1>4. OwnerInv /\ ArchiveInv /\ CodeInv
  BY <1>1, <1>2, IdleIsDoing DEF OwnerInv, ArchiveInv, ArchivePcs, CodeInv
<1>5. LockoutHolds
  BY <1>1, <1>2, ThresholdAssumption DEF LockoutHolds
<1>6. SessionsEndWithTheirGrounds
  BY <1>1 DEF SessionsEndWithTheirGrounds
<1> QED
  BY <1>3, <1>4, <1>5, <1>6 DEF IInv

THEOREM Invariance == Spec => []IInv
<1>1. IInv /\ [Next]_vars => IInv'
  BY TypeNext, OwnerNext, ArchiveNext, CodeNext, LockoutNext, GroundsNext DEF IInv
<1> QED
  BY <1>1, InvInit, PTL DEF Spec

\* The rows of the member, the codes and the sessions keep their types.
THEOREM TypeCorrect == Spec => []TypeOK
<1>1. IInv => TypeOK
  BY DEF IInv, TypeInv
<1> QED
  BY <1>1, Invariance, PTL

\* A member has at most one active code of each kind and a verification code is granted
\* once, however many requests send, confirm and replace codes at once.
THEOREM CodesUnderControlTheorem == Spec => []CodesUnderControl
<1>1. IInv => CodesUnderControl
  BY DEF IInv, CodeInv, CodesUnderControl
<1> QED
  BY <1>1, Invariance, PTL

\* No wrong guess is lost, whatever runs beside it, for any threshold.
THEOREM LockoutHoldsTheorem == Spec => []LockoutHolds
<1>1. IInv => LockoutHolds
  BY DEF IInv
<1> QED
  BY <1>1, Invariance, PTL

\* A session ends with the password that opened it and with the member's suspension or
\* archive, whatever runs beside it, but for those whose login overlapped the change.
THEOREM SessionsEndWithTheirGroundsTheorem == Spec => []SessionsEndWithTheirGrounds
<1>1. IInv => SessionsEndWithTheirGrounds
  BY DEF IInv
<1> QED
  BY <1>1, Invariance, PTL

-----------------------------------------------------------------------------
(* Visits of support: what is on record of them                            *)

OnVisit == {"tag", "start_event", "answer", "revoke", "remint", "end_event"}
Working ==
    [pc : {"sweep", "list", "start"} \cup OnVisit, op : {"list", "start", "end"},
     found : SUBSET Nat, visit : Nat]

SupportTypeOK ==
    /\ visits \in Seq(Visits)
    /\ tab \in [Tabs -> {AtRest} \cup Working]

\* A request works on visits there are; one that starts a visit knows it tagged
\* before it records the start, and its start recorded before it hands it over.
Knows(t, vs) ==
    t # AtRest =>
        /\ t.found \subseteq DOMAIN vs
        /\ t.pc = "sweep" => t.op \in {"list", "start"}
        /\ t.pc \in OnVisit => t.visit \in DOMAIN vs
        /\ t.pc \in {"start_event", "answer"} => vs[t.visit].tagged
        /\ t.pc = "answer" => vs[t.visit].log["started"] > 0

SupportInv ==
    /\ SupportTypeOK
    /\ \A b \in Tabs : Knows(tab[b], visits)
    /\ ImpersonationOnRecord

\* The two halves of ImpersonationOnRecord, of one visit.
StartKnown(x) == x.held => x.tagged /\ x.log["started"] > 0
EndUnknown(x) ==
    x.revoked /\ x.log["ended"] + x.log["expired"] = 0 /\ ~x.elsewhere /\ ~x.cut

LEMMA OnRecordIs ==
    ImpersonationOnRecord <=>
        \A v \in DOMAIN visits :
            /\ StartKnown(visits[v])
            /\ EndUnknown(visits[v]) => \E b \in Tabs : Ending(b, v)
BY DEF ImpersonationOnRecord, StartKnown, EndUnknown

\* A step keeps what a visit has on record.
Kept(x, y) ==
    /\ y \in Visits
    /\ x.tagged => y.tagged
    /\ x.log["started"] > 0 => y.log["started"] > 0
    /\ StartKnown(x) => StartKnown(y)
KeptEnd(x, y) == Kept(x, y) /\ (EndUnknown(y) => EndUnknown(x))

\* A visit with one more event.
Recorded(x, e) == [x EXCEPT !.log = [x.log EXCEPT ![e] = x.log[e] + 1]]

LEMMA VisitFields ==
    ASSUME NEW x \in Visits
    PROVE  /\ KeptEnd(x, x)
           /\ KeptEnd(x, [x EXCEPT !.tagged = TRUE]) /\ [x EXCEPT !.tagged = TRUE].tagged
           /\ x.tagged /\ x.log["started"] > 0 => KeptEnd(x, [x EXCEPT !.held = TRUE])
           /\ KeptEnd(x, [x EXCEPT !.cut = TRUE]) /\ ~EndUnknown([x EXCEPT !.cut = TRUE])
           /\ KeptEnd(x, [x EXCEPT !.revoked = TRUE, !.elsewhere = TRUE])
           /\ KeptEnd(x, [x EXCEPT !.lapsed = TRUE])
           /\ Kept(x, [x EXCEPT !.revoked = TRUE])
BY DEF Visits, Kept, KeptEnd, StartKnown, EndUnknown

LEMMA LogFields ==
    ASSUME NEW x \in Visits, NEW e \in EventTypes
    PROVE  /\ KeptEnd(x, Recorded(x, e))
           /\ Recorded(x, e).tagged = x.tagged
           /\ e = "started" => Recorded(x, e).log["started"] > 0
           /\ e # "started" => ~EndUnknown(Recorded(x, e))
           /\ e = "expired" => /\ Kept(x, [Recorded(x, e) EXCEPT !.revoked = TRUE])
                               /\ ~EndUnknown([Recorded(x, e) EXCEPT !.revoked = TRUE])
<1> DEFINE n == x.log[e] + 1
           l == [x.log EXCEPT ![e] = n]
           y == [x EXCEPT !.log = l]
           w == [y EXCEPT !.revoked = TRUE]
<1>1. x.log \in [EventTypes -> Nat] /\ "started" \in EventTypes /\ "ended" \in EventTypes
      /\ "expired" \in EventTypes
  BY DEF Visits, EventTypes
<1>2. n \in Nat /\ n > 0 /\ n > x.log[e]
  BY <1>1
<1> HIDE DEF n
<1>3. /\ l \in [EventTypes -> Nat] /\ l[e] = n
      /\ \A f \in EventTypes : f # e => l[f] = x.log[f]
  BY <1>1, <1>2
<1> HIDE DEF l
<1>4. /\ y \in Visits /\ y.log = l /\ y.tagged = x.tagged /\ y.revoked = x.revoked
      /\ y.held = x.held /\ y.elsewhere = x.elsewhere /\ y.cut = x.cut
  BY <1>3 DEF Visits
<1> HIDE DEF y
<1>5. /\ w \in Visits /\ w.log = l /\ w.tagged = x.tagged /\ w.held = x.held
  BY <1>4 DEF Visits
<1> HIDE DEF w
<1>6. x.log["started"] > 0 => l["started"] > 0
  BY <1>1, <1>2, <1>3
<1>7. e # "started" => l["ended"] + l["expired"] # 0
  BY <1>1, <1>2, <1>3 DEF EventTypes
<1>8. l["ended"] + l["expired"] = 0 => x.log["ended"] + x.log["expired"] = 0
  BY <1>1, <1>2, <1>3
<1>9. KeptEnd(x, y) /\ (e # "started" => ~EndUnknown(y))
  BY <1>4, <1>6, <1>7, <1>8 DEF Kept, KeptEnd, StartKnown, EndUnknown
<1>10. e = "expired" => Kept(x, w) /\ ~EndUnknown(w)
  BY <1>5, <1>6, <1>7 DEF Kept, StartKnown, EndUnknown
<1>11. e = "started" => y.log["started"] > 0
  BY <1>2, <1>3, <1>4
<1>12. Recorded(x, e) = y
  BY DEF Recorded, y, l, n
<1> QED BY <1>4, <1>9, <1>10, <1>11, <1>12 DEF w

\* Visits are kept one by one, and there may be more.
Grown(vs, ws) ==
    /\ ws \in Seq(Visits) /\ DOMAIN vs \subseteq DOMAIN ws
    /\ \A u \in DOMAIN vs : Kept(vs[u], ws[u])

LEMMA GrownKnows ==
    ASSUME NEW vs, NEW ws, Grown(vs, ws), NEW t, Knows(t, vs)
    PROVE  Knows(t, ws)
<1> SUFFICES ASSUME t # AtRest PROVE Knows(t, ws)
  BY DEF Knows
<1>1. /\ t.found \subseteq DOMAIN vs
      /\ t.pc = "sweep" => t.op \in {"list", "start"}
      /\ t.pc \in OnVisit => t.visit \in DOMAIN vs
      /\ t.pc \in {"start_event", "answer"} => vs[t.visit].tagged
      /\ t.pc = "answer" => vs[t.visit].log["started"] > 0
  BY DEF Knows
<1>2. DOMAIN vs \subseteq DOMAIN ws
  BY DEF Grown
<1>3. \A u \in DOMAIN vs : /\ vs[u].tagged => ws[u].tagged
                           /\ vs[u].log["started"] > 0 => ws[u].log["started"] > 0
  BY DEF Grown, Kept
<1>4. t.pc \in {"start_event", "answer"} => t.pc \in OnVisit
  BY DEF OnVisit
<1>5. t.pc \in {"start_event", "answer"} => ws[t.visit].tagged
  BY <1>1, <1>3, <1>4
<1>6. t.pc = "answer" => ws[t.visit].log["started"] > 0
  BY <1>1, <1>3, <1>4
<1> QED BY <1>1, <1>2, <1>5, <1>6 DEF Knows

LEMMA ChangedOne ==
    ASSUME NEW vs \in Seq(Visits), NEW v \in DOMAIN vs, NEW y, Kept(vs[v], y),
           NEW ws, ws = [vs EXCEPT ![v] = y]
    PROVE  /\ Grown(vs, ws) /\ DOMAIN ws = DOMAIN vs /\ ws[v] = y
           /\ \A u \in DOMAIN vs : u # v => ws[u] = vs[u]
<1>1. DOMAIN ws = DOMAIN vs /\ ws[v] = y /\ \A u \in DOMAIN vs : u # v => ws[u] = vs[u]
  OBVIOUS
<1>2. y \in Visits
  BY DEF Kept
<1>3. ws \in Seq(Visits)
  BY <1>2
<1>4. \A u \in DOMAIN vs : vs[u] \in Visits
  OBVIOUS
<1>5. \A u \in DOMAIN vs : Kept(vs[u], ws[u])
  <2> SUFFICES ASSUME NEW u \in DOMAIN vs PROVE Kept(vs[u], ws[u]) OBVIOUS
  <2>1. CASE u = v BY <1>1, <2>1
  <2>2. CASE u # v BY <1>1, <1>4, <2>2, VisitFields DEF KeptEnd
  <2> QED BY <2>1, <2>2
<1> QED BY <1>1, <1>3, <1>5 DEF Grown

LEMMA ChangedSome ==
    ASSUME NEW vs \in Seq(Visits), NEW ws, ws = [v \in DOMAIN vs |-> ws[v]],
           \A v \in DOMAIN vs : Kept(vs[v], ws[v])
    PROVE  Grown(vs, ws) /\ DOMAIN ws = DOMAIN vs
<1>1. DOMAIN vs = 1 .. Len(vs) /\ Len(vs) \in Nat
  OBVIOUS
<1>2. \A v \in DOMAIN vs : ws[v] \in Visits
  BY DEF Kept
<1>3. ws \in Seq(Visits)
  BY <1>1, <1>2
<1> QED BY <1>3 DEF Grown

LEMMA GrownSame ==
    ASSUME NEW vs \in Seq(Visits)
    PROVE  Grown(vs, vs)
<1>1. \A u \in DOMAIN vs : vs[u] \in Visits
  OBVIOUS
<1>2. \A u \in DOMAIN vs : Kept(vs[u], vs[u])
  BY <1>1, VisitFields DEF KeptEnd
<1> QED BY <1>2 DEF Grown

\* How requests of support move.
LEMMA GoesFields ==
    ASSUME tab \in [Tabs -> {AtRest} \cup Working], NEW b \in Tabs, tab[b] # AtRest,
           NEW pc \in {"sweep", "list", "start"} \cup OnVisit, Goes(b, pc)
    PROVE  /\ tab' \in [Tabs -> {AtRest} \cup Working]
           /\ tab'[b] # AtRest /\ tab'[b].pc = pc /\ tab'[b].op = tab[b].op
           /\ tab'[b].found = tab[b].found /\ tab'[b].visit = tab[b].visit
           /\ \A c \in Tabs : c # b => tab'[c] = tab[c]
<1> DEFINE t == [tab[b] EXCEPT !.pc = pc]
<1>1. tab[b] \in Working
  OBVIOUS
<1>2. /\ t \in Working /\ t.pc = pc /\ t.op = tab[b].op /\ t.found = tab[b].found
      /\ t.visit = tab[b].visit
  BY <1>1 DEF Working
<1>3. t # AtRest
  <2>1. AtRest.pc = "rest" BY DEF AtRest
  <2>2. pc # "rest" BY DEF OnVisit
  <2> QED BY <1>2, <2>1, <2>2
<1>4. tab' = [tab EXCEPT ![b] = t]
  BY DEF Goes
<1> HIDE DEF t
<1> QED BY <1>2, <1>3, <1>4

LEMMA RestsFields ==
    ASSUME tab \in [Tabs -> {AtRest} \cup Working], NEW b \in Tabs, Rests(b)
    PROVE  /\ tab' \in [Tabs -> {AtRest} \cup Working] /\ tab'[b] = AtRest
           /\ \A c \in Tabs : c # b => tab'[c] = tab[c]
BY DEF Rests

\* What an End that has revoked its visit has not recorded yet.
Ends(t, v) == t.pc \in {"remint", "end_event"} /\ t.visit = v

LEMMA SupportKeeps ==
    ASSUME SupportInv, Grown(visits, visits'),
           tab' \in [Tabs -> {AtRest} \cup Working],
           \A c \in Tabs : tab'[c] = tab[c] \/ Knows(tab'[c], visits'),
           \A v \in DOMAIN visits' :
               /\ v \in DOMAIN visits \/ StartKnown(visits'[v])
               /\ EndUnknown(visits'[v]) => \E c \in Tabs : Ends(tab'[c], v)
    PROVE  SupportInv'
<1>1. visits \in Seq(Visits) /\ \A b \in Tabs : Knows(tab[b], visits)
  BY DEF SupportInv, SupportTypeOK
<1>2. \A c \in Tabs : Knows(tab'[c], visits')
  BY <1>1, GrownKnows
<1>3. \A v \in DOMAIN visits' : StartKnown(visits'[v])
  BY OnRecordIs DEF SupportInv, Grown, Kept
<1>4. SupportTypeOK'
  BY DEF SupportTypeOK, Grown
<1>5. ImpersonationOnRecord'
  <2>1. \A v \in DOMAIN visits' : /\ visits'[v].held => visits'[v].tagged /\ visits'[v].log["started"] > 0
    BY <1>3 DEF StartKnown
  <2>2. \A v \in DOMAIN visits' :
           visits'[v].revoked /\ visits'[v].log["ended"] + visits'[v].log["expired"] = 0 =>
              visits'[v].elsewhere \/ visits'[v].cut \/ \E b \in Tabs : Ending(b, v)'
    BY DEF EndUnknown, Ends, Ending
  <2> QED BY <2>1, <2>2 DEF ImpersonationOnRecord
<1> QED BY <1>2, <1>4, <1>5 DEF SupportInv

\* A step of one request.
LEMMA TabKeeps ==
    ASSUME SupportInv, Grown(visits, visits'), NEW b \in Tabs,
           tab' \in [Tabs -> {AtRest} \cup Working],
           \A c \in Tabs : c # b => tab'[c] = tab[c],
           Knows(tab'[b], visits'),
           \A v \in DOMAIN visits' :
               /\ v \in DOMAIN visits \/ StartKnown(visits'[v])
               /\ EndUnknown(visits'[v]) =>
                     \/ Ends(tab'[b], v)
                     \/ v \in DOMAIN visits /\ EndUnknown(visits[v]) /\ ~Ends(tab[b], v)
    PROVE  SupportInv'
<1>1. \A v \in DOMAIN visits : EndUnknown(visits[v]) => \E c \in Tabs : Ends(tab[c], v)
  BY OnRecordIs DEF SupportInv, Ending, Ends
<1>2. \A v \in DOMAIN visits' : EndUnknown(visits'[v]) => \E c \in Tabs : Ends(tab'[c], v)
  <2> SUFFICES ASSUME NEW v \in DOMAIN visits', EndUnknown(visits'[v])
               PROVE  \E c \in Tabs : Ends(tab'[c], v)
    OBVIOUS
  <2>1. CASE Ends(tab'[b], v) BY <2>1
  <2>2. CASE v \in DOMAIN visits /\ EndUnknown(visits[v]) /\ ~Ends(tab[b], v)
    <3>1. PICK c \in Tabs : Ends(tab[c], v) BY <1>1, <2>2
    <3>2. c # b BY <2>2, <3>1
    <3>3. tab'[c] = tab[c] BY <3>2
    <3> QED BY <3>1, <3>3
  <2> QED BY <2>1, <2>2
<1> QED BY <1>2, SupportKeeps

LEMMA SupportStep == SupportInv /\ [SupportNext]_supportVars => SupportInv'
<1> SUFFICES ASSUME SupportInv, [SupportNext]_supportVars PROVE SupportInv' OBVIOUS
<1>a. /\ visits \in Seq(Visits) /\ tab \in [Tabs -> {AtRest} \cup Working]
      /\ \A b \in Tabs : Knows(tab[b], visits)
  BY DEF SupportInv, SupportTypeOK
<1>b. AtRest.pc = "rest" /\ \A v \in DOMAIN visits : visits[v] \in Visits
  BY <1>a DEF AtRest
<1>c. \A vs : Knows(AtRest, vs)
  BY DEF Knows
<1>d. Grown(visits, visits)
  BY <1>a, GrownSame
\* A step that changes one visit, and keeps what was known of its end.
<1>e. ASSUME NEW b \in Tabs, NEW v \in DOMAIN visits, NEW y, KeptEnd(visits[v], y),
             visits' = [visits EXCEPT ![v] = y],
             tab' \in [Tabs -> {AtRest} \cup Working],
             \A c \in Tabs : c # b => tab'[c] = tab[c],
             Knows(tab'[b], visits'),
             \A u : Ends(tab[b], u) => Ends(tab'[b], u) \/ (u = v /\ ~EndUnknown(y))
      PROVE  SupportInv'
  <2>1. /\ Grown(visits, visits') /\ DOMAIN visits' = DOMAIN visits /\ visits'[v] = y
        /\ \A u \in DOMAIN visits : u # v => visits'[u] = visits[u]
    BY <1>a, <1>e, ChangedOne DEF KeptEnd
  <2>2. \A u \in DOMAIN visits : EndUnknown(visits'[u]) => EndUnknown(visits[u])
    BY <1>e, <2>1 DEF KeptEnd
  <2>3. \A u \in DOMAIN visits' : EndUnknown(visits'[u]) =>
            Ends(tab'[b], u) \/ (u \in DOMAIN visits /\ EndUnknown(visits[u]) /\ ~Ends(tab[b], u))
    <3> SUFFICES ASSUME NEW u \in DOMAIN visits, EndUnknown(visits'[u])
                 PROVE  Ends(tab'[b], u) \/ (EndUnknown(visits[u]) /\ ~Ends(tab[b], u))
      BY <2>1
    <3>1. EndUnknown(visits[u]) BY <2>2
    <3>2. ~(u = v /\ ~EndUnknown(y)) BY <2>1
    <3> QED BY <1>e, <3>1, <3>2
  <2>4. \A u \in DOMAIN visits' : u \in DOMAIN visits BY <2>1
  <2> QED BY <1>e, <2>1, <2>3, <2>4, TabKeeps
\* A step that changes no visit.
<1>f. ASSUME NEW b \in Tabs, UNCHANGED visits,
             tab' \in [Tabs -> {AtRest} \cup Working],
             \A c \in Tabs : c # b => tab'[c] = tab[c],
             Knows(tab'[b], visits),
             \A u : Ends(tab[b], u) => Ends(tab'[b], u)
      PROVE  SupportInv'
  BY <1>d, <1>f, TabKeeps
<1>1. ASSUME NEW b \in Tabs, Enter(b) PROVE SupportInv'
  <2>1. tab[b] = AtRest /\ UNCHANGED visits BY <1>1 DEF Enter
  <2>2. PICK op \in {"list", "start"} :
           tab' = [tab EXCEPT ![b] = [pc |-> IF Abandoned = {} THEN op ELSE "sweep",
                                      op |-> op, found |-> Abandoned, visit |-> 0]]
    BY <1>1 DEF Enter
  <2> DEFINE t == [pc |-> IF Abandoned = {} THEN op ELSE "sweep",
                   op |-> op, found |-> Abandoned, visit |-> 0]
  <2>3. Abandoned \subseteq DOMAIN visits /\ Abandoned \in SUBSET Nat
    BY <1>a DEF Abandoned
  <2>4. t \in Working BY <2>3 DEF Working
  <2>5. Knows(t, visits) BY <2>3 DEF Knows, OnVisit
  <2>6. tab' = [tab EXCEPT ![b] = t] BY <2>2
  <2> HIDE DEF t
  <2>7. /\ tab' \in [Tabs -> {AtRest} \cup Working] /\ tab'[b] = t
        /\ \A c \in Tabs : c # b => tab'[c] = tab[c]
    BY <1>a, <2>4, <2>6
  <2>8. \A u : ~Ends(tab[b], u) BY <1>b, <2>1 DEF Ends
  <2> QED BY <1>f, <2>1, <2>5, <2>7, <2>8
<1>2. ASSUME NEW b \in Tabs, CloseAbandoned(b) PROVE SupportInv'
  <2>1. /\ tab[b].pc = "sweep" /\ tab[b] # AtRest /\ Goes(b, tab[b].op)
        /\ Knows(tab[b], visits)
    BY <1>2, <1>a, <1>b DEF CloseAbandoned
  <2>2. tab[b].op \in {"list", "start"} BY <2>1 DEF Knows
  <2>3. /\ tab' \in [Tabs -> {AtRest} \cup Working] /\ tab'[b] # AtRest
        /\ tab'[b].pc = tab[b].op /\ tab'[b].op = tab[b].op /\ tab'[b].found = tab[b].found
        /\ \A c \in Tabs : c # b => tab'[c] = tab[c]
    BY <1>a, <2>1, <2>2, GoesFields
  <2> DEFINE Closed(v) == [Recorded(visits[v], "expired") EXCEPT !.revoked = TRUE]
  <2>4. \A v \in DOMAIN visits :
           [visits[v] EXCEPT !.revoked = TRUE, !.log["expired"] = @ + 1] = Closed(v)
    BY <1>b DEF Recorded, Visits
  <2>5. visits' = [v \in DOMAIN visits |-> IF v \in tab[b].found THEN Closed(v) ELSE visits[v]]
    BY <1>2, <2>4 DEF CloseAbandoned
  <2>6. \A v \in DOMAIN visits : Kept(visits[v], Closed(v)) /\ ~EndUnknown(Closed(v))
    BY <1>b, LogFields DEF EventTypes
  <2> HIDE DEF Closed
  <2>7. \A v \in DOMAIN visits : /\ Kept(visits[v], visits'[v])
                                 /\ EndUnknown(visits'[v]) => EndUnknown(visits[v])
    BY <1>b, <2>5, <2>6, VisitFields DEF KeptEnd
  <2>8. visits' = [v \in DOMAIN visits |-> visits'[v]]
    BY <2>5
  <2>9. Grown(visits, visits') /\ DOMAIN visits' = DOMAIN visits
    BY <1>a, <2>7, <2>8, ChangedSome
  <2>10. Knows(tab'[b], visits')
    BY <2>1, <2>2, <2>3, <2>9 DEF Knows, OnVisit
  <2>11. \A u : ~Ends(tab[b], u) BY <2>1 DEF Ends
  <2> QED BY <2>3, <2>7, <2>9, <2>10, <2>11, TabKeeps
<1>3. ASSUME NEW b \in Tabs, ListShops(b) PROVE SupportInv'
  <2>1. tab[b].pc = "list" /\ Rests(b) /\ UNCHANGED visits BY <1>3 DEF ListShops
  <2>2. \A u : ~Ends(tab[b], u) BY <2>1 DEF Ends
  <2> QED BY <1>a, <1>c, <1>f, <2>1, <2>2, RestsFields
<1>4. ASSUME NEW b \in Tabs, StartMint(b) PROVE SupportInv'
  <2>1. /\ tab[b].pc = "start" /\ tab[b] # AtRest /\ Knows(tab[b], visits)
        /\ visits' = Append(visits, NewVisit)
        /\ tab' = [tab EXCEPT ![b].pc = "tag", ![b].visit = Len(visits) + 1]
    BY <1>4, <1>a, <1>b DEF StartMint
  <2>2. NewVisit \in Visits /\ StartKnown(NewVisit) /\ ~EndUnknown(NewVisit)
    BY DEF NewVisit, Visits, EventTypes, StartKnown, EndUnknown
  <2>3. /\ visits' \in Seq(Visits) /\ Len(visits) \in Nat /\ Len(visits) + 1 \in DOMAIN visits'
        /\ \A u \in DOMAIN visits : u \in DOMAIN visits' /\ visits'[u] = visits[u]
        /\ \A u \in DOMAIN visits' : u \in DOMAIN visits \/ visits'[u] = NewVisit
    BY <1>a, <2>1, <2>2
  <2>4. Grown(visits, visits')
    BY <1>b, <2>3, VisitFields DEF Grown, KeptEnd
  <2> DEFINE n == Len(visits) + 1
             t == [tab[b] EXCEPT !.pc = "tag", !.visit = n]
  <2>5. tab[b] \in Working BY <1>a, <2>1
  <2>7. tab' = [tab EXCEPT ![b] = t] BY <1>a, <2>1
  <2>12. n \in Nat /\ n \in DOMAIN visits' BY <2>3
  <2> HIDE DEF n
  <2>6. t \in Working /\ t.pc = "tag" /\ t.found = tab[b].found /\ t.visit = n
    <3>1. "tag" \in {"sweep", "list", "start"} \cup OnVisit BY DEF OnVisit
    <3> QED BY <2>5, <2>12, <3>1 DEF Working
  <2> HIDE DEF t
  <2>8. /\ tab' \in [Tabs -> {AtRest} \cup Working] /\ tab'[b] = t
        /\ \A c \in Tabs : c # b => tab'[c] = tab[c]
    BY <1>a, <2>6, <2>7
  <2>9. Knows(t, visits') BY <2>1, <2>3, <2>6, <2>12 DEF Knows
  <2>10. \A u : ~Ends(tab[b], u) BY <2>1 DEF Ends
  <2>11. \A v \in DOMAIN visits' :
            /\ v \in DOMAIN visits \/ StartKnown(visits'[v])
            /\ EndUnknown(visits'[v]) => v \in DOMAIN visits /\ EndUnknown(visits[v])
    BY <2>2, <2>3
  <2> QED BY <2>4, <2>8, <2>9, <2>10, <2>11, TabKeeps
<1>5. ASSUME NEW b \in Tabs, StartTag(b) PROVE SupportInv'
  <2> DEFINE v == tab[b].visit
             y == [visits[v] EXCEPT !.tagged = TRUE]
  <2>1. /\ tab[b].pc = "tag" /\ tab[b] # AtRest /\ Knows(tab[b], visits) /\ Goes(b, "start_event")
    BY <1>5, <1>a, <1>b DEF StartTag
  <2>2. v \in DOMAIN visits BY <2>1 DEF Knows, OnVisit
  <2>3. visits' = [visits EXCEPT ![v] = y] BY <1>5, <2>2 DEF StartTag
  <2>4. KeptEnd(visits[v], y) /\ y.tagged BY <1>b, <2>2, VisitFields
  <2> HIDE DEF y
  <2>5. DOMAIN visits' = DOMAIN visits /\ visits'[v] = y
    BY <1>a, <2>2, <2>3, <2>4, ChangedOne DEF KeptEnd
  <2>6. /\ tab' \in [Tabs -> {AtRest} \cup Working] /\ tab'[b].pc = "start_event"
        /\ tab'[b].found = tab[b].found /\ tab'[b].visit = v
        /\ \A c \in Tabs : c # b => tab'[c] = tab[c]
    BY <1>a, <2>1, GoesFields DEF OnVisit
  <2>7. Knows(tab'[b], visits') BY <2>1, <2>2, <2>4, <2>5, <2>6 DEF Knows
  <2>8. \A u : ~Ends(tab[b], u) BY <2>1 DEF Ends
  <2> HIDE DEF v
  <2> QED BY <1>e, <2>2, <2>3, <2>4, <2>6, <2>7, <2>8
<1>6. ASSUME NEW b \in Tabs, StartEvent(b) PROVE SupportInv'
  <2> DEFINE v == tab[b].visit
             y == Recorded(visits[v], "started")
  <2>1. /\ tab[b].pc = "start_event" /\ tab[b] # AtRest /\ Knows(tab[b], visits)
        /\ Goes(b, "answer")
    BY <1>6, <1>a, <1>b DEF StartEvent
  <2>2. v \in DOMAIN visits /\ visits[v].tagged BY <2>1 DEF Knows, OnVisit
  <2>3. visits' = [visits EXCEPT ![v] = y] BY <1>6, <2>2 DEF StartEvent, Recorded
  <2>4. KeptEnd(visits[v], y) /\ y.tagged /\ y.log["started"] > 0
    BY <1>b, <2>2, LogFields DEF EventTypes
  <2> HIDE DEF y
  <2>5. DOMAIN visits' = DOMAIN visits /\ visits'[v] = y
    BY <1>a, <2>2, <2>3, <2>4, ChangedOne DEF KeptEnd
  <2>6. /\ tab' \in [Tabs -> {AtRest} \cup Working] /\ tab'[b].pc = "answer"
        /\ tab'[b].found = tab[b].found /\ tab'[b].visit = v
        /\ \A c \in Tabs : c # b => tab'[c] = tab[c]
    BY <1>a, <2>1, GoesFields DEF OnVisit
  <2>7. Knows(tab'[b], visits') BY <2>1, <2>2, <2>4, <2>5, <2>6 DEF Knows
  <2>8. \A u : ~Ends(tab[b], u) BY <2>1 DEF Ends
  <2> HIDE DEF v
  <2> QED BY <1>e, <2>2, <2>3, <2>4, <2>6, <2>7, <2>8
<1>7. ASSUME NEW b \in Tabs, HandOver(b) PROVE SupportInv'
  <2> DEFINE v == tab[b].visit
             y == [visits[v] EXCEPT !.held = TRUE]
  <2>1. tab[b].pc = "answer" /\ tab[b] # AtRest /\ Knows(tab[b], visits) /\ Rests(b)
    BY <1>7, <1>a, <1>b DEF HandOver
  <2>2. v \in DOMAIN visits /\ visits[v].tagged /\ visits[v].log["started"] > 0
    BY <2>1 DEF Knows, OnVisit
  <2>3. visits' = [visits EXCEPT ![v] = y] BY <1>7, <2>2 DEF HandOver
  <2>4. KeptEnd(visits[v], y) BY <1>b, <2>2, VisitFields
  <2> HIDE DEF y
  <2>5. \A u : ~Ends(tab[b], u) BY <2>1 DEF Ends
  <2>6. /\ tab' \in [Tabs -> {AtRest} \cup Working] /\ tab'[b] = AtRest
        /\ \A c \in Tabs : c # b => tab'[c] = tab[c]
    BY <1>a, <2>1, RestsFields
  <2> HIDE DEF v
  <2> QED BY <1>c, <1>e, <2>2, <2>3, <2>4, <2>5, <2>6
<1>8. ASSUME NEW b \in Tabs, EndEnter(b) PROVE SupportInv'
  <2>1. tab[b] = AtRest /\ UNCHANGED visits BY <1>8 DEF EndEnter
  <2>2. PICK v \in DOMAIN visits :
           tab' = [tab EXCEPT ![b] = [pc |-> "revoke", op |-> "end", found |-> {}, visit |-> v]]
    BY <1>8 DEF EndEnter
  <2> DEFINE t == [pc |-> "revoke", op |-> "end", found |-> {}, visit |-> v]
  <2>3. v \in Nat BY <1>a
  <2>4. t \in Working BY <2>3 DEF Working, OnVisit
  <2>5. Knows(t, visits) BY <2>2 DEF Knows
  <2>6. tab' = [tab EXCEPT ![b] = t] BY <2>2
  <2> HIDE DEF t
  <2>7. /\ tab' \in [Tabs -> {AtRest} \cup Working] /\ tab'[b] = t
        /\ \A c \in Tabs : c # b => tab'[c] = tab[c]
    BY <1>a, <2>4, <2>6
  <2>8. \A u : ~Ends(tab[b], u) BY <1>b, <2>1 DEF Ends
  <2> QED BY <1>f, <2>1, <2>5, <2>7, <2>8
<1>9. ASSUME NEW b \in Tabs, EndRevoke(b) PROVE SupportInv'
  <2> DEFINE v == tab[b].visit
             y == [visits[v] EXCEPT !.revoked = TRUE]
  <2>1. tab[b].pc = "revoke" /\ tab[b] # AtRest /\ Knows(tab[b], visits) /\ Goes(b, "remint")
    BY <1>9, <1>a, <1>b DEF EndRevoke
  <2>2. v \in DOMAIN visits BY <2>1 DEF Knows, OnVisit
  <2>3. visits' = [visits EXCEPT ![v] = y] BY <1>9, <1>a, <2>2 DEF EndRevoke
  <2>4. Kept(visits[v], y) BY <1>b, <2>2, VisitFields
  <2> HIDE DEF y
  <2>5. /\ Grown(visits, visits') /\ DOMAIN visits' = DOMAIN visits
        /\ \A u \in DOMAIN visits : u # v => visits'[u] = visits[u]
    <3> HIDE DEF v
    <3> QED BY <1>a, <2>2, <2>3, <2>4, ChangedOne
  <2>6. /\ tab' \in [Tabs -> {AtRest} \cup Working] /\ tab'[b].pc = "remint"
        /\ tab'[b].found = tab[b].found /\ tab'[b].visit = v
        /\ \A c \in Tabs : c # b => tab'[c] = tab[c]
    BY <1>a, <2>1, GoesFields DEF OnVisit
  <2>7. Knows(tab'[b], visits') BY <2>1, <2>2, <2>5, <2>6 DEF Knows
  <2>8. \A u : ~Ends(tab[b], u) BY <2>1 DEF Ends
  <2>9. Ends(tab'[b], v) BY <2>6 DEF Ends
  <2> HIDE DEF v
  <2>10. \A u \in DOMAIN visits' : EndUnknown(visits'[u]) =>
             Ends(tab'[b], u) \/ (u \in DOMAIN visits /\ EndUnknown(visits[u]) /\ ~Ends(tab[b], u))
    BY <2>5, <2>8, <2>9
  <2> QED BY <2>5, <2>6, <2>7, <2>10, TabKeeps
<1>10. ASSUME NEW b \in Tabs, EndMint(b) PROVE SupportInv'
  <2>1. /\ tab[b].pc = "remint" /\ tab[b] # AtRest /\ Knows(tab[b], visits)
        /\ Goes(b, "end_event") /\ UNCHANGED visits
    BY <1>10, <1>a, <1>b DEF EndMint
  <2>2. /\ tab' \in [Tabs -> {AtRest} \cup Working] /\ tab'[b].pc = "end_event"
        /\ tab'[b].found = tab[b].found /\ tab'[b].visit = tab[b].visit
        /\ \A c \in Tabs : c # b => tab'[c] = tab[c]
    BY <1>a, <2>1, GoesFields DEF OnVisit
  <2>3. Knows(tab'[b], visits) BY <2>1, <2>2 DEF Knows, OnVisit
  <2>4. \A u : Ends(tab[b], u) => Ends(tab'[b], u) BY <2>2 DEF Ends
  <2> QED BY <1>f, <2>1, <2>2, <2>3, <2>4
<1>11. ASSUME NEW b \in Tabs, EndEvent(b) PROVE SupportInv'
  <2> DEFINE v == tab[b].visit
             y == Recorded(visits[v], "ended")
  <2>1. tab[b].pc = "end_event" /\ tab[b] # AtRest /\ Knows(tab[b], visits) /\ Rests(b)
    BY <1>11, <1>a, <1>b DEF EndEvent
  <2>2. v \in DOMAIN visits BY <2>1 DEF Knows, OnVisit
  <2>3. visits' = [visits EXCEPT ![v] = y] BY <1>11, <2>2 DEF EndEvent, Recorded
  <2>4. KeptEnd(visits[v], y) /\ ~EndUnknown(y) BY <1>b, <2>2, LogFields DEF EventTypes
  <2> HIDE DEF y
  <2>5. \A u : Ends(tab[b], u) => u = v BY DEF Ends
  <2>6. /\ tab' \in [Tabs -> {AtRest} \cup Working] /\ tab'[b] = AtRest
        /\ \A c \in Tabs : c # b => tab'[c] = tab[c]
    BY <1>a, <2>1, RestsFields
  <2> HIDE DEF v
  <2> QED BY <1>c, <1>e, <2>2, <2>3, <2>4, <2>5, <2>6
<1>12. ASSUME NEW b \in Tabs, CutShort(b) PROVE SupportInv'
  <2>1. /\ Rests(b)
        /\ visits' = [v \in DOMAIN visits |->
                         IF Ending(b, v) THEN [visits[v] EXCEPT !.cut = TRUE] ELSE visits[v]]
    BY <1>12 DEF CutShort
  <2>2. \A v : Ending(b, v) <=> Ends(tab[b], v) BY DEF Ending, Ends
  <2>3. \A v \in DOMAIN visits :
           /\ KeptEnd(visits[v], visits[v])
           /\ KeptEnd(visits[v], [visits[v] EXCEPT !.cut = TRUE])
           /\ ~EndUnknown([visits[v] EXCEPT !.cut = TRUE])
    BY <1>b, VisitFields
  <2>4. \A v \in DOMAIN visits :
           /\ Kept(visits[v], visits'[v])
           /\ EndUnknown(visits'[v]) => EndUnknown(visits[v]) /\ ~Ends(tab[b], v)
    <3> SUFFICES ASSUME NEW v \in DOMAIN visits
                 PROVE  /\ Kept(visits[v], visits'[v])
                        /\ EndUnknown(visits'[v]) => EndUnknown(visits[v]) /\ ~Ends(tab[b], v)
      OBVIOUS
    <3> DEFINE y == [visits[v] EXCEPT !.cut = TRUE]
    <3>1. Kept(visits[v], visits[v]) /\ Kept(visits[v], y) /\ ~EndUnknown(y)
      BY <2>3 DEF KeptEnd
    <3>2. visits'[v] = IF Ending(b, v) THEN y ELSE visits[v] BY <2>1
    <3> HIDE DEF y
    <3> QED BY <2>2, <3>1, <3>2
  <2>5. visits' = [v \in DOMAIN visits |-> visits'[v]] BY <2>1
  <2>6. Grown(visits, visits') /\ DOMAIN visits' = DOMAIN visits
    BY <1>a, <2>4, <2>5, ChangedSome
  <2>7. /\ tab' \in [Tabs -> {AtRest} \cup Working] /\ tab'[b] = AtRest
        /\ \A c \in Tabs : c # b => tab'[c] = tab[c]
    BY <1>a, <2>1, RestsFields
  <2> QED BY <1>c, <2>4, <2>6, <2>7, TabKeeps
\* A step of nobody's request.
<1>g. ASSUME NEW v \in DOMAIN visits, NEW y, KeptEnd(visits[v], y),
             visits' = [visits EXCEPT ![v] = y], UNCHANGED tab
      PROVE  SupportInv'
  <2>1. /\ Grown(visits, visits') /\ DOMAIN visits' = DOMAIN visits /\ visits'[v] = y
        /\ \A u \in DOMAIN visits : u # v => visits'[u] = visits[u]
    BY <1>a, <1>g, ChangedOne DEF KeptEnd
  <2>2. \A u \in DOMAIN visits : EndUnknown(visits'[u]) => EndUnknown(visits[u])
    BY <1>g, <2>1 DEF KeptEnd
  <2>3. \A u \in DOMAIN visits : EndUnknown(visits[u]) => \E c \in Tabs : Ends(tab[c], u)
    BY OnRecordIs DEF SupportInv, Ending, Ends
  <2> QED BY <1>a, <1>g, <2>1, <2>2, <2>3, SupportKeeps
<1>13. ASSUME RevokeElsewhere PROVE SupportInv'
  <2>1. PICK v \in DOMAIN visits :
           /\ visits' = [visits EXCEPT ![v].revoked = TRUE, ![v].elsewhere = TRUE]
           /\ UNCHANGED tab
    BY <1>13 DEF RevokeElsewhere
  <2> DEFINE y == [visits[v] EXCEPT !.revoked = TRUE, !.elsewhere = TRUE]
  <2>2. visits' = [visits EXCEPT ![v] = y] BY <1>a, <2>1
  <2>3. KeptEnd(visits[v], y) BY <1>b, VisitFields
  <2> HIDE DEF y
  <2> QED BY <1>g, <2>1, <2>2, <2>3
<1>14. ASSUME VisitLapses PROVE SupportInv'
  <2>1. PICK v \in DOMAIN visits :
           visits' = [visits EXCEPT ![v].lapsed = TRUE] /\ UNCHANGED tab
    BY <1>14 DEF VisitLapses
  <2> DEFINE y == [visits[v] EXCEPT !.lapsed = TRUE]
  <2>2. visits' = [visits EXCEPT ![v] = y] BY <2>1
  <2>3. KeptEnd(visits[v], y) BY <1>b, VisitFields
  <2> HIDE DEF y
  <2> QED BY <1>g, <2>1, <2>2, <2>3
<1>15. CASE UNCHANGED supportVars
  BY <1>15 DEF supportVars, SupportInv, SupportTypeOK, ImpersonationOnRecord, Ending
<1> QED BY <1>1, <1>2, <1>3, <1>4, <1>5, <1>6, <1>7, <1>8, <1>9, <1>10, <1>11, <1>12,
           <1>13, <1>14, <1>15 DEF SupportNext

LEMMA SupportInvariance == SupportSpec => []SupportInv
<1>1. SupportInit => SupportInv
  <2> SUFFICES ASSUME SupportInit PROVE SupportInv OBVIOUS
  <2>1. visits = <<>> /\ tab = [b \in Tabs |-> AtRest] BY DEF SupportInit
  <2>2. visits \in Seq(Visits) /\ DOMAIN visits = {} BY <2>1
  <2>3. \A b \in Tabs : Knows(tab[b], visits) BY <2>1 DEF Knows
  <2> QED BY <2>1, <2>2, <2>3 DEF SupportInv, SupportTypeOK, ImpersonationOnRecord
<1> QED BY <1>1, SupportStep, PTL DEF SupportSpec

\* The visits have their types, and so have the requests of support.
THEOREM SupportTypeCorrect == SupportSpec => []SupportTypeOK
<1>1. SupportInv => SupportTypeOK BY DEF SupportInv
<1> QED BY <1>1, SupportInvariance, PTL

\* The shop knows of every visit that support held, of its start and of the end
\* that End or the sweep made, unless an End is at it or was cut short: for any
\* number of requests of support at once, and wherever they are cut short.
THEOREM ImpersonationOnRecordTheorem == SupportSpec => []ImpersonationOnRecord
<1>1. SupportInv => ImpersonationOnRecord BY DEF SupportInv
<1> QED BY <1>1, SupportInvariance, PTL

-----------------------------------------------------------------------------
(* Changes of the operating mode                                           *)

Hows == {"settings", "onboarding"}
Changing == [at : {"read", "locked"}, how : Hows, expected : Modes, proposed : Modes,
             seen : Modes]
ModeEvent == [from : Modes, to : Modes, how : Hows, shown : Modes]

ModeTypeOK ==
    /\ mode \in Modes /\ confirmed \in BOOLEAN
    /\ modeEvents \in Seq(ModeEvent)
    /\ change \in [Changers -> {ModeIdle} \cup Changing]

\* Whoever holds the shop's row has compared the mode it has now, and is alone.
LockKnows ==
    \A r \in Changers : change[r].at = "locked" =>
        /\ change[r].seen = mode /\ change[r].expected = mode
        /\ \A o \in Changers : change[o].at = "locked" => o = r

\* The events chain up to the mode, and each took away what was shown.
EventsKnow ==
    /\ \A i \in 2 .. Len(modeEvents) : modeEvents[i].from = modeEvents[i - 1].to
    /\ modeEvents # <<>> => modeEvents[Len(modeEvents)].to = mode
    /\ \A i \in DOMAIN modeEvents : modeEvents[i].from = modeEvents[i].shown

Confirmation ==
    confirmed <=> \E i \in DOMAIN modeEvents : modeEvents[i].how = "onboarding"

ModeInv == ModeTypeOK /\ LockKnows /\ EventsKnow /\ Confirmation

LEMMA ModeStep == ModeInv /\ [ModeNext]_modeVars => ModeInv'
<1> SUFFICES ASSUME ModeInv, [ModeNext]_modeVars PROVE ModeInv' OBVIOUS
<1>a. /\ mode \in Modes /\ confirmed \in BOOLEAN /\ modeEvents \in Seq(ModeEvent)
      /\ change \in [Changers -> {ModeIdle} \cup Changing]
  BY DEF ModeInv, ModeTypeOK
<1>b. \A r \in Changers : change[r].at \in {"read", "locked"} => change[r] \in Changing
  BY <1>a DEF ModeIdle, Changing
<1>1. ASSUME NEW r \in Changers, NEW how \in Hows, NEW expected \in Modes,
             NEW proposed \in Modes, BeginChange(r, how, expected, proposed)
      PROVE  ModeInv'
  <2> DEFINE x == [at |-> "read", how |-> how, expected |-> expected,
                   proposed |-> proposed, seen |-> mode]
  <2>1. x \in Changing /\ x.at = "read" BY <1>a DEF Changing
  <2>2. change' = [change EXCEPT ![r] = x] /\ UNCHANGED <<mode, confirmed, modeEvents>>
    BY <1>1 DEF BeginChange
  <2> HIDE DEF x
  <2>3. ModeTypeOK' BY <1>a, <2>1, <2>2 DEF ModeTypeOK
  <2>4. \A o \in Changers : change'[o].at = "locked" => o # r /\ change'[o] = change[o]
    BY <1>a, <2>1, <2>2
  <2>5. LockKnows' BY <2>2, <2>4 DEF ModeInv, LockKnows
  <2> QED BY <2>2, <2>3, <2>5 DEF ModeInv, EventsKnow, Confirmation
<1>2. ASSUME NEW r \in Changers, LockShop(r) PROVE ModeInv'
  <2>1. change[r].at = "read" /\ ModeLockFree(r) /\ UNCHANGED <<mode, confirmed, modeEvents>>
    BY <1>2 DEF LockShop
  <2>2. CASE change' = [change EXCEPT ![r] = ModeIdle]
    <3>1. ModeTypeOK' BY <1>a, <2>1, <2>2 DEF ModeTypeOK
    <3>2. \A o \in Changers : change'[o].at = "locked" => o # r /\ change'[o] = change[o]
      BY <1>a, <2>2 DEF ModeIdle
    <3>3. LockKnows' BY <2>1, <3>2 DEF ModeInv, LockKnows
    <3> QED BY <2>1, <3>1, <3>3 DEF ModeInv, EventsKnow, Confirmation
  <2>3. CASE mode = change[r].expected
             /\ change' = [change EXCEPT ![r] = [@ EXCEPT !.at = "locked", !.seen = mode]]
    <3> DEFINE x == [change[r] EXCEPT !.at = "locked", !.seen = mode]
    <3>1. change[r] \in Changing BY <1>b, <2>1
    <3>2. x \in Changing /\ x.at = "locked" /\ x.seen = mode /\ x.expected = mode
      BY <1>a, <2>3, <3>1 DEF Changing
    <3>3. change' = [change EXCEPT ![r] = x] BY <2>3
    <3> HIDE DEF x
    <3>4. ModeTypeOK' BY <1>a, <2>1, <3>2, <3>3 DEF ModeTypeOK
    <3>5. \A o \in Changers : change'[o].at = "locked" => o = r
      BY <1>a, <2>1, <3>3 DEF ModeLockFree
    <3>6. change'[r] = x BY <1>a, <3>3
    <3>7. LockKnows' BY <2>1, <3>2, <3>5, <3>6 DEF LockKnows
    <3> QED BY <2>1, <3>4, <3>7 DEF ModeInv, EventsKnow, Confirmation
  <2> QED BY <1>2, <2>2, <2>3 DEF LockShop
<1>3. ASSUME NEW r \in Changers, CommitMode(r) PROVE ModeInv'
  <2> DEFINE c == change[r]
             event == [from |-> c.seen, to |-> c.proposed, how |-> c.how, shown |-> c.expected]
  <2>1. /\ c \in Changing /\ c.seen = mode /\ c.expected = mode
        /\ \A o \in Changers : change[o].at = "locked" => o = r
    BY <1>3, <1>b DEF CommitMode, ModeInv, LockKnows
  <2>2. /\ mode' = c.proposed /\ confirmed' = (confirmed \/ c.how = "onboarding")
        /\ change' = [change EXCEPT ![r] = ModeIdle]
    BY <1>3 DEF CommitMode
  <2>3. LockKnows'
    <3>1. \A o \in Changers : change'[o].at # "locked" BY <1>a, <2>1, <2>2 DEF ModeIdle
    <3> QED BY <3>1 DEF LockKnows
  <2>4. CASE modeEvents' = Append(modeEvents, event)
    <3>1. /\ event \in ModeEvent /\ event.from = mode /\ event.shown = mode
          /\ event.to = mode' /\ event.how = c.how
      BY <2>1, <2>2 DEF Changing, ModeEvent
    <3>2. c.how \in Hows /\ c.proposed \in Modes BY <2>1 DEF Changing
    <3> HIDE DEF event
    <3> DEFINE n == Len(modeEvents)
    <3>3. /\ n \in Nat /\ DOMAIN modeEvents = 1 .. n
          /\ modeEvents' \in Seq(ModeEvent) /\ Len(modeEvents') = n + 1
          /\ DOMAIN modeEvents' = 1 .. n + 1
          /\ \A i \in 1 .. n : modeEvents'[i] = modeEvents[i]
          /\ modeEvents'[n + 1] = event
      BY <1>a, <2>4, <3>1
    <3>4. ModeTypeOK'
      BY <1>a, <2>2, <3>2, <3>3 DEF ModeTypeOK
    <3>e. modeEvents = <<>> <=> n = 0 BY <1>a
    <3> HIDE DEF n, c
    <3>5. EventsKnow'
      <4>1. \A i \in 2 .. n + 1 : modeEvents'[i].from = modeEvents'[i - 1].to
        <5> TAKE i \in 2 .. n + 1
        <5>1. CASE i \in 2 .. n
          <6>1. i - 1 \in 1 .. n /\ i \in 1 .. n BY <3>3, <5>1
          <6>2. modeEvents[i].from = modeEvents[i - 1].to
            BY <5>1 DEF ModeInv, EventsKnow, n
          <6> QED BY <3>3, <6>1, <6>2
        <5>2. CASE i = n + 1
          <6>1. n \in 1 .. n /\ n # 0 /\ i - 1 = n BY <3>3, <5>2
          <6>2. modeEvents[n].to = mode BY <3>e, <6>1 DEF ModeInv, EventsKnow, n
          <6> QED BY <3>1, <3>3, <5>2, <6>1, <6>2
        <5> QED BY <3>3, <5>1, <5>2
      <4>2. modeEvents'[n + 1].to = mode' BY <3>1, <3>3
      <4>3. \A i \in 1 .. n + 1 : modeEvents'[i].from = modeEvents'[i].shown
        <5> TAKE i \in 1 .. n + 1
        <5>1. CASE i \in 1 .. n
          BY <3>3, <5>1 DEF ModeInv, EventsKnow
        <5>2. CASE i = n + 1 BY <3>1, <3>3, <5>2
        <5> QED BY <3>3, <5>1, <5>2
      <4> QED BY <3>3, <4>1, <4>2, <4>3 DEF EventsKnow
    <3>6. Confirmation'
      <4>1. (\E i \in 1 .. n + 1 : modeEvents'[i].how = "onboarding")
              <=> (\E i \in 1 .. n : modeEvents[i].how = "onboarding") \/ c.how = "onboarding"
        <5>1. \A i \in 1 .. n + 1 : i \in 1 .. n \/ i = n + 1 BY <3>3
        <5>2. n + 1 \in 1 .. n + 1 /\ 1 .. n \subseteq 1 .. n + 1 BY <3>3
        <5> QED BY <3>1, <3>3, <5>1, <5>2
      <4> QED BY <2>2, <3>3, <4>1 DEF ModeInv, Confirmation
    <3> QED BY <2>3, <3>4, <3>5, <3>6 DEF ModeInv
  <2>5. CASE modeEvents' = modeEvents /\ c.how # "onboarding" /\ c.proposed = c.seen
    <3>1. mode' = mode /\ confirmed' = confirmed BY <1>a, <2>1, <2>2, <2>5
    <3>2. ModeTypeOK' BY <1>a, <2>2, <2>5, <3>1 DEF ModeTypeOK
    <3> QED BY <2>3, <2>5, <3>1, <3>2 DEF ModeInv, EventsKnow, Confirmation
  <2> QED BY <1>3, <2>4, <2>5 DEF CommitMode
<1>4. CASE UNCHANGED modeVars
  BY <1>4 DEF modeVars, ModeInv, ModeTypeOK, LockKnows, EventsKnow, Confirmation
<1> QED BY <1>1, <1>2, <1>3, <1>4 DEF ModeNext, Hows

\* The events are the history of the mode, whoever changes it at once, and what each
\* change took away is what its preview announced.
THEOREM ModeEventsChainTheorem == ModeSpec => []ModeEventsChain
<1>1. ModeInit => ModeInv
  <2> SUFFICES ASSUME ModeInit PROVE ModeInv OBVIOUS
  <2>1. ModeTypeOK
    <3>1. modeEvents \in Seq(ModeEvent) BY DEF ModeInit
    <3>2. change \in [Changers -> {ModeIdle} \cup Changing] BY DEF ModeInit
    <3> QED BY <3>1, <3>2 DEF ModeInit, ModeTypeOK, Modes
  <2>2. DOMAIN modeEvents = {} /\ Len(modeEvents) = 0 BY DEF ModeInit
  <2>3. 2 .. 0 = {} OBVIOUS
  <2> QED BY <2>1, <2>2, <2>3 DEF ModeInit, ModeIdle, ModeInv, LockKnows, EventsKnow, Confirmation
<1>2. ModeInv => ModeEventsChain
  <2> SUFFICES ASSUME ModeInv PROVE ModeEventsChain OBVIOUS
  <2>1. \A i \in DOMAIN modeEvents : modeEvents[i].from = modeEvents[i].shown
    BY DEF ModeInv, EventsKnow
  <2> QED BY <2>1 DEF ModeInv, EventsKnow, Confirmation, ModeEventsChain
<1> QED BY <1>1, <1>2, ModeStep, PTL DEF ModeSpec

-----------------------------------------------------------------------------
(* Requests: the gates of all routes, and what a request has shown of      *)
(* itself once it is past its gate                                         *)

\* What the proofs need of the row of a route, from its gate, the kind of its
\* data, whether it writes, and the answers to its errors.
Sound(gate, area, effect, answers, names) ==
    /\ answers \subseteq Nat /\ 200 \notin answers /\ 402 \notin answers
    /\ effect \in {"read", "write"}
    /\ NeedsSession(gate) => (NeedsStanding(gate) <=> area \notin OpenToLapsed)
    /\ NeedsSession(gate) /\ area \in DOMAIN CapabilityOfArea => "technician" \notin GateRoles(gate)
    /\ NeedsSession(gate) /\ "support" \in GateRoles(gate) /\ effect = "write"
          => area \in {"accounts", "support", "context"}
    /\ "get_billing_subscription" \in names => gate = "billing"
    /\ area # "get_billing_subscription"
    /\ area = "support" /\ effect = "write" /\ gate # "support"
          => names \subseteq {"end_shop_impersonation_route"}

RouteFields == {"name", "gate", "area", "effect", "limiter", "answers"}

SoundRoute(r) ==
    /\ r = [field \in RouteFields |-> r[field]]
    /\ Sound(r.gate, r.area, r.effect, r.answers, {r.name})

LEMMA SoundRows ==
    ASSUME NEW gate, NEW area, NEW effect, NEW answers, NEW names,
           Sound(gate, area, effect, answers, names)
    PROVE  \A r \in Rows(gate, area, effect, answers, names) : SoundRoute(r)
<1> SUFFICES ASSUME NEW r \in Rows(gate, area, effect, answers, names) PROVE SoundRoute(r) OBVIOUS
<1>1. /\ r.gate = gate /\ r.area = area /\ r.effect = effect /\ r.answers = answers
      /\ r.name \in names
  BY DEF Rows
<1>2. r = [field \in RouteFields |-> r[field]]
  BY DEF Rows, RouteFields
<1>3. Sound(gate, area, effect, answers, {r.name})
  BY <1>1 DEF Sound
<1> QED BY <1>1, <1>2, <1>3 DEF SoundRoute

LEMMA SoundLimited ==
    ASSUME NEW limiter, NEW rows, \A r \in rows : SoundRoute(r)
    PROVE  \A r \in Limited(limiter, rows) : SoundRoute(r)
<1> SUFFICES ASSUME NEW r \in rows PROVE SoundRoute([r EXCEPT !.limiter = limiter])
  BY DEF Limited
<1> DEFINE l == [r EXCEPT !.limiter = limiter]
<1>1. r = [field \in RouteFields |-> r[field]]
  BY DEF SoundRoute
<1>2. /\ l.gate = r.gate /\ l.area = r.area /\ l.effect = r.effect
      /\ l.answers = r.answers /\ l.name = r.name
      /\ l = [field \in RouteFields |-> l[field]]
  BY <1>1 DEF RouteFields
<1> HIDE DEF l
<1>3. SoundRoute(l) BY <1>2 DEF SoundRoute
<1> QED BY <1>3 DEF l

LEMMA RoutesAreSound == \A r \in Routes : SoundRoute(r)
<1> USE SoundRows, SoundLimited
        DEF Sound, NeedsSession, NeedsStanding, GateRoles, OpenToLapsed, CapabilityOfArea
<1>1. \A r \in PageRoutes : SoundRoute(r) BY DEF PageRoutes
<1>2. \A r \in HealthRoutes : SoundRoute(r) BY DEF HealthRoutes
<1>3. \A r \in LoginRoutes : SoundRoute(r) BY DEF LoginRoutes
<1>4. \A r \in RecoveryRoutes : SoundRoute(r) BY DEF RecoveryRoutes
<1>5. \A r \in SessionRoutes : SoundRoute(r) BY DEF SessionRoutes
<1>6. \A r \in TeamRoutes : SoundRoute(r) BY DEF TeamRoutes
<1>7. \A r \in BillingRoutes : SoundRoute(r) BY DEF BillingRoutes
<1>8. \A r \in BillingEndRoutes : SoundRoute(r) BY DEF BillingEndRoutes
<1>9. \A r \in ModeRoutes : SoundRoute(r) BY DEF ModeRoutes
<1>10. \A r \in StorageRoutes : SoundRoute(r) BY DEF StorageRoutes
<1>11. \A r \in SummaryRoutes : SoundRoute(r) BY DEF SummaryRoutes
<1>12. \A r \in SupportRoutes : SoundRoute(r) BY DEF SupportRoutes
<1>13. \A r \in TestingRoutes : SoundRoute(r) BY DEF TestingRoutes
<1>14. \A r \in CustomerRoutes : SoundRoute(r) BY DEF CustomerRoutes
<1>15. \A r \in GarageRoutes : SoundRoute(r) BY DEF GarageRoutes
<1>16. \A r \in VehicleRoutes : SoundRoute(r) BY DEF VehicleRoutes
<1>17. \A r \in OrderRoutes : SoundRoute(r) BY DEF OrderRoutes
<1>18. \A r \in ReceiptRoutes : SoundRoute(r) BY DEF ReceiptRoutes
<1>19. \A r \in AllocationRoutes : SoundRoute(r) BY DEF AllocationRoutes
<1>20. \A r \in AllocationEventRoutes : SoundRoute(r) BY DEF AllocationEventRoutes
<1>21. \A r \in GapRoutes : SoundRoute(r) BY DEF GapRoutes
<1>22. \A r \in IntakeRoutes : SoundRoute(r) BY DEF IntakeRoutes
<1>23. \A r \in FindingRoutes : SoundRoute(r) BY DEF FindingRoutes
<1>24. \A r \in CompilationRoutes : SoundRoute(r) BY DEF CompilationRoutes
<1>25. \A r \in ProposalRoutes : SoundRoute(r) BY DEF ProposalRoutes
<1>26. \A r \in InspectionRoutes : SoundRoute(r) BY DEF InspectionRoutes
<1>27. \A r \in AssistantRoutes : SoundRoute(r) BY DEF AssistantRoutes
<1>28. \A r \in EstimateRoutes : SoundRoute(r) BY DEF EstimateRoutes
<1>29. \A r \in RevisionRoutes : SoundRoute(r) BY DEF RevisionRoutes
<1>30. \A r \in ApprovalRoutes : SoundRoute(r) BY DEF ApprovalRoutes
<1>31. \A r \in EstimateEndRoutes : SoundRoute(r) BY DEF EstimateEndRoutes
<1>32. \A r \in WorkOrderRoutes : SoundRoute(r) BY DEF WorkOrderRoutes
<1>33. \A r \in WorkRoutes : SoundRoute(r) BY DEF WorkRoutes
<1>34. \A r \in InvoiceRoutes : SoundRoute(r) BY DEF InvoiceRoutes
<1>35. \A r \in PaymentRoutes : SoundRoute(r) BY DEF PaymentRoutes
<1>36. \A r \in SquareRoutes : SoundRoute(r) BY DEF SquareRoutes
<1>37. \A r \in ReportRoutes : SoundRoute(r) BY DEF ReportRoutes
<1>38. \A r \in MoreReportRoutes : SoundRoute(r) BY DEF MoreReportRoutes
<1>39. \A r \in AvailabilityRoutes : SoundRoute(r) BY DEF AvailabilityRoutes
<1>40. \A r \in AppointmentRoutes : SoundRoute(r) BY DEF AppointmentRoutes
<1>41. \A r \in AppointmentChangeRoutes : SoundRoute(r) BY DEF AppointmentChangeRoutes
<1>42. \A r \in BayRoutes : SoundRoute(r) BY DEF BayRoutes
<1>43. \A r \in ContextRoutes : SoundRoute(r) BY DEF ContextRoutes
<1>44. \A r \in NotificationRoutes : SoundRoute(r) BY DEF NotificationRoutes
<1>45. \A r \in PartRoutes : SoundRoute(r) BY DEF PartRoutes
<1>46. \A r \in BlockRoutes : SoundRoute(r) BY DEF BlockRoutes
<1>47. \A r \in RosterRoutes : SoundRoute(r) BY DEF RosterRoutes
<1>48. \A r \in ClockRoutes : SoundRoute(r) BY DEF ClockRoutes
<1>49. \A r \in TechnicianRoutes : SoundRoute(r) BY DEF TechnicianRoutes
<1>50. \A r \in VendorRoutes : SoundRoute(r) BY DEF VendorRoutes
<1>51. \A r \in HoursRoutes : SoundRoute(r) BY DEF HoursRoutes
<1> QED BY <1>1, <1>2, <1>3, <1>4, <1>5, <1>6, <1>7, <1>8, <1>9, <1>10, <1>11, <1>12, <1>13, <1>14, <1>15, <1>16, <1>17, <1>18, <1>19, <1>20, <1>21, <1>22, <1>23, <1>24, <1>25, <1>26, <1>27, <1>28, <1>29, <1>30, <1>31, <1>32, <1>33, <1>34, <1>35, <1>36, <1>37, <1>38, <1>39, <1>40, <1>41, <1>42, <1>43, <1>44, <1>45, <1>46, <1>47, <1>48, <1>49, <1>50, <1>51 DEF Routes

\* A kind of routes keeps all of them but the name.
LEMMA KindsAreSound == \A r \in RouteKinds : SoundRoute(r)
<1> SUFFICES ASSUME NEW r \in Routes, r.name \notin Steering
             PROVE  SoundRoute([r EXCEPT !.name = r.area])
  BY RoutesAreSound DEF RouteKinds
<1> DEFINE k == [r EXCEPT !.name = r.area]
<1>1. r = [field \in RouteFields |-> r[field]] /\ Sound(r.gate, r.area, r.effect, r.answers, {r.name})
  BY RoutesAreSound DEF SoundRoute
<1>2. /\ k.gate = r.gate /\ k.area = r.area /\ k.effect = r.effect
      /\ k.answers = r.answers /\ k.name = r.area
      /\ k = [field \in RouteFields |-> k[field]]
  BY <1>1 DEF RouteFields
<1>3. Sound(r.gate, r.area, r.effect, r.answers, {r.area})
  BY <1>1 DEF Sound, Steering
<1> HIDE DEF k
<1>4. SoundRoute(k) BY <1>2, <1>3 DEF SoundRoute
<1> QED BY <1>4 DEF k

Holders == People \cup {"none", "owner", "support"}
What == {"accounts", "audit", "business", "standing"}
Request ==
    [pc : {"arrived", "known", "gated", "counted", "answered"}, by : People,
     account : Holders, route : RouteKinds, answer : Nat, counted : BOOLEAN,
     sawGood : BOOLEAN, sawLapsed : BOOLEAN, wrote : SUBSET What]

HttpTypeOK ==
    /\ session \in [People -> Holders]
    /\ disabled \in {"no", "suspended", "archived"}
    /\ verified \in BOOLEAN /\ good \in BOOLEAN
    /\ cached \in {"active", "suspended"} /\ stray \subseteq {"live", "lapsed"}
    /\ request \in {NoRequest} \cup Request

\* What a request that passed the gate of its route has shown.
Admitted(x) ==
    NeedsSession(x.route.gate) =>
        /\ x.account \in GateRoles(x.route.gate)
        /\ NeedsStanding(x.route.gate) => x.sawGood

\* Past the gate, a request has shown what the gate asks for; 402 came from a
\* gate that asks for the standing, in a shop that had lapsed; and what the
\* request saw of the standing while under way includes how it is now.
GateInv ==
    /\ request.pc \in {"gated", "counted"} \/ Succeeded => Admitted(request)
    /\ request.pc = "answered" /\ request.answer = 402
          => /\ request.sawLapsed
             /\ NeedsSession(request.route.gate) /\ NeedsStanding(request.route.gate)
    /\ Underway => request.sawGood \/ ~good
    /\ Underway => request.sawLapsed \/ good

HttpInv == HttpTypeOK /\ GateInv

\* Another point of the same request, which has written something more.
Same(x, y, what) ==
    /\ y \in Request /\ y.account = x.account /\ y.route = x.route
    /\ y.sawGood = x.sawGood /\ y.sawLapsed = x.sawLapsed
    /\ y.wrote = x.wrote \cup what

LEMMA OnwardFields ==
    ASSUME NEW x \in Request, NEW pc \in {"known", "gated", "counted"}
    PROVE  Same(x, [x EXCEPT !.pc = pc], {}) /\ [x EXCEPT !.pc = pc].pc = pc
<1> DEFINE y == [x EXCEPT !.pc = pc]
<1>1. /\ y \in Request /\ y.account = x.account /\ y.route = x.route
      /\ y.sawGood = x.sawGood /\ y.sawLapsed = x.sawLapsed /\ y.wrote = x.wrote /\ y.pc = pc
  BY DEF Request
<1> HIDE DEF y
<1>2. Same(x, y, {}) /\ y.pc = pc
  BY <1>1 DEF Same
<1> QED BY <1>2 DEF y

LEMMA CountedFields ==
    ASSUME NEW x \in Request
    PROVE  /\ Same(x, [x EXCEPT !.pc = "counted", !.counted = TRUE], {})
           /\ [x EXCEPT !.pc = "counted", !.counted = TRUE].pc = "counted"
<1> DEFINE y == [x EXCEPT !.pc = "counted", !.counted = TRUE]
<1>1. /\ y \in Request /\ y.account = x.account /\ y.route = x.route
      /\ y.sawGood = x.sawGood /\ y.sawLapsed = x.sawLapsed /\ y.wrote = x.wrote
      /\ y.pc = "counted"
  BY DEF Request
<1> HIDE DEF y
<1>2. Same(x, y, {}) /\ y.pc = "counted"
  BY <1>1 DEF Same
<1> QED BY <1>2 DEF y

LEMMA MovesOn ==
    ASSUME request \in Request, NEW pc \in {"known", "gated", "counted"}, Onward(pc)
    PROVE  Same(request, request', {}) /\ request'.pc = pc
BY OnwardFields, Zenon DEF Onward

LEMMA WritesAndMovesOn ==
    ASSUME request \in Request, NEW what \in SUBSET What,
           NEW pc \in {"known", "gated", "counted"}, OnwardWriting(pc, what)
    PROVE  Same(request, request', what) /\ request'.pc = pc
<1> DEFINE w == request.wrote \cup what
<1>1. w \in SUBSET What
  BY DEF Request
<1>2. request' = [request EXCEPT !.pc = pc, !.wrote = w]
  BY DEF OnwardWriting
<1>3. w = request.wrote \cup what
  OBVIOUS
<1> HIDE DEF w
<1> QED BY <1>1, <1>2, <1>3 DEF Request, Same

LEMMA WritesAndAnswers ==
    ASSUME request \in Request, NEW what \in SUBSET What, NEW code \in Nat,
           AnswerWriting(code, what)
    PROVE  Same(request, request', what) /\ request'.pc = "answered" /\ request'.answer = code
<1> DEFINE w == request.wrote \cup what
<1>1. w \in SUBSET What
  BY DEF Request
<1>2. request' = [request EXCEPT !.pc = "answered", !.answer = code, !.wrote = w]
  BY DEF AnswerWriting
<1>3. w = request.wrote \cup what
  OBVIOUS
<1> HIDE DEF w
<1> QED BY <1>1, <1>2, <1>3 DEF Request, Same

LEMMA AnswerFields ==
    ASSUME NEW x \in Request, NEW code \in Nat
    PROVE  /\ Same(x, [x EXCEPT !.pc = "answered", !.answer = code], {})
           /\ [x EXCEPT !.pc = "answered", !.answer = code].pc = "answered"
           /\ [x EXCEPT !.pc = "answered", !.answer = code].answer = code
<1> DEFINE y == [x EXCEPT !.pc = "answered", !.answer = code]
<1>1. /\ y \in Request /\ y.account = x.account /\ y.route = x.route
      /\ y.sawGood = x.sawGood /\ y.sawLapsed = x.sawLapsed /\ y.wrote = x.wrote
      /\ y.pc = "answered" /\ y.answer = code
  BY DEF Request
<1> HIDE DEF y
<1>2. Same(x, y, {}) /\ y.pc = "answered" /\ y.answer = code
  BY <1>1 DEF Same
<1> QED BY <1>2 DEF y

LEMMA AnsweredFields ==
    ASSUME request \in Request, NEW code \in Nat, Answer(code)
    PROVE  Same(request, request', {}) /\ request'.pc = "answered" /\ request'.answer = code
BY AnswerFields, Zenon DEF Answer

\* What an operation writes.
LEMMA WritesAre ==
    /\ \A route : Writes(route) \in SUBSET {"accounts", "audit", "business"}
    /\ Correction \in SUBSET {"standing"} /\ Closing \in SUBSET {"audit"}
BY DEF Writes, Correction, Closing

\* The answer of an operation that succeeds.
LEMMA DoneFields ==
    ASSUME request \in Request, Operate
    PROVE  /\ request' \in Request /\ request'.pc = "answered" /\ request'.answer = 200
           /\ request'.account = request.account /\ request'.route = request.route
           /\ request'.sawGood <=> (request.sawGood \/ good')
           /\ request'.wrote = request.wrote \cup (Writes(request.route) \cup Correction)
<1> DEFINE g == request.sawGood \/ good'
           l == request.sawLapsed \/ ~good'
           w == request.wrote \cup (Writes(request.route) \cup Correction)
<1>1. request' = [request EXCEPT !.pc = "answered", !.answer = 200, !.sawGood = g,
                                 !.sawLapsed = l, !.wrote = w]
  BY DEF Operate, Request
<1>2. g \in BOOLEAN /\ l \in BOOLEAN
  OBVIOUS
<1>3. w \in SUBSET What
  BY WritesAre DEF What, Request
<1> HIDE DEF g, l, w
<1>4. /\ request' \in Request /\ request'.pc = "answered" /\ request'.answer = 200
      /\ request'.account = request.account /\ request'.route = request.route
      /\ request'.sawGood = g /\ request'.wrote = w
  <2>1. /\ request'.pc = "answered" /\ request'.answer = 200 /\ request'.by = request.by
        /\ request'.counted = request.counted
        /\ request'.account = request.account /\ request'.route = request.route
        /\ request'.sawGood = g /\ request'.sawLapsed = l /\ request'.wrote = w
    BY <1>1 DEF Request
  <2>2. request' = [pc |-> "answered", by |-> request.by, account |-> request.account,
                    route |-> request.route, answer |-> 200, counted |-> request.counted,
                    sawGood |-> g, sawLapsed |-> l, wrote |-> w]
    BY <1>1 DEF Request
  <2>3. request' \in Request
    BY <1>2, <1>3, <2>2 DEF Request
  <2> QED BY <2>1, <2>3
<1> QED BY <1>4 DEF g, w

\* The step keeps accounts and dates.
Elsewhere == /\ UNCHANGED <<disabled, verified, good>>
             /\ session' \in [People -> Holders]
             /\ cached' \in {"active", "suspended"} /\ stray' \subseteq {"live", "lapsed"}

LEMMA Refused ==
    ASSUME HttpInv, Elsewhere, request \in Request, NEW code \in Nat, code # 200, code # 402,
           NEW what, Same(request, request', what), request'.pc = "answered",
           request'.answer = code
    PROVE  HttpInv'
<1>2. HttpTypeOK'
  BY DEF HttpInv, HttpTypeOK, Elsewhere, Same
<1>3. GateInv'
  BY DEF GateInv, Succeeded, Underway
<1> QED BY <1>2, <1>3 DEF HttpInv

LEMMA Proceeds ==
    ASSUME HttpInv, Elsewhere, request \in Request, Underway,
           NEW what, Same(request, request', what),
           request'.pc \in {"known", "gated", "counted"},
           request'.pc \in {"gated", "counted"} => Admitted(request)
    PROVE  HttpInv'
<1>1. HttpTypeOK'
  BY DEF HttpInv, HttpTypeOK, Elsewhere, Same
<1>2. Admitted(request) => Admitted(request')
  BY DEF Admitted, Same
<1>3. GateInv'
  BY <1>2 DEF HttpInv, GateInv, Succeeded, Underway, Same, Elsewhere
<1> QED BY <1>1, <1>3 DEF HttpInv

\* What the gate of a route may do.
GateRefuses ==
    LET gate == request.route.gate
    IN  NeedsSession(gate) /\ \/ request.account \notin GateRoles(gate)
                              \/ NeedsEmail(gate) /\ request.account = "owner" /\ ~verified

LEMMA GateCases ==
    ASSUME PassGate
    PROVE  LET gate == request.route.gate IN
           /\ UNCHANGED <<session, disabled, verified, good>>
           /\ \/ (Answer(404) \/ Answer(403)) /\ UNCHANGED <<cached, stray>>
              \/ /\ ~GateRefuses /\ NeedsStanding(gate) /\ Synced /\ UNCHANGED stray
                 /\ \/ good /\ OnwardWriting("gated", Correction)
                    \/ ~good /\ AnswerWriting(402, Correction)
              \/ /\ ~GateRefuses /\ ~NeedsStanding(gate) /\ gate = "support"
                 /\ Swept /\ OnwardWriting("gated", Closing) /\ UNCHANGED cached
              \/ /\ ~GateRefuses /\ ~NeedsStanding(gate) /\ Onward("gated")
                 /\ UNCHANGED <<cached, stray>>
<1> DEFINE gate == request.route.gate
           a == request.account
           refused == NeedsSession(gate) /\ \/ a \notin GateRoles(gate)
                                            \/ NeedsEmail(gate) /\ a = "owner" /\ ~verified
<1>1. refused <=> GateRefuses
  BY DEF GateRefuses
<1>7. /\ gate = "testing" => ~refused /\ ~NeedsStanding(gate)
      /\ gate = "support" => ~NeedsStanding(gate)
  BY DEF NeedsSession, NeedsStanding
<1>8. /\ UNCHANGED <<session, disabled, verified, good>>
      /\ CASE gate = "testing" /\ ~TestSupport -> Answer(404) /\ UNCHANGED <<cached, stray>>
           [] refused                          -> Answer(403) /\ UNCHANGED <<cached, stray>>
           [] ~refused /\ NeedsStanding(gate)  ->
                /\ Synced /\ UNCHANGED stray
                /\ IF good THEN OnwardWriting("gated", Correction)
                   ELSE AnswerWriting(402, Correction)
           [] ~refused /\ gate = "support"     ->
                Swept /\ OnwardWriting("gated", Closing) /\ UNCHANGED cached
           [] OTHER                            -> Onward("gated") /\ UNCHANGED <<cached, stray>>
  BY DEF PassGate
<1> HIDE DEF gate, a, refused
<1>2. CASE gate = "testing" /\ ~TestSupport
  <2>1. Answer(404) /\ UNCHANGED <<cached, stray>>
    BY <1>2, <1>7, <1>8
  <2> QED BY <1>8, <2>1
<1>3. CASE ~(gate = "testing" /\ ~TestSupport) /\ refused
  <2>1. Answer(403) /\ UNCHANGED <<cached, stray>>
    BY <1>3, <1>8
  <2> QED BY <1>8, <2>1
<1>4. CASE ~(gate = "testing" /\ ~TestSupport) /\ ~refused /\ NeedsStanding(gate)
  <2>1. /\ Synced /\ UNCHANGED stray
        /\ IF good THEN OnwardWriting("gated", Correction)
           ELSE AnswerWriting(402, Correction)
    BY <1>4, <1>7, <1>8
  <2> QED BY <1>1, <1>4, <1>8, <2>1 DEF gate
<1>5. CASE ~(gate = "testing" /\ ~TestSupport) /\ ~refused /\ ~NeedsStanding(gate)
           /\ gate = "support"
  <2>1. Swept /\ OnwardWriting("gated", Closing) /\ UNCHANGED cached
    BY <1>5, <1>8
  <2> QED BY <1>1, <1>5, <1>8, <2>1 DEF gate
<1>6. CASE ~(gate = "testing" /\ ~TestSupport) /\ ~refused /\ ~NeedsStanding(gate)
           /\ gate # "support"
  <2>1. Onward("gated") /\ UNCHANGED <<cached, stray>>
    BY <1>6, <1>8
  <2> QED BY <1>1, <1>6, <1>8, <2>1 DEF gate
<1> QED BY <1>2, <1>3, <1>4, <1>5, <1>6

LEMMA HttpStep == HttpInv /\ [HttpNext]_httpVars => HttpInv'
<1> SUFFICES ASSUME HttpInv, [HttpNext]_httpVars PROVE HttpInv' OBVIOUS
<1>a. /\ session \in [People -> Holders]
      /\ disabled \in {"no", "suspended", "archived"}
      /\ verified \in BOOLEAN /\ good \in BOOLEAN
      /\ cached \in {"active", "suspended"} /\ stray \subseteq {"live", "lapsed"}
      /\ request \in {NoRequest} \cup Request
  BY DEF HttpInv, HttpTypeOK
<1>b. NoRequest.pc = "idle"
  BY DEF NoRequest
<1>c. request.pc # "idle" => request \in Request
  BY <1>a, <1>b
<1>1. ASSUME NEW p \in People, NEW route \in RouteKinds, Arrive(p, route)
      PROVE  HttpInv'
  <2> DEFINE x == [pc |-> "arrived", by |-> p, account |-> session[p], route |-> route,
                   answer |-> 0, counted |-> FALSE, sawGood |-> good, sawLapsed |-> ~good,
                   wrote |-> {}]
  <2>1. x \in Request /\ x.pc = "arrived" /\ x.sawGood = good /\ x.sawLapsed = ~good
    BY <1>a DEF Request
  <2>2. request' = x /\ UNCHANGED <<session, disabled, verified, good, cached, stray>>
    BY <1>1 DEF Arrive
  <2> HIDE DEF x
  <2>3. HttpTypeOK' BY <1>a, <2>1, <2>2 DEF HttpTypeOK
  <2>4. GateInv' BY <1>a, <2>1, <2>2 DEF GateInv, Succeeded, Underway
  <2> QED BY <2>3, <2>4 DEF HttpInv
<1>2. ASSUME Authenticate PROVE HttpInv'
  <2>1. request \in Request /\ Underway /\ Elsewhere
    BY <1>2, <1>a, <1>c DEF Authenticate, Underway, Elsewhere
  <2>2. CASE Answer(401)
    BY <2>1, <2>2, AnsweredFields, Refused
  <2>3. CASE Onward("known")
    BY <2>1, <2>3, MovesOn, Proceeds
  <2> QED BY <1>2, <2>2, <2>3 DEF Authenticate
<1>3. ASSUME PassGate PROVE HttpInv'
  <2> DEFINE gate == request.route.gate
  <2>1. request \in Request /\ Underway
    BY <1>3, <1>c DEF PassGate, Underway
  <2>2. ASSUME Synced \/ UNCHANGED cached, Swept \/ UNCHANGED stray PROVE Elsewhere
    BY <1>3, <1>a, <2>2, GateCases DEF Synced, Swept, Elsewhere
  <2>3. ASSUME Answer(404) \/ Answer(403), UNCHANGED <<cached, stray>> PROVE HttpInv'
    BY <2>1, <2>2, <2>3, AnsweredFields, Refused
  <2>4. ASSUME ~GateRefuses, ~NeedsStanding(gate) \/ good, Elsewhere,
               NEW what \in SUBSET What, Same(request, request', what), request'.pc = "gated"
        PROVE  HttpInv'
    <3>1. Admitted(request)
      <4>1. good => request.sawGood BY <2>1 DEF HttpInv, GateInv
      <4> QED BY <2>4, <4>1 DEF Admitted, GateRefuses
    <3> QED BY <2>1, <2>4, <3>1, Proceeds
  <2>5. ASSUME NeedsStanding(gate), ~good, Synced, UNCHANGED stray,
               AnswerWriting(402, Correction)
        PROVE  HttpInv'
    <3>1. Correction \in SUBSET What BY WritesAre DEF What
    <3>2. Same(request, request', Correction) /\ request'.pc = "answered" /\ request'.answer = 402
      BY <2>1, <2>5, <3>1, WritesAndAnswers
    <3>3. Elsewhere BY <2>2, <2>5
    <3>4. HttpTypeOK'
      BY <1>a, <2>1, <3>2, <3>3 DEF HttpTypeOK, Same, Elsewhere
    <3>5. request.sawLapsed /\ NeedsSession(gate)
      BY <2>1, <2>5 DEF HttpInv, GateInv, NeedsSession, NeedsStanding
    <3>6. GateInv'
      BY <2>5, <3>2, <3>5 DEF GateInv, Succeeded, Underway, Same
    <3> QED BY <3>4, <3>6 DEF HttpInv
  <2>6. CASE (Answer(404) \/ Answer(403)) /\ UNCHANGED <<cached, stray>>
    BY <2>3, <2>6
  <2>7. CASE /\ ~GateRefuses /\ NeedsStanding(gate) /\ Synced /\ UNCHANGED stray
             /\ \/ good /\ OnwardWriting("gated", Correction)
                \/ ~good /\ AnswerWriting(402, Correction)
    <3>1. Correction \in SUBSET What BY WritesAre DEF What
    <3>2. CASE good /\ OnwardWriting("gated", Correction)
      <4>1. Same(request, request', Correction) /\ request'.pc = "gated"
        BY <2>1, <3>1, <3>2, WritesAndMovesOn
      <4> QED BY <2>2, <2>4, <2>7, <3>1, <3>2, <4>1
    <3> QED BY <2>5, <2>7, <3>2
  <2>8. CASE /\ ~GateRefuses /\ ~NeedsStanding(gate) /\ Swept
             /\ OnwardWriting("gated", Closing) /\ UNCHANGED cached
    <3>1. Closing \in SUBSET What BY WritesAre DEF What
    <3>2. Same(request, request', Closing) /\ request'.pc = "gated"
      BY <2>1, <2>8, <3>1, WritesAndMovesOn
    <3> QED BY <2>2, <2>4, <2>8, <3>1, <3>2
  <2>9. CASE /\ ~GateRefuses /\ ~NeedsStanding(gate) /\ Onward("gated")
             /\ UNCHANGED <<cached, stray>>
    <3>1. Same(request, request', {}) /\ request'.pc = "gated"
      BY <2>1, <2>9, MovesOn
    <3> QED BY <2>2, <2>4, <2>9, <3>1
  <2> HIDE DEF gate
  <2> QED BY <1>3, <2>6, <2>7, <2>8, <2>9, GateCases DEF gate
<1>4. ASSUME Throttle PROVE HttpInv'
  <2>1. request \in Request /\ Underway /\ Elsewhere /\ Admitted(request)
    BY <1>4, <1>a, <1>c DEF Throttle, Underway, Elsewhere, HttpInv, GateInv
  <2>2. CASE Answer(429)
    BY <2>1, <2>2, AnsweredFields, Refused
  <2>3. CASE Onward("counted")
    BY <2>1, <2>3, MovesOn, Proceeds
  <2>4. CASE request' = [request EXCEPT !.pc = "counted", !.counted = TRUE]
    <3>1. Same(request, request', {}) /\ request'.pc = "counted"
      BY <2>1, <2>4, CountedFields, Zenon
    <3> QED BY <2>1, <3>1, Proceeds
  <2> QED BY <1>4, <2>2, <2>3, <2>4 DEF Throttle
<1>5. ASSUME OperateRefused PROVE HttpInv'
  <2>1. request \in Request /\ Elsewhere
    <3>1. request.pc = "counted" /\ UNCHANGED <<session, disabled, verified, good, cached, stray>>
      BY <1>5 DEF OperateRefused
    <3> QED BY <1>a, <1>c, <3>1 DEF Elsewhere
  <2>2. /\ request.route.answers \subseteq Nat
        /\ 200 \notin request.route.answers /\ 402 \notin request.route.answers
    BY <2>1, KindsAreSound DEF Request, SoundRoute, Sound
  <2>3. ASSUME NEW code \in {403} \cup request.route.answers \cup {422, 500}, NEW what,
               Same(request, request', what), request'.pc = "answered", request'.answer = code
        PROVE  HttpInv'
    <3>1. code \in Nat /\ code # 200 /\ code # 402 BY <2>2
    <3> QED BY <2>1, <2>3, <3>1, Refused
  <2>4. CASE Answer(403)
    <3>1. 403 \in Nat /\ 403 \in {403} \cup request.route.answers \cup {422, 500} OBVIOUS
    <3>2. Same(request, request', {}) /\ request'.pc = "answered" /\ request'.answer = 403
      BY <2>1, <2>4, AnsweredFields
    <3> QED BY <2>3, <3>1, <3>2
  <2>5. ASSUME NEW code \in request.route.answers \cup {422, 500},
               NEW part \in SUBSET (Writes(request.route) \cap {"business"}),
               AnswerWriting(code, part)
        PROVE  HttpInv'
    <3>1. part \in SUBSET What BY DEF What
    <3>2. code \in Nat BY <2>2
    <3>3. Same(request, request', part) /\ request'.pc = "answered" /\ request'.answer = code
      BY <2>1, <2>5, <3>1, <3>2, WritesAndAnswers
    <3>4. code \in {403} \cup request.route.answers \cup {422, 500} OBVIOUS
    <3> QED BY <2>3, <3>3, <3>4
  <2> QED BY <1>5, <2>4, <2>5 DEF OperateRefused
<1>6. ASSUME Operate PROVE HttpInv'
  <2> DEFINE name == request.route.name
             p == request.by
  <2>1. request \in Request /\ request.pc = "counted"
    BY <1>6, <1>c DEF Operate
  <2>2. session' \in [People -> Holders]
    <3>1. session' \in SessionsAfter(name, p, request.account) BY <1>6 DEF Operate
    <3>2. p \in People BY <2>1 DEF Request
    <3> HIDE DEF name, p
    <3>3. session' = session \/ (\E q \in People, a \in Holders : session' = [session EXCEPT ![q] = a])
          \/ (\E people : session' = SessionsEnded(people))
      BY <3>1, <3>2 DEF SessionsAfter, Holders
    <3>4. \A people : SessionsEnded(people) \in [People -> Holders]
      BY <1>a DEF SessionsEnded, Holders
    <3> QED BY <1>a, <3>3, <3>4
  <2>3. /\ disabled' \in {"no", "suspended", "archived"}
        /\ verified' \in BOOLEAN /\ good' \in BOOLEAN
    <3>1. disabled' \in {"no", "suspended", "archived"}
      BY <1>6, <1>a DEF Operate, DisabledAfter
    <3> QED BY <3>1, <1>6, <1>a DEF Operate
  <2>4. cached' \in {"active", "suspended"}
    BY <1>6, <1>a DEF Operate, Synced
  <2>5. /\ request' \in Request /\ request'.pc = "answered" /\ request'.answer = 200
        /\ request'.account = request.account /\ request'.route = request.route
        /\ request.sawGood => request'.sawGood
    BY <1>6, <2>1, DoneFields
  <2>a. stray' \subseteq {"live", "lapsed"}
    <3>1. stray' \in StrayAfter(name, p, request.account) BY <1>6 DEF Operate
    <3> HIDE DEF name, p
    <3> QED BY <1>a, <3>1 DEF StrayAfter
  <2>6. Admitted(request) BY <2>1 DEF HttpInv, GateInv
  <2>7. Admitted(request') BY <2>5, <2>6 DEF Admitted
  <2>8. HttpTypeOK' BY <2>2, <2>3, <2>4, <2>5, <2>a DEF HttpTypeOK
  <2>9. GateInv' BY <2>5, <2>7 DEF GateInv, Underway, Succeeded
  <2> QED BY <2>8, <2>9 DEF HttpInv
<1>11. ASSUME OperateCutShort PROVE HttpInv'
  <2>1. /\ request \in Request
        /\ session' = session \/ session' = SessionsEnded({request.by})
        /\ stray' \subseteq stray \cup {"live"} /\ UNCHANGED <<disabled, verified, good, cached>>
        /\ AnswerWriting(500, {"accounts"})
    BY <1>11, <1>c DEF OperateCutShort
  <2>2. {"accounts"} \in SUBSET What BY DEF What
  <2>3. /\ Same(request, request', {"accounts"}) /\ request'.pc = "answered"
        /\ request'.answer = 500
    BY <2>1, <2>2, WritesAndAnswers
  <2>4. Elsewhere
    BY <1>a, <2>1 DEF Elsewhere, SessionsEnded, Holders
  <2> QED BY <2>1, <2>3, <2>4, Refused
<1>12. ASSUME ExpireStray PROVE HttpInv'
  <2>1. /\ UNCHANGED <<session, disabled, verified, good, cached, request>>
        /\ stray' \subseteq {"live", "lapsed"}
    BY <1>12, <1>a DEF ExpireStray
  <2>2. HttpTypeOK' BY <1>a, <2>1 DEF HttpTypeOK
  <2> QED BY <2>1, <2>2 DEF HttpInv, GateInv, Succeeded, Underway, Admitted
<1>7. ASSUME Deliver PROVE HttpInv'
  <2>1. request'.pc = "idle" BY <1>7, <1>b DEF Deliver
  <2>2. HttpTypeOK' BY <1>7, <1>a DEF Deliver, HttpTypeOK
  <2> QED BY <2>1, <2>2 DEF HttpInv, GateInv, Succeeded, Underway
<1>8. ASSUME NEW p \in People, Expire(p) PROVE HttpInv'
  <2>1. /\ UNCHANGED <<disabled, verified, good, cached, request>>
        /\ session' = SessionsEnded({p}) /\ stray' \subseteq {"live", "lapsed"}
    BY <1>8, <1>a DEF Expire
  <2>2. session' \in [People -> Holders] BY <1>a, <2>1 DEF SessionsEnded, Holders
  <2>3. HttpTypeOK' BY <1>a, <2>1, <2>2 DEF HttpTypeOK
  <2> QED BY <2>1, <2>3 DEF HttpInv, GateInv, Succeeded, Underway, Admitted
<1>10. ASSUME Lapse PROVE HttpInv'
  <2>1. good' = FALSE /\ UNCHANGED <<session, disabled, verified, cached, stray>>
    BY <1>10 DEF Lapse
  <2>2. CASE Underway /\ request' = [request EXCEPT !.sawLapsed = TRUE]
    <3>1. request \in Request BY <1>c, <2>2 DEF Underway
    <3>2. /\ request' \in Request /\ request'.sawLapsed /\ request'.pc = request.pc
          /\ request'.account = request.account /\ request'.route = request.route
          /\ request'.sawGood = request.sawGood
      BY <2>2, <3>1 DEF Request
    <3>3. Admitted(request) => Admitted(request') BY <3>2 DEF Admitted
    <3>4. HttpTypeOK' BY <1>a, <2>1, <3>2 DEF HttpTypeOK
    <3>5. GateInv' BY <2>1, <2>2, <3>2, <3>3 DEF HttpInv, GateInv, Succeeded, Underway
    <3> QED BY <3>4, <3>5 DEF HttpInv
  <2>3. CASE ~Underway /\ request' = request
    <3>1. HttpTypeOK' BY <1>a, <2>1, <2>3 DEF HttpTypeOK
    <3> QED BY <2>1, <2>3, <3>1 DEF HttpInv, GateInv, Succeeded, Underway, Admitted
  <2> QED BY <1>10, <2>2, <2>3 DEF Lapse
<1>9. CASE UNCHANGED httpVars
  BY <1>9 DEF httpVars, HttpInv, HttpTypeOK, GateInv, Admitted, Underway, Succeeded
<1> QED BY <1>1, <1>2, <1>3, <1>4, <1>5, <1>6, <1>7, <1>8, <1>9, <1>10, <1>11, <1>12
        DEF HttpNext

LEMMA HttpBegins == HttpInit => HttpInv
<1> SUFFICES ASSUME HttpInit PROVE HttpInv OBVIOUS
<1>1. request = NoRequest /\ request.pc = "idle"
  BY DEF HttpInit, NoRequest
<1>2. session \in [People -> Holders]
  BY DEF HttpInit, Holders
<1>3. HttpTypeOK
  BY <1>1, <1>2 DEF HttpInit, HttpTypeOK
<1> QED BY <1>1, <1>3 DEF HttpInv, GateInv, Underway, Succeeded

LEMMA HttpInvariant == HttpSpec => []HttpInv
BY HttpBegins, HttpStep, PTL DEF HttpSpec

\* A request has the route of some handler.
LEMMA RouteOfRequest ==
    ASSUME HttpInv, request.pc # "idle"
    PROVE  request \in Request /\ SoundRoute(request.route)
<1>1. request \in Request
  BY DEF HttpInv, HttpTypeOK, NoRequest
<1>2. request.route \in RouteKinds
  BY <1>1 DEF Request
<1> QED BY <1>1, <1>2, KindsAreSound

\* Business of a signed-in caller is served only in good standing, and 402
\* answers only business, whatever lapses and is paid while the request is on
\* its way, and whichever of the routes it takes.
THEOREM SuspensionIsExactTheorem == HttpSpec => []SuspensionIsExact
<1>1. HttpInv => SuspensionIsExact
  <2> SUFFICES ASSUME HttpInv PROVE SuspensionIsExact OBVIOUS
  <2>1. CASE request.pc # "answered"
    BY <2>1 DEF SuspensionIsExact, Succeeded
  <2>2. CASE request.pc = "answered"
    <3>1. Sound(request.route.gate, request.route.area, request.route.effect,
                request.route.answers, {request.route.name})
      BY <2>2, RouteOfRequest DEF SoundRoute
    <3>2. NeedsSession(request.route.gate)
            => (NeedsStanding(request.route.gate) <=> request.route.area \notin OpenToLapsed)
      BY <3>1 DEF Sound
    <3> QED BY <2>2, <3>2 DEF SuspensionIsExact, SignedIn, HttpInv, GateInv, Admitted
  <2> QED BY <2>1, <2>2
<1> QED BY <1>1, HttpInvariant, PTL

\* What the capability matrix hides from a technician, no route serves to one.
THEOREM HiddenStaysClosedTheorem == HttpSpec => []HiddenStaysClosed
<1>1. HttpInv => HiddenStaysClosed
  <2> SUFFICES ASSUME HttpInv, Succeeded, SignedIn, request.account = "technician",
                      request.route.area \in DOMAIN CapabilityOfArea
               PROVE  FALSE
    BY DEF HiddenStaysClosed
  <2>1. Sound(request.route.gate, request.route.area, request.route.effect,
              request.route.answers, {request.route.name})
    BY RouteOfRequest DEF SoundRoute, Succeeded
  <2>2. "technician" \notin GateRoles(request.route.gate)
    BY <2>1 DEF Sound, SignedIn
  <2>3. "technician" \in GateRoles(request.route.gate)
    BY DEF HttpInv, GateInv, Admitted, SignedIn
  <2> QED BY <2>2, <2>3
<1> QED BY <1>1, HttpInvariant, PTL

\* What a request of support's own account has written, at any point of it.
Trace(x) ==
    NeedsSession(x.route.gate) /\ x.account = "support" =>
        /\ x.wrote \subseteq {"accounts", "audit"}
        /\ "audit" \in x.wrote => x.route.gate = "support"

TraceInv == request # NoRequest => Trace(request)

LEMMA TraceGrows ==
    ASSUME NEW x, NEW y, NEW what, Trace(x),
           y.route = x.route, y.account = x.account, y.wrote = x.wrote \cup what,
           NeedsSession(x.route.gate) /\ x.account = "support" =>
               /\ what \subseteq {"accounts", "audit"}
               /\ "audit" \in what => x.route.gate = "support"
    PROVE  Trace(y)
BY DEF Trace

\* An operation that support's own account gets through writes accounts and audit
\* events, the latter on a route of support.
LEMMA SupportWrites ==
    ASSUME HttpInv, request \in Request, request.pc = "counted", request.account = "support",
           NeedsSession(request.route.gate), InShop(request.route.area, request.account)
    PROVE  LET route == request.route IN
           /\ "business" \notin Writes(route)
           /\ "audit" \in Writes(route) =>
                 route.gate = "support" \/ route.name = "end_shop_impersonation_route"
           /\ route.name # "get_billing_subscription"
<1>1. /\ "support" \in GateRoles(request.route.gate)
      /\ Sound(request.route.gate, request.route.area, request.route.effect,
               request.route.answers, {request.route.name})
  BY RouteOfRequest DEF HttpInv, GateInv, Admitted, SoundRoute
<1>2. request.route.gate # "billing"
  BY <1>1 DEF GateRoles
<1>3. request.route.area # "context"
  BY DEF InShop
<1>4. request.route.effect = "write" => request.route.area \in {"accounts", "support"}
  BY <1>1, <1>3 DEF Sound
<1>5. request.route.effect # "write" => request.route.effect = "read"
  BY <1>1 DEF Sound
<1> DEFINE route == request.route
<1>6. /\ route.name # "get_billing_subscription"
      /\ route.area = "support" /\ route.effect = "write" /\ route.gate # "support"
            => route.name = "end_shop_impersonation_route"
  BY <1>1, <1>2 DEF Sound
<1> HIDE DEF route
<1>7. CASE route.effect = "read"
  <2>1. Writes(route) = {} BY <1>7 DEF Writes
  <2> QED BY <1>6, <2>1 DEF route
<1>8. CASE route.effect = "write" /\ route.area = "support"
  <2>1. Writes(route) = {"accounts", "audit"} BY <1>8 DEF Writes
  <2> QED BY <1>6, <1>8, <2>1 DEF route
<1>9. CASE route.effect = "write" /\ route.area = "accounts"
  <2>1. Writes(route) = {"accounts"} BY <1>9 DEF Writes
  <2> QED BY <1>6, <2>1 DEF route
<1> QED BY <1>4, <1>5, <1>7, <1>8, <1>9 DEF route

LEMMA TraceStep == HttpInv /\ TraceInv /\ [HttpNext]_httpVars => TraceInv'
<1> SUFFICES ASSUME HttpInv, TraceInv, [HttpNext]_httpVars PROVE TraceInv' OBVIOUS
<1>a. request = NoRequest \/ request \in Request
  BY DEF HttpInv, HttpTypeOK
<1>b. NoRequest.pc = "idle" BY DEF NoRequest
<1>c. request.pc # "idle" => request \in Request /\ Trace(request)
  BY <1>a, <1>b DEF TraceInv
<1>d. ASSUME request \in Request, Trace(request), NEW what, Same(request, request', what),
             NeedsSession(request.route.gate) /\ request.account = "support" =>
                 /\ what \subseteq {"accounts", "audit"}
                 /\ "audit" \in what => request.route.gate = "support"
      PROVE  TraceInv'
  BY <1>d, TraceGrows DEF TraceInv, Same
<1>e. ASSUME request \in Request, Trace(request), Same(request, request', {})
      PROVE  TraceInv'
  BY <1>d, <1>e
<1>1. ASSUME NEW p \in People, NEW route \in RouteKinds, Arrive(p, route) PROVE TraceInv'
  <2>1. request'.wrote = {} BY <1>1 DEF Arrive
  <2> QED BY <2>1 DEF TraceInv, Trace
<1>2. ASSUME Authenticate PROVE TraceInv'
  <2>1. request \in Request /\ Trace(request) BY <1>2, <1>c DEF Authenticate
  <2>2. Same(request, request', {})
    BY <1>2, <2>1, AnsweredFields, MovesOn DEF Authenticate
  <2> QED BY <1>e, <2>1, <2>2
<1>3. ASSUME PassGate PROVE TraceInv'
  <2>1. request \in Request /\ Trace(request) BY <1>3, <1>c DEF PassGate
  <2>2. CASE Answer(404) \/ Answer(403) \/ Onward("gated")
    BY <1>e, <2>1, <2>2, AnsweredFields, MovesOn
  <2>3. CASE /\ ~GateRefuses /\ NeedsStanding(request.route.gate)
             /\ \/ OnwardWriting("gated", Correction)
                \/ AnswerWriting(402, Correction)
    <3>1. Correction \in SUBSET What BY WritesAre DEF What
    <3>2. Same(request, request', Correction)
      BY <2>1, <2>3, <3>1, WritesAndMovesOn, WritesAndAnswers
    <3>3. request.account # "support"
      BY <2>3 DEF GateRefuses, NeedsStanding, NeedsSession, GateRoles
    <3> QED BY <1>d, <2>1, <3>2, <3>3
  <2>4. CASE request.route.gate = "support" /\ OnwardWriting("gated", Closing)
    <3>1. Closing \in SUBSET What /\ Closing \subseteq {"audit"} BY WritesAre DEF What
    <3>2. Same(request, request', Closing) BY <2>1, <2>4, <3>1, WritesAndMovesOn
    <3> QED BY <1>d, <2>1, <2>4, <3>1, <3>2
  <2> QED BY <1>3, <2>2, <2>3, <2>4, GateCases
<1>4. ASSUME Throttle PROVE TraceInv'
  <2>1. request \in Request /\ Trace(request) BY <1>4, <1>c DEF Throttle
  <2>2. Same(request, request', {})
    <3>1. CASE request' = [request EXCEPT !.pc = "counted", !.counted = TRUE]
      BY <2>1, <3>1, CountedFields, Zenon
    <3> QED BY <1>4, <2>1, <3>1, AnsweredFields, MovesOn DEF Throttle
  <2> QED BY <1>e, <2>1, <2>2
<1>5. ASSUME OperateRefused PROVE TraceInv'
  <2>1. request \in Request /\ Trace(request) /\ request.pc = "counted"
    <3>1. request.pc = "counted" BY <1>5 DEF OperateRefused
    <3> QED BY <1>c, <3>1
  <2>2. CASE Answer(403)
    BY <1>e, <2>1, <2>2, AnsweredFields
  <2>3. ASSUME InShop(request.route.area, request.account),
               NEW code \in request.route.answers \cup {422, 500},
               NEW part \in SUBSET (Writes(request.route) \cap {"business"}),
               AnswerWriting(code, part)
        PROVE  TraceInv'
    <3>1. part \in SUBSET What BY DEF What
    <3>2. code \in Nat
      BY <2>1, KindsAreSound DEF Request, SoundRoute, Sound
    <3>3. Same(request, request', part)
      BY <2>1, <2>3, <3>1, <3>2, WritesAndAnswers
    <3>4. NeedsSession(request.route.gate) /\ request.account = "support" => part = {}
      BY <2>1, <2>3, SupportWrites
    <3> QED BY <1>d, <2>1, <3>3, <3>4
  <2> QED BY <1>5, <2>2, <2>3 DEF OperateRefused
<1>6. ASSUME Operate PROVE TraceInv'
  <2> DEFINE what == Writes(request.route) \cup Correction
  <2>1. request \in Request /\ Trace(request) /\ request.pc = "counted"
    BY <1>6, <1>c DEF Operate
  <2>4. /\ request'.route = request.route /\ request'.account = request.account
        /\ request'.wrote = request.wrote \cup what
    BY <1>6, <2>1, DoneFields
  <2> HIDE DEF what
  <2>5. ASSUME NeedsSession(request.route.gate), request.account = "support"
        PROVE  /\ what \subseteq {"accounts", "audit"}
               /\ "audit" \in what => request.route.gate = "support"
    <3>1. /\ InShop(request.route.area, request.account)
          /\ request.route.name # "end_shop_impersonation_route"
      BY <1>6, <2>5 DEF Operate, Possible
    <3>2. Correction = {}
      <4>1. request.route.name # "get_billing_subscription"
        BY <2>1, <2>5, <3>1, SupportWrites
      <4>2. UNCHANGED cached BY <1>6, <4>1 DEF Operate
      <4> QED BY <4>2 DEF Correction
    <3> QED BY <2>1, <2>5, <3>1, <3>2, SupportWrites, WritesAre DEF what
  <2>6. Trace(request')
    BY <2>1, <2>4, <2>5, TraceGrows
  <2> QED BY <2>6 DEF TraceInv
<1>7. ASSUME OperateCutShort PROVE TraceInv'
  <2>1. /\ request \in Request /\ Trace(request)
        /\ AnswerWriting(500, {"accounts"})
    BY <1>7, <1>c DEF OperateCutShort
  <2>2. {"accounts"} \in SUBSET What BY DEF What
  <2>3. Same(request, request', {"accounts"}) BY <2>1, <2>2, WritesAndAnswers
  <2> QED BY <1>d, <2>1, <2>3
<1>8. ASSUME Deliver PROVE TraceInv'
  BY <1>8 DEF Deliver, TraceInv
<1>9. ASSUME Lapse PROVE TraceInv'
  <2>1. CASE Underway /\ request' = [request EXCEPT !.sawLapsed = TRUE]
    <3>1. request \in Request /\ Trace(request) BY <1>c, <2>1 DEF Underway
    <3>2. /\ request'.route = request.route /\ request'.account = request.account
          /\ request'.wrote = request.wrote
      BY <2>1, <3>1 DEF Request
    <3> QED BY <3>1, <3>2 DEF TraceInv, Trace
  <2> QED BY <1>9, <2>1 DEF Lapse, TraceInv, Trace
<1>10. CASE UNCHANGED request
  BY <1>10 DEF TraceInv, Trace
<1> QED BY <1>1, <1>2, <1>3, <1>4, <1>5, <1>6, <1>7, <1>8, <1>9, <1>10
        DEF HttpNext, httpVars, Expire, ExpireStray

\* Under its own account support leaves no trace in a shop but the events of its
\* impersonations, and those only from support's own routes, whatever it calls and
\* however the request ends.
THEOREM SupportLeavesShopsAloneTheorem == HttpSpec => []SupportLeavesShopsAlone
<1>1. HttpInit => HttpInv /\ TraceInv
  <2>1. HttpInit => TraceInv BY DEF HttpInit, TraceInv
  <2> QED BY <2>1, HttpBegins
<1>2. HttpInv /\ TraceInv => SupportLeavesShopsAlone
  BY DEF TraceInv, Trace, SupportLeavesShopsAlone, SignedIn
<1> QED BY <1>1, <1>2, HttpStep, TraceStep, PTL DEF HttpSpec

-----------------------------------------------------------------------------
(* The rate limiter: totals over the window, checks that take their member *)
(* back, and the memories of the servers                                   *)

\* Events by age.
Counts == [Ages -> Nat]

\* A total is the sum over the ages.
LEMMA TotalIs == \A f : Total(f) = SumOn(f, DOMAIN f)
BY DEF Total, FoldFunction, FoldFunctionOnSet, MapThenFoldSet, SumOn, IsIter, Pick

LEMMA AgesFacts ==
    /\ IsFiniteSet(Ages) /\ 0 \in Ages /\ Window - 1 \in Ages
    /\ \A a \in Ages : a \in Nat /\ a < Window
    /\ \A a \in Ages : a # 0 => a - 1 \in Ages
    /\ \A a \in Ages : a # Window - 1 => a + 1 \in Ages
BY LimitAssumption, FS_Interval DEF Ages

LEMMA TotalOfCounts ==
    ASSUME NEW f \in Counts
    PROVE  /\ Total(f) = SumOn(f, Ages) /\ Total(f) \in Nat
           /\ \A a \in Ages : Total(f) >= f[a]
<1>1. DOMAIN f = Ages /\ \A a \in Ages : f[a] \in Nat
  BY DEF Counts
<1>2. Total(f) = SumOn(f, Ages)
  BY <1>1, TotalIs
<1> QED BY <1>1, <1>2, AgesFacts, SumOfNaturals

\* One event more, or one less, at some age.
LEMMA TotalChanged ==
    ASSUME NEW f \in Counts, NEW a \in Ages, NEW n \in Nat
    PROVE  /\ [f EXCEPT ![a] = n] \in Counts
           /\ Total([f EXCEPT ![a] = n]) = Total(f) - f[a] + n
<1> DEFINE g == [f EXCEPT ![a] = n]
<1>1. g \in Counts /\ g[a] = n /\ \A b \in Ages \ {a} : g[b] = f[b]
  BY DEF Counts
<1>2. \A b \in Ages : f[b] \in Int /\ g[b] \in Int
  BY <1>1 DEF Counts
<1> HIDE DEF g
<1>3. SumOn(g, Ages) = SumOn(f, Ages) - f[a] + g[a]
  BY <1>1, <1>2, AgesFacts, SumUpdate
<1>4. Total(g) = Total(f) - f[a] + n
  BY <1>1, <1>3, TotalOfCounts
<1> QED BY <1>1, <1>4 DEF g

LEMMA TotalPlus ==
    ASSUME NEW f \in Counts
    PROVE  /\ Plus(f) \in Counts /\ Total(Plus(f)) = Total(f) + 1
           /\ Plus(f)[0] = f[0] + 1 /\ \A a \in Ages : a # 0 => Plus(f)[a] = f[a]
<1>1. f[0] + 1 \in Nat /\ f[0] \in Nat /\ 0 \in Ages
  BY AgesFacts DEF Counts
<1>2. Total(f) \in Nat
  BY TotalOfCounts
<1>3. Plus(f) \in Counts /\ Total(Plus(f)) = Total(f) - f[0] + (f[0] + 1)
  BY <1>1, TotalChanged DEF Plus
<1>4. Plus(f)[0] = f[0] + 1 /\ \A a \in Ages : a # 0 => Plus(f)[a] = f[a]
  BY <1>1 DEF Plus, Counts
<1> QED BY <1>1, <1>2, <1>3, <1>4

\* The window slides by a tick: the oldest events leave it.
LEMMA TotalAged ==
    ASSUME NEW f \in Counts
    PROVE  /\ Aged(f) \in Counts /\ Total(Aged(f)) = Total(f) - f[Window - 1]
           /\ Aged(f)[0] = 0 /\ \A a \in Ages : a # 0 => Aged(f)[a] = f[a - 1]
<1> DEFINE g == Aged(f)
           W == Window - 1
           S == Ages \ {W}
           h == [a \in S |-> a + 1]
<1>1. /\ g \in Counts /\ g[0] = 0 /\ \A a \in Ages : a # 0 => g[a] = f[a - 1]
  BY AgesFacts DEF Aged, Counts
<1>2. W \in Ages /\ IsFiniteSet(Ages) /\ IsFiniteSet(S) /\ 0 \in Ages
  BY AgesFacts, FS_RemoveElement
<1>3. Ages \ {0} = {h[a] : a \in S}
  <2>1. ASSUME NEW b \in Ages \ {0} PROVE \E a \in S : b = a + 1
    <3>1. b - 1 \in S /\ b = (b - 1) + 1 BY AgesFacts, LimitAssumption
    <3> QED BY <3>1
  <2>2. ASSUME NEW a \in S PROVE a + 1 \in Ages \ {0}
    BY AgesFacts
  <2> QED BY <2>1, <2>2
<1>4. \A a \in S : f[a] \in Int /\ g[h[a]] = f[a]
  <2> TAKE a \in S
  <2>1. a \in Nat /\ a + 1 \in Ages /\ a + 1 # 0 /\ (a + 1) - 1 = a BY AgesFacts
  <2>2. g[a + 1] = f[a] BY <1>1, <2>1
  <2> QED BY <2>1, <2>2 DEF Counts
<1>5. \A a, b \in S : h[a] = h[b] => a = b
  BY AgesFacts
<1>6. \A a \in Ages : f[a] \in Int /\ g[a] \in Int
  BY <1>1 DEF Counts
<1> HIDE DEF g, W, S, h
<1>7. SumOn(g, {h[a] : a \in S}) = SumOn(f, S)
  BY <1>2, <1>4, <1>5, SumRenamed
<1>8. SumOn(g, Ages) = g[0] + SumOn(g, Ages \ {0})
  BY <1>2, <1>6, SumSplit
<1>9. SumOn(f, Ages) = f[W] + SumOn(f, S)
  BY <1>2, <1>6, SumSplit DEF S
<1>10. SumOn(f, S) \in Int /\ f[W] \in Int
  <2>1. \A a \in S : f[a] \in Int BY <1>6 DEF S
  <2> QED BY <1>2, <1>6, <2>1, SumSplit
<1>11. SumOn(g, Ages) = SumOn(f, Ages) - f[W]
  <2>1. SumOn(g, Ages \ {0}) = SumOn(f, S) BY <1>3, <1>7, Zenon
  <2>2. g[0] = 0 BY <1>1
  <2> QED BY <1>8, <1>9, <1>10, <2>1, <2>2
<1>12. Total(g) = Total(f) - f[W]
  BY <1>1, <1>11, TotalOfCounts
<1> QED BY <1>1, <1>12 DEF g, W

\* In the memory of all instances: their totals, and their events of an age.
ByInstance(o) == [i \in Instances |-> Total(o[i])]
Column(o, a) == [i \in Instances |-> o[i][a]]

LEMMA FallbackSums ==
    ASSUME NEW o, \A j \in Instances : o[j] \in Counts, NEW i \in Instances, NEW p,
           p[i] = Plus(o[i]), \A j \in Instances \ {i} : p[j] = o[j]
    PROVE  /\ SumOn(Column(p, 0), Instances) = SumOn(Column(o, 0), Instances) + 1
           /\ \A a \in Ages : a # 0 => SumOn(Column(p, a), Instances) = SumOn(Column(o, a), Instances)
           /\ SumOn(ByInstance(p), Instances) = SumOn(ByInstance(o), Instances) + 1
<1>1. /\ Plus(o[i]) \in Counts /\ Total(Plus(o[i])) = Total(o[i]) + 1
      /\ Plus(o[i])[0] = o[i][0] + 1 /\ \A a \in Ages : a # 0 => Plus(o[i])[a] = o[i][a]
  BY TotalPlus
<1>2. \A j \in Instances : p[j] \in Counts
  BY <1>1
<1>3. \A j \in Instances : /\ o[j] \in Counts /\ p[j] \in Counts
                           /\ Total(o[j]) \in Nat /\ Total(p[j]) \in Nat
                           /\ \A a \in Ages : o[j][a] \in Nat /\ p[j][a] \in Nat
  BY <1>2, TotalOfCounts DEF Counts
<1>4. ASSUME NEW f, NEW g, \A j \in Instances : f[j] \in Nat /\ g[j] \in Nat,
             \A j \in Instances \ {i} : g[j] = f[j]
      PROVE  SumOn(g, Instances) = SumOn(f, Instances) - f[i] + g[i] /\ SumOn(f, Instances) \in Int
  <2>1. \A j \in Instances : f[j] \in Int /\ g[j] \in Int BY <1>4
  <2> QED BY <1>4, <2>1, ServersAssumption, SumUpdate, SumSplit
<1>5. ASSUME NEW a \in Ages
      PROVE  SumOn(Column(p, a), Instances) = SumOn(Column(o, a), Instances) - o[i][a] + p[i][a]
             /\ SumOn(Column(o, a), Instances) \in Int
  <2> DEFINE f == Column(o, a)
             g == Column(p, a)
  <2>1. /\ \A j \in Instances : f[j] \in Nat /\ g[j] \in Nat
        /\ \A j \in Instances \ {i} : g[j] = f[j]
        /\ f[i] = o[i][a] /\ g[i] = p[i][a]
    BY <1>2, <1>3 DEF Column
  <2> HIDE DEF f, g
  <2>2. SumOn(g, Instances) = SumOn(f, Instances) - f[i] + g[i] /\ SumOn(f, Instances) \in Int
    BY <1>4, <2>1
  <2> QED BY <2>1, <2>2 DEF f, g
<1>6. SumOn(ByInstance(p), Instances) = SumOn(ByInstance(o), Instances) - Total(o[i]) + Total(p[i])
      /\ SumOn(ByInstance(o), Instances) \in Int
  <2> DEFINE f == ByInstance(o)
             g == ByInstance(p)
  <2>1. /\ \A j \in Instances : f[j] \in Nat /\ g[j] \in Nat
        /\ \A j \in Instances \ {i} : g[j] = f[j]
        /\ f[i] = Total(o[i]) /\ g[i] = Total(p[i])
    BY <1>2, <1>3 DEF ByInstance
  <2> HIDE DEF f, g
  <2>2. SumOn(g, Instances) = SumOn(f, Instances) - f[i] + g[i] /\ SumOn(f, Instances) \in Int
    BY <1>4, <2>1
  <2> QED BY <2>1, <2>2 DEF f, g
<1>7. SumOn(Column(p, 0), Instances) = SumOn(Column(o, 0), Instances) + 1
  <2>1. 0 \in Ages BY AgesFacts
  <2>2. SumOn(Column(p, 0), Instances) = SumOn(Column(o, 0), Instances) - o[i][0] + p[i][0]
        /\ SumOn(Column(o, 0), Instances) \in Int
    BY <2>1, <1>5, Zenon
  <2>3. o[i][0] \in Nat /\ p[i][0] = o[i][0] + 1 BY <1>1, <1>2, <1>3, <2>1
  <2> QED BY <2>2, <2>3
<1>8. \A a \in Ages : a # 0 => SumOn(Column(p, a), Instances) = SumOn(Column(o, a), Instances)
  <2> TAKE a \in Ages
  <2> HAVE a # 0
  <2>1. SumOn(Column(p, a), Instances) = SumOn(Column(o, a), Instances) - o[i][a] + p[i][a]
        /\ SumOn(Column(o, a), Instances) \in Int
    BY <1>5, Zenon
  <2>2. o[i][a] \in Nat /\ p[i][a] = o[i][a] BY <1>1, <1>2, <1>3
  <2> QED BY <2>1, <2>2
<1>9. SumOn(ByInstance(p), Instances) = SumOn(ByInstance(o), Instances) + 1
  BY <1>1, <1>2, <1>3, <1>6
<1> QED BY <1>7, <1>8, <1>9

LEMMA AgedSums ==
    ASSUME NEW o \in [Instances -> Counts], NEW p, p = [i \in Instances |-> Aged(o[i])]
    PROVE  /\ p \in [Instances -> Counts]
           /\ SumOn(Column(p, 0), Instances) = 0
           /\ \A a \in Ages : a # 0 =>
                 SumOn(Column(p, a), Instances) = SumOn(Column(o, a - 1), Instances)
           /\ SumOn(ByInstance(p), Instances)
                = SumOn(ByInstance(o), Instances) - SumOn(Column(o, Window - 1), Instances)
<1>1. \A i \in Instances : /\ p[i] \in Counts /\ Total(p[i]) = Total(o[i]) - o[i][Window - 1]
                           /\ p[i][0] = 0 /\ \A a \in Ages : a # 0 => p[i][a] = o[i][a - 1]
  BY TotalAged
<1>2. p \in [Instances -> Counts]
  BY <1>1
<1>3. SumOn(Column(p, 0), Instances) = 0
  <2> DEFINE f == Column(p, 0)
  <2>1. \A i \in Instances : f[i] = 0 BY <1>1 DEF Column
  <2> HIDE DEF f
  <2>2. SumOn(f, Instances) = 0 BY <2>1, ServersAssumption, SumOfZeros
  <2> QED BY <2>2 DEF f
<1>4. ASSUME NEW a \in Ages, a # 0
      PROVE  SumOn(Column(p, a), Instances) = SumOn(Column(o, a - 1), Instances)
  <2> DEFINE f == Column(p, a)
             g == Column(o, a - 1)
  <2>1. \A i \in Instances : f[i] = g[i] BY <1>1, <1>4 DEF Column
  <2> HIDE DEF f, g
  <2>2. SumOn(f, Instances) = SumOn(g, Instances) BY <2>1, ServersAssumption, SumSame
  <2> QED BY <2>2 DEF f, g
<1>5. SumOn(ByInstance(p), Instances)
        = SumOn(ByInstance(o), Instances) - SumOn(Column(o, Window - 1), Instances)
  <2> DEFINE f == ByInstance(o)
             g == Column(o, Window - 1)
             h == ByInstance(p)
  <2>1. \A i \in Instances : f[i] \in Int /\ g[i] \in Int /\ h[i] = f[i] - g[i]
    <3> TAKE i \in Instances
    <3>1. o[i] \in Counts /\ Window - 1 \in Ages BY AgesFacts
    <3>2. Total(o[i]) \in Int /\ o[i][Window - 1] \in Int BY <3>1, TotalOfCounts DEF Counts
    <3> QED BY <1>1, <3>2 DEF ByInstance, Column
  <2> HIDE DEF f, g, h
  <2>2. SumOn(h, Instances) = SumOn(f, Instances) - SumOn(g, Instances)
    BY <2>1, ServersAssumption, SumOfDifferences
  <2> QED BY <2>2 DEF f, g, h
<1> QED BY <1>2, <1>3, <1>4, <1>5

\* The checks that are taking their member back, by the age of it.
Overs == [at : {"over"}, age : 0 .. Window]
TakingAt(k, a) == {c \in Calls : k[c] # CallIdle /\ k[c].age = a}
Taking(k) == {c \in Calls : k[c] # CallIdle /\ k[c].age < Window}

LEMMA TakingFacts ==
    ASSUME NEW k
    PROVE  /\ IsFiniteSet(Taking(k)) /\ Cardinality(Taking(k)) \in Nat
           /\ \A a : IsFiniteSet(TakingAt(k, a)) /\ Cardinality(TakingAt(k, a)) \in Nat
<1>1. Taking(k) \in SUBSET Calls /\ \A a : TakingAt(k, a) \in SUBSET Calls
  BY DEF Taking, TakingAt
<1>2. \A C \in SUBSET Calls : IsFiniteSet(C) /\ Cardinality(C) \in Nat
  BY ServersAssumption, FS_Subset, FS_CardinalityType
<1> QED BY <1>1, <1>2

LEMMA OverIsNotIdle == \A o \in Overs : o # CallIdle /\ o.at = "over" /\ o.age \in 0 .. Window
<1> SUFFICES ASSUME NEW o \in Overs PROVE o # CallIdle /\ o.at = "over" /\ o.age \in 0 .. Window
  OBVIOUS
<1>1. o.at = "over" /\ o.age \in 0 .. Window
  BY DEF Overs
<1>2. CallIdle.at = "idle"
  BY DEF CallIdle
<1> QED BY <1>1, <1>2

LEMMA OverCards ==
    ASSUME NEW k, NEW c \in Calls, k[c] = CallIdle, NEW l,
           l[c] \in Overs, l[c].age = 0, \A d \in Calls \ {c} : l[d] = k[d]
    PROVE  /\ Cardinality(TakingAt(l, 0)) = Cardinality(TakingAt(k, 0)) + 1
           /\ \A a \in Ages : a # 0 => TakingAt(l, a) = TakingAt(k, a)
           /\ Cardinality(Taking(l)) = Cardinality(Taking(k)) + 1
<1>1. l[c] # CallIdle
  BY OverIsNotIdle
<1>5. TakingAt(l, 0) = TakingAt(k, 0) \cup {c} /\ c \notin TakingAt(k, 0)
  BY <1>1 DEF TakingAt
<1>6. Taking(l) = Taking(k) \cup {c} /\ c \notin Taking(k)
  BY <1>1, LimitAssumption DEF Taking
<1>7. \A a \in Ages : a # 0 => TakingAt(l, a) = TakingAt(k, a)
  BY <1>1 DEF TakingAt
<1>8. ASSUME NEW C, IsFiniteSet(C), c \notin C PROVE Cardinality(C \cup {c}) = Cardinality(C) + 1
  BY <1>8, FS_AddElement
<1>9. Cardinality(TakingAt(k, 0) \cup {c}) = Cardinality(TakingAt(k, 0)) + 1
  BY <1>5, <1>8, TakingFacts
<1>10. Cardinality(Taking(k) \cup {c}) = Cardinality(Taking(k)) + 1
  BY <1>6, <1>8, TakingFacts
<1> QED BY <1>5, <1>6, <1>7, <1>9, <1>10

LEMMA BackCards ==
    ASSUME NEW k, NEW c \in Calls, k[c] \in Overs, NEW l,
           l[c] = CallIdle, \A d \in Calls \ {c} : l[d] = k[d]
    PROVE  /\ \A a \in Ages : a # k[c].age => TakingAt(l, a) = TakingAt(k, a)
           /\ k[c].age < Window =>
                 /\ k[c].age \in Ages
                 /\ Cardinality(TakingAt(k, k[c].age)) = Cardinality(TakingAt(l, k[c].age)) + 1
                 /\ Cardinality(Taking(k)) = Cardinality(Taking(l)) + 1
           /\ ~(k[c].age < Window) => Taking(l) = Taking(k)
<1>1. k[c] # CallIdle /\ k[c].age \in 0 .. Window
  BY OverIsNotIdle
<1>4. \A a : /\ a # k[c].age => TakingAt(l, a) = TakingAt(k, a)
             /\ a = k[c].age => TakingAt(l, a) = TakingAt(k, a) \ {c} /\ c \in TakingAt(k, a)
  BY <1>1 DEF TakingAt
<1>5. /\ k[c].age < Window => Taking(l) = Taking(k) \ {c} /\ c \in Taking(k)
      /\ ~(k[c].age < Window) => Taking(l) = Taking(k)
  BY <1>1 DEF Taking
<1>6. ASSUME NEW C, IsFiniteSet(C), c \in C, Cardinality(C) \in Nat
      PROVE  Cardinality(C) = Cardinality(C \ {c}) + 1
  <2>1. Cardinality(C \ {c}) = Cardinality(C) - 1 BY <1>6, FS_RemoveElement
  <2> QED BY <1>6, <2>1
<1>7. Cardinality(TakingAt(k, k[c].age)) = Cardinality(TakingAt(l, k[c].age)) + 1
  BY <1>4, <1>6, TakingFacts
<1>8. k[c].age < Window => Cardinality(Taking(k)) = Cardinality(Taking(l)) + 1
  BY <1>5, <1>6, TakingFacts
<1>9. k[c].age < Window => k[c].age \in Ages
  BY <1>1, LimitAssumption DEF Ages
<1> QED BY <1>4, <1>5, <1>7, <1>8, <1>9

LEMMA AgedCards ==
    ASSUME NEW k \in [Calls -> {CallIdle} \cup Overs], NEW l,
           l = [c \in Calls |-> IF k[c] # CallIdle /\ k[c].age < Window
                                THEN [k[c] EXCEPT !.age = @ + 1] ELSE k[c]]
    PROVE  /\ l \in [Calls -> {CallIdle} \cup Overs]
           /\ Cardinality(TakingAt(l, 0)) = 0
           /\ \A a \in Ages : a # 0 => TakingAt(l, a) = TakingAt(k, a - 1)
           /\ Cardinality(Taking(l)) = Cardinality(Taking(k)) - Cardinality(TakingAt(k, Window - 1))
<1>1. ASSUME NEW c \in Calls, k[c] # CallIdle
      PROVE  /\ k[c].age \in 0 .. Window /\ l[c] \in Overs /\ l[c] # CallIdle
             /\ k[c].age < Window => l[c].age = k[c].age + 1
             /\ ~(k[c].age < Window) => l[c].age = k[c].age
  <2>1. k[c] \in Overs BY <1>1
  <2>2. k[c].age \in 0 .. Window BY <2>1, OverIsNotIdle
  <2>3. CASE k[c].age < Window
    <3> DEFINE o == [k[c] EXCEPT !.age = @ + 1]
    <3>1. l[c] = o BY <1>1, <2>3
    <3>2. k[c].age + 1 \in 0 .. Window BY <2>2, <2>3, LimitAssumption
    <3>3. o \in Overs /\ o.age = k[c].age + 1 BY <2>1, <3>2 DEF Overs
    <3> HIDE DEF o
    <3> QED BY <2>2, <2>3, <3>1, <3>3, OverIsNotIdle
  <2>4. CASE ~(k[c].age < Window)
    BY <1>1, <2>1, <2>2, <2>4, OverIsNotIdle
  <2> QED BY <2>3, <2>4
<1>2. \A c \in Calls : k[c] = CallIdle => l[c] = CallIdle
  OBVIOUS
<1>3. l \in [Calls -> {CallIdle} \cup Overs]
  BY <1>1, <1>2
<1>4. \A c \in Calls : l[c] # CallIdle => k[c] # CallIdle
  BY <1>2
<1>5. TakingAt(l, 0) = {}
  BY <1>1, <1>4, LimitAssumption DEF TakingAt
<1>6. ASSUME NEW a \in Ages, a # 0 PROVE TakingAt(l, a) = TakingAt(k, a - 1)
  <2>1. a \in Nat /\ a < Window /\ a - 1 \in Nat BY <1>6, AgesFacts
  <2>2. \A c \in Calls : k[c] # CallIdle => (l[c].age = a <=> k[c].age = a - 1)
    BY <1>1, <2>1, LimitAssumption
  <2> QED BY <1>1, <1>4, <2>2 DEF TakingAt
<1>7. Taking(l) = Taking(k) \ TakingAt(k, Window - 1) /\ TakingAt(k, Window - 1) \subseteq Taking(k)
  <2>1. \A c \in Calls : k[c] # CallIdle =>
            (l[c].age < Window <=> k[c].age < Window /\ k[c].age # Window - 1)
    BY <1>1, LimitAssumption
  <2>2. Taking(l) = Taking(k) \ TakingAt(k, Window - 1)
    BY <1>1, <1>4, <2>1 DEF Taking, TakingAt
  <2>3. TakingAt(k, Window - 1) \subseteq Taking(k)
    BY LimitAssumption DEF Taking, TakingAt
  <2> QED BY <2>2, <2>3
<1>8. ASSUME NEW S, NEW T, IsFiniteSet(S), T \subseteq S
      PROVE  Cardinality(S \ T) = Cardinality(S) - Cardinality(T)
  <2>1. S \cap T = T BY <1>8
  <2>2. Cardinality(S \ T) = Cardinality(S) - Cardinality(S \cap T) BY <1>8, FS_Difference
  <2> QED BY <2>1, <2>2
<1>9. Cardinality(Taking(k) \ TakingAt(k, Window - 1))
        = Cardinality(Taking(k)) - Cardinality(TakingAt(k, Window - 1))
  BY <1>7, <1>8, TakingFacts
<1>10. Cardinality(TakingAt(l, 0)) = 0
  BY <1>5, FS_EmptySet
<1> QED BY <1>3, <1>6, <1>7, <1>9, <1>10

LimiterTypeOK ==
    /\ z \in Counts /\ lost \in Counts /\ up \in BOOLEAN
    /\ own \in [Instances -> Counts]
    /\ passed \in [redis : Counts, memory : Counts]
    /\ call \in [Calls -> {CallIdle} \cup Overs]

\* The members of an age, and all of them, are those of checks that passed, of
\* refused checks that take theirs back, and of those that could not; and no
\* more passed than the limit.
RedisCounts ==
    /\ \A a \in Ages : z[a] = passed.redis[a] + lost[a] + Cardinality(TakingAt(call, a))
    /\ Total(z) = Total(passed.redis) + Total(lost) + Cardinality(Taking(call))
    /\ Total(passed.redis) <= Limit

\* The checks that memory counted are the events in the memories, each with
\* no more than the limit.
MemoryCounts ==
    /\ \A a \in Ages : passed.memory[a] = SumOn(Column(own, a), Instances)
    /\ Total(passed.memory) = SumOn(ByInstance(own), Instances)
    /\ \A i \in Instances : Total(own[i]) <= Limit

LimiterInv == LimiterTypeOK /\ RedisCounts /\ MemoryCounts

LEMMA LimiterStep == LimiterInv /\ [LimiterNext]_limiterVars => LimiterInv'
<1> SUFFICES ASSUME LimiterInv, [LimiterNext]_limiterVars PROVE LimiterInv' OBVIOUS
<1>a. /\ z \in Counts /\ lost \in Counts /\ up \in BOOLEAN /\ own \in [Instances -> Counts]
      /\ passed \in [redis : Counts, memory : Counts]
      /\ passed.redis \in Counts /\ passed.memory \in Counts
      /\ call \in [Calls -> {CallIdle} \cup Overs]
  BY DEF LimiterInv, LimiterTypeOK
<1>b. /\ \A a \in Ages : z[a] = passed.redis[a] + lost[a] + Cardinality(TakingAt(call, a))
      /\ Total(z) = Total(passed.redis) + Total(lost) + Cardinality(Taking(call))
      /\ Total(passed.redis) <= Limit
  BY DEF LimiterInv, RedisCounts
<1>c. /\ \A a \in Ages : z[a] \in Nat /\ passed.redis[a] \in Nat /\ lost[a] \in Nat
      /\ \A a \in Ages : passed.memory[a] \in Nat
      /\ Total(z) \in Nat /\ Total(passed.redis) \in Nat /\ Total(lost) \in Nat
      /\ Total(passed.memory) \in Nat /\ Limit \in Nat
      /\ \A i \in Instances : own[i] \in Counts /\ Total(own[i]) \in Nat
  BY <1>a, TotalOfCounts, LimitAssumption DEF Counts
<1>d. /\ Cardinality(Taking(call)) \in Nat
      /\ \A a : Cardinality(TakingAt(call, a)) \in Nat
  BY TakingFacts
<1>1. ASSUME NEW c \in Calls, CheckRedis(c) PROVE LimiterInv'
  <2>1. call[c] = CallIdle /\ z' = Plus(z) /\ UNCHANGED <<own, up, lost>>
    BY <1>1 DEF CheckRedis
  <2>2. /\ z' \in Counts /\ Total(z') = Total(z) + 1 /\ z'[0] = z[0] + 1
        /\ \A a \in Ages : a # 0 => z'[a] = z[a]
    BY <1>a, <2>1, TotalPlus
  <2>3. CASE Total(z') <= Limit
    <3>1. passed' = [passed EXCEPT !.redis = Plus(@)] /\ call' = call
      BY <1>1, <2>3 DEF CheckRedis
    <3> DEFINE r == Plus(passed.redis)
    <3>2. /\ r \in Counts /\ Total(r) = Total(passed.redis) + 1 /\ r[0] = passed.redis[0] + 1
          /\ \A a \in Ages : a # 0 => r[a] = passed.redis[a]
      BY <1>a, TotalPlus
    <3>3. passed'.redis = r /\ passed'.memory = passed.memory
          /\ passed' \in [redis : Counts, memory : Counts]
      BY <1>a, <3>1, <3>2
    <3> HIDE DEF r
    <3>4. LimiterTypeOK' BY <1>a, <2>1, <2>2, <3>1, <3>3 DEF LimiterTypeOK
    <3>5. RedisCounts'
      <4>1. \A a \in Ages : z'[a] = r[a] + lost[a] + Cardinality(TakingAt(call, a))
        <5> TAKE a \in Ages
        <5>1. CASE a = 0 BY <1>b, <1>c, <1>d, <2>2, <3>2, <5>1
        <5>2. CASE a # 0 BY <1>b, <2>2, <3>2, <5>2
        <5> QED BY <5>1, <5>2
      <4>2. Total(z') = Total(r) + Total(lost) + Cardinality(Taking(call)) /\ Total(r) <= Limit
        BY <1>b, <1>c, <1>d, <2>2, <2>3, <3>2
      <4> QED BY <2>1, <3>1, <3>3, <4>1, <4>2 DEF RedisCounts
    <3>6. MemoryCounts' BY <2>1, <3>3 DEF LimiterInv, MemoryCounts
    <3> QED BY <3>4, <3>5, <3>6 DEF LimiterInv
  <2>4. CASE ~(Total(z') <= Limit)
    <3>1. call' = [call EXCEPT ![c] = [at |-> "over", age |-> 0]] /\ passed' = passed
      BY <1>1, <2>4 DEF CheckRedis
    <3>a. /\ call' \in [Calls -> {CallIdle} \cup Overs]
          /\ call'[c] \in Overs /\ call'[c].age = 0 /\ \A d \in Calls \ {c} : call'[d] = call[d]
      <4> DEFINE o == [at |-> "over", age |-> 0]
      <4>1. o \in Overs /\ o.age = 0 BY LimitAssumption DEF Overs
      <4>2. call' = [call EXCEPT ![c] = o] BY <3>1
      <4> HIDE DEF o
      <4> QED BY <1>a, <4>1, <4>2
    <3>2. /\ Cardinality(TakingAt(call', 0)) = Cardinality(TakingAt(call, 0)) + 1
          /\ \A a \in Ages : a # 0 => TakingAt(call', a) = TakingAt(call, a)
          /\ Cardinality(Taking(call')) = Cardinality(Taking(call)) + 1
      BY <2>1, <3>a, OverCards
    <3>3. LimiterTypeOK' BY <1>a, <2>1, <2>2, <3>1, <3>a DEF LimiterTypeOK
    <3>4. RedisCounts'
      <4>1. \A a \in Ages : z'[a] = passed.redis[a] + lost[a] + Cardinality(TakingAt(call', a))
        <5> TAKE a \in Ages
        <5>1. CASE a = 0 BY <1>b, <1>c, <1>d, <2>2, <3>2, <5>1
        <5>2. CASE a # 0 BY <1>b, <2>2, <3>2, <5>2
        <5> QED BY <5>1, <5>2
      <4>2. Total(z') = Total(passed.redis) + Total(lost) + Cardinality(Taking(call'))
        BY <1>b, <1>c, <1>d, <2>2, <3>2
      <4> QED BY <1>b, <2>1, <3>1, <4>1, <4>2 DEF RedisCounts
    <3>5. MemoryCounts' BY <2>1, <3>1 DEF LimiterInv, MemoryCounts
    <3> QED BY <3>3, <3>4, <3>5 DEF LimiterInv
  <2> QED BY <2>3, <2>4
<1>2. ASSUME NEW c \in Calls, TakeBack(c) PROVE LimiterInv'
  <2> DEFINE b == call[c].age
  <2>1. /\ call[c].at = "over" /\ call' = [call EXCEPT ![c] = CallIdle]
        /\ z' = IF b < Window THEN [z EXCEPT ![b] = @ - 1] ELSE z
        /\ UNCHANGED <<own, up, lost, passed>>
    BY <1>2 DEF TakeBack
  <2>a. /\ call' \in [Calls -> {CallIdle} \cup Overs]
        /\ call[c] \in Overs /\ call'[c] = CallIdle /\ \A d \in Calls \ {c} : call'[d] = call[d]
    BY <1>a, <2>1 DEF CallIdle
  <2>2. /\ \A a \in Ages : a # b => TakingAt(call', a) = TakingAt(call, a)
        /\ b < Window => /\ b \in Ages
                         /\ Cardinality(TakingAt(call, b)) = Cardinality(TakingAt(call', b)) + 1
                         /\ Cardinality(Taking(call)) = Cardinality(Taking(call')) + 1
        /\ ~(b < Window) => Taking(call') = Taking(call)
    BY <2>a, BackCards
  <2>3. /\ Cardinality(Taking(call')) \in Nat
        /\ \A a : Cardinality(TakingAt(call', a)) \in Nat
    BY TakingFacts
  <2> HIDE DEF b
  <2>4. MemoryCounts' BY <2>1 DEF LimiterInv, MemoryCounts
  <2>5. CASE b < Window
    <3>1. z[b] - 1 \in Nat BY <1>b, <1>c, <2>2, <2>3, <2>5
    <3>2. z' = [z EXCEPT ![b] = z[b] - 1] BY <2>1, <2>5
    <3>3. z' \in Counts /\ Total(z') = Total(z) - z[b] + (z[b] - 1)
      BY <1>a, <2>2, <2>5, <3>1, <3>2, TotalChanged
    <3>4. z'[b] = z[b] - 1 /\ \A a \in Ages : a # b => z'[a] = z[a]
      BY <1>a, <2>2, <2>5, <3>2 DEF Counts
    <3>5. LimiterTypeOK' BY <1>a, <2>1, <2>a, <3>3 DEF LimiterTypeOK
    <3>6. RedisCounts'
      <4>1. \A a \in Ages : z'[a] = passed.redis[a] + lost[a] + Cardinality(TakingAt(call', a))
        <5> TAKE a \in Ages
        <5>1. CASE a = b BY <1>b, <1>c, <1>d, <2>2, <2>3, <2>5, <3>4, <5>1
        <5>2. CASE a # b BY <1>b, <2>2, <3>4, <5>2
        <5> QED BY <5>1, <5>2
      <4>2. Total(z') = Total(passed.redis) + Total(lost) + Cardinality(Taking(call'))
        BY <1>b, <1>c, <1>d, <2>2, <2>3, <2>5, <3>3
      <4> QED BY <1>b, <2>1, <4>1, <4>2 DEF RedisCounts
    <3> QED BY <2>4, <3>5, <3>6 DEF LimiterInv
  <2>6. CASE ~(b < Window)
    <3>1. z' = z BY <2>1, <2>6
    <3>2. \A a \in Ages : TakingAt(call', a) = TakingAt(call, a)
      BY <2>2, <2>6, AgesFacts
    <3>3. LimiterTypeOK' BY <1>a, <2>1, <2>a, <3>1 DEF LimiterTypeOK
    <3>4. RedisCounts' BY <1>b, <2>1, <2>2, <2>6, <3>1, <3>2 DEF RedisCounts
    <3> QED BY <2>4, <3>3, <3>4 DEF LimiterInv
  <2> QED BY <2>5, <2>6
<1>3. ASSUME NEW c \in Calls, TakeBackFails(c) PROVE LimiterInv'
  <2> DEFINE b == call[c].age
  <2>1. /\ call[c].at = "over" /\ call' = [call EXCEPT ![c] = CallIdle]
        /\ lost' = IF b < Window THEN [lost EXCEPT ![b] = @ + 1] ELSE lost
        /\ UNCHANGED <<z, own, up, passed>>
    BY <1>3 DEF TakeBackFails
  <2>a. /\ call' \in [Calls -> {CallIdle} \cup Overs]
        /\ call[c] \in Overs /\ call'[c] = CallIdle /\ \A d \in Calls \ {c} : call'[d] = call[d]
    BY <1>a, <2>1 DEF CallIdle
  <2>2. /\ \A a \in Ages : a # b => TakingAt(call', a) = TakingAt(call, a)
        /\ b < Window => /\ b \in Ages
                         /\ Cardinality(TakingAt(call, b)) = Cardinality(TakingAt(call', b)) + 1
                         /\ Cardinality(Taking(call)) = Cardinality(Taking(call')) + 1
        /\ ~(b < Window) => Taking(call') = Taking(call)
    BY <2>a, BackCards
  <2>3. /\ Cardinality(Taking(call')) \in Nat
        /\ \A a : Cardinality(TakingAt(call', a)) \in Nat
    BY TakingFacts
  <2> HIDE DEF b
  <2>4. MemoryCounts' BY <2>1 DEF LimiterInv, MemoryCounts
  <2>5. CASE b < Window
    <3>1. lost[b] + 1 \in Nat BY <1>c, <2>2, <2>5
    <3>2. lost' = [lost EXCEPT ![b] = lost[b] + 1] BY <2>1, <2>5
    <3>3. lost' \in Counts /\ Total(lost') = Total(lost) - lost[b] + (lost[b] + 1)
      BY <1>a, <2>2, <2>5, <3>1, <3>2, TotalChanged
    <3>4. lost'[b] = lost[b] + 1 /\ \A a \in Ages : a # b => lost'[a] = lost[a]
      BY <1>a, <2>2, <2>5, <3>2 DEF Counts
    <3>5. LimiterTypeOK' BY <1>a, <2>1, <2>a, <3>3 DEF LimiterTypeOK
    <3>6. RedisCounts'
      <4>1. \A a \in Ages : z[a] = passed.redis[a] + lost'[a] + Cardinality(TakingAt(call', a))
        <5> TAKE a \in Ages
        <5>1. CASE a = b BY <1>b, <1>c, <1>d, <2>2, <2>3, <2>5, <3>4, <5>1
        <5>2. CASE a # b BY <1>b, <2>2, <3>4, <5>2
        <5> QED BY <5>1, <5>2
      <4>2. Total(z) = Total(passed.redis) + Total(lost') + Cardinality(Taking(call'))
        BY <1>b, <1>c, <1>d, <2>2, <2>3, <2>5, <3>3
      <4> QED BY <1>b, <2>1, <4>1, <4>2 DEF RedisCounts
    <3> QED BY <2>4, <3>5, <3>6 DEF LimiterInv
  <2>6. CASE ~(b < Window)
    <3>1. lost' = lost BY <2>1, <2>6
    <3>2. \A a \in Ages : TakingAt(call', a) = TakingAt(call, a)
      BY <2>2, <2>6, AgesFacts
    <3>3. LimiterTypeOK' BY <1>a, <2>1, <2>a, <3>1 DEF LimiterTypeOK
    <3>4. RedisCounts' BY <1>b, <2>1, <2>2, <2>6, <3>1, <3>2 DEF RedisCounts
    <3> QED BY <2>4, <3>3, <3>4 DEF LimiterInv
  <2> QED BY <2>5, <2>6
<1>4. ASSUME NEW i \in Instances, CheckFallback(i) PROVE LimiterInv'
  <2>1. /\ Total(own[i]) < Limit /\ own' = [own EXCEPT ![i] = Plus(@)]
        /\ passed' = [passed EXCEPT !.memory = Plus(@)] /\ UNCHANGED <<z, call, up, lost>>
    BY <1>4 DEF CheckFallback
  <2> DEFINE m == Plus(passed.memory)
  <2>2. /\ m \in Counts /\ Total(m) = Total(passed.memory) + 1 /\ m[0] = passed.memory[0] + 1
        /\ \A a \in Ages : a # 0 => m[a] = passed.memory[a]
    BY <1>a, TotalPlus
  <2>3. passed'.memory = m /\ passed'.redis = passed.redis
        /\ passed' \in [redis : Counts, memory : Counts]
    BY <1>a, <2>1, <2>2
  <2> HIDE DEF m
  <2>a. /\ own' \in [Instances -> Counts] /\ own'[i] = Plus(own[i])
        /\ \A j \in Instances \ {i} : own'[j] = own[j]
    BY <1>a, <1>c, <2>1, TotalPlus
  <2>4. /\ SumOn(Column(own', 0), Instances) = SumOn(Column(own, 0), Instances) + 1
        /\ \A a \in Ages : a # 0 =>
              SumOn(Column(own', a), Instances) = SumOn(Column(own, a), Instances)
        /\ SumOn(ByInstance(own'), Instances) = SumOn(ByInstance(own), Instances) + 1
    BY <1>c, <2>a, FallbackSums
  <2>5. LimiterTypeOK' BY <1>a, <2>1, <2>3, <2>a DEF LimiterTypeOK
  <2>6. RedisCounts' BY <2>1, <2>3 DEF LimiterInv, RedisCounts
  <2>7. MemoryCounts'
    <3>1. /\ \A a \in Ages : passed.memory[a] = SumOn(Column(own, a), Instances)
          /\ Total(passed.memory) = SumOn(ByInstance(own), Instances)
          /\ \A j \in Instances : Total(own[j]) <= Limit
      BY DEF LimiterInv, MemoryCounts
    <3>2. \A a \in Ages : m[a] = SumOn(Column(own', a), Instances)
      <4> TAKE a \in Ages
      <4>1. CASE a = 0
        <5>1. passed.memory[0] = SumOn(Column(own, 0), Instances) BY <3>1, <4>1
        <5> QED BY <2>2, <2>4, <4>1, <5>1
      <4>2. CASE a # 0 BY <2>2, <2>4, <3>1, <4>2
      <4> QED BY <4>1, <4>2
    <3>3. Total(m) = SumOn(ByInstance(own'), Instances) BY <2>2, <2>4, <3>1
    <3>4. \A j \in Instances : Total(own'[j]) <= Limit
      <4> TAKE j \in Instances
      <4>1. CASE j = i
        <5>1. own'[i] = Plus(own[i]) BY <1>a, <2>1
        <5>2. Total(own'[i]) = Total(own[i]) + 1 BY <1>c, <5>1, TotalPlus
        <5> QED BY <1>c, <2>1, <4>1, <5>2
      <4>2. CASE j # i
        <5>1. own'[j] = own[j] BY <1>a, <2>1, <4>2
        <5> QED BY <3>1, <5>1
      <4> QED BY <4>1, <4>2
    <3> QED BY <2>3, <3>2, <3>3, <3>4 DEF MemoryCounts
  <2> QED BY <2>5, <2>6, <2>7 DEF LimiterInv
<1>5. CASE RedisTurns
  <2>1. up' \in BOOLEAN /\ UNCHANGED <<z, own, call, lost, passed>>
    BY <1>5, <1>a DEF RedisTurns
  <2> QED BY <2>1 DEF LimiterInv, LimiterTypeOK, RedisCounts, MemoryCounts
<1>7. CASE UNCHANGED limiterVars
  BY <1>7 DEF limiterVars, LimiterInv, LimiterTypeOK, RedisCounts, MemoryCounts
<1>6. CASE WindowSlides
  <2>1. /\ z' = Aged(z) /\ lost' = Aged(lost) /\ own' = [i \in Instances |-> Aged(own[i])]
        /\ passed' = [redis |-> Aged(passed.redis), memory |-> Aged(passed.memory)]
        /\ up' = up
        /\ call' = [c \in Calls |-> IF call[c] # CallIdle /\ call[c].age < Window
                                    THEN [call[c] EXCEPT !.age = @ + 1] ELSE call[c]]
    BY <1>6 DEF WindowSlides
  <2> DEFINE W == Window - 1
             r == Aged(passed.redis)
             m == Aged(passed.memory)
  <2>2. /\ W \in Ages /\ \A a \in Ages : a # 0 => a - 1 \in Ages
    BY AgesFacts
  <2>3. /\ z' \in Counts /\ Total(z') = Total(z) - z[W]
        /\ z'[0] = 0 /\ \A a \in Ages : a # 0 => z'[a] = z[a - 1]
    BY <1>a, <2>1, TotalAged
  <2>4. /\ lost' \in Counts /\ Total(lost') = Total(lost) - lost[W]
        /\ lost'[0] = 0 /\ \A a \in Ages : a # 0 => lost'[a] = lost[a - 1]
    BY <1>a, <2>1, TotalAged
  <2>5. /\ r \in Counts /\ Total(r) = Total(passed.redis) - passed.redis[W]
        /\ r[0] = 0 /\ \A a \in Ages : a # 0 => r[a] = passed.redis[a - 1]
    BY <1>a, TotalAged
  <2>6. /\ m \in Counts /\ Total(m) = Total(passed.memory) - passed.memory[W]
        /\ m[0] = 0 /\ \A a \in Ages : a # 0 => m[a] = passed.memory[a - 1]
    BY <1>a, TotalAged
  <2>7. passed'.redis = r /\ passed'.memory = m /\ passed' \in [redis : Counts, memory : Counts]
    BY <2>1, <2>5, <2>6
  <2>8. /\ call' \in [Calls -> {CallIdle} \cup Overs]
        /\ Cardinality(TakingAt(call', 0)) = 0
        /\ \A a \in Ages : a # 0 => TakingAt(call', a) = TakingAt(call, a - 1)
        /\ Cardinality(Taking(call'))
             = Cardinality(Taking(call)) - Cardinality(TakingAt(call, Window - 1))
    BY <1>a, <2>1, AgedCards, Zenon
  <2>9. /\ own' \in [Instances -> Counts]
        /\ SumOn(Column(own', 0), Instances) = 0
        /\ \A a \in Ages : a # 0 =>
              SumOn(Column(own', a), Instances) = SumOn(Column(own, a - 1), Instances)
        /\ SumOn(ByInstance(own'), Instances)
             = SumOn(ByInstance(own), Instances) - SumOn(Column(own, Window - 1), Instances)
    BY <1>a, <2>1, AgedSums, Zenon
  <2>10. LimiterTypeOK' BY <1>a, <2>1, <2>3, <2>4, <2>7, <2>8, <2>9 DEF LimiterTypeOK
  <2>11. RedisCounts'
    <3>1. \A a \in Ages : z'[a] = r[a] + lost'[a] + Cardinality(TakingAt(call', a))
      <4> TAKE a \in Ages
      <4> HIDE DEF r, m
      <4>1. CASE a = 0 BY <2>3, <2>4, <2>5, <2>8, <4>1
      <4>2. CASE a # 0
        <5>1. z[a - 1] = passed.redis[a - 1] + lost[a - 1] + Cardinality(TakingAt(call, a - 1))
          BY <1>b, <2>2, <4>2
        <5> QED BY <2>3, <2>4, <2>5, <2>8, <4>2, <5>1
      <4> QED BY <4>1, <4>2
    <3>2. Total(z') = Total(r) + Total(lost') + Cardinality(Taking(call')) /\ Total(r) <= Limit
      <4>1. z[W] = passed.redis[W] + lost[W] + Cardinality(TakingAt(call, W))
        BY <1>b, <2>2
      <4>2. z[W] \in Nat /\ passed.redis[W] \in Nat /\ lost[W] \in Nat
        BY <1>c, <2>2
      <4>3. Cardinality(Taking(call')) = Cardinality(Taking(call)) - Cardinality(TakingAt(call, W))
        BY <2>8
      <4> HIDE DEF r, m, W
      <4> QED BY <1>b, <1>c, <1>d, <2>3, <2>4, <2>5, <4>1, <4>2, <4>3
    <3> QED BY <2>7, <3>1, <3>2 DEF RedisCounts
  <2>12. MemoryCounts'
    <3>1. /\ \A a \in Ages : passed.memory[a] = SumOn(Column(own, a), Instances)
          /\ Total(passed.memory) = SumOn(ByInstance(own), Instances)
          /\ \A j \in Instances : Total(own[j]) <= Limit
      BY DEF LimiterInv, MemoryCounts
    <3>2. \A a \in Ages : m[a] = SumOn(Column(own', a), Instances)
      <4> TAKE a \in Ages
      <4> HIDE DEF r, m
      <4>1. CASE a = 0 BY <2>6, <2>9, <4>1
      <4>2. CASE a # 0
        <5>1. passed.memory[a - 1] = SumOn(Column(own, a - 1), Instances) BY <2>2, <3>1, <4>2
        <5> QED BY <2>6, <2>9, <4>2, <5>1
      <4> QED BY <4>1, <4>2
    <3>3. Total(m) = SumOn(ByInstance(own'), Instances)
      <4>1. passed.memory[W] = SumOn(Column(own, W), Instances) BY <2>2, <3>1
      <4>2. SumOn(ByInstance(own'), Instances)
              = SumOn(ByInstance(own), Instances) - SumOn(Column(own, W), Instances)
        BY <2>9
      <4> HIDE DEF r, m, W
      <4> QED BY <2>6, <3>1, <4>1, <4>2
    <3>4. \A j \in Instances : Total(own'[j]) <= Limit
      <4> TAKE j \in Instances
      <4>1. own'[j] = Aged(own[j]) BY <2>1
      <4>2. Total(own'[j]) = Total(own[j]) - own[j][W] BY <1>c, <4>1, TotalAged
      <4>3. own[j][W] \in Nat BY <1>c, <2>2 DEF Counts
      <4> HIDE DEF W
      <4> QED BY <1>c, <3>1, <4>2, <4>3
    <3> QED BY <2>7, <3>2, <3>3, <3>4 DEF MemoryCounts
  <2> QED BY <2>10, <2>11, <2>12 DEF LimiterInv
<1> QED BY <1>1, <1>2, <1>3, <1>4, <1>5, <1>6, <1>7 DEF LimiterNext

\* In every window no more checks pass than the limit, and the limit once more for
\* each server on its own memory, in whatever order checks, refusals and failures
\* of Redis come; and a refused check holds up none that comes later.
THEOREM WindowBoundTheorem == LimiterSpec => []WindowBound
<1>1. LimiterInit => LimiterInv
  <2> SUFFICES ASSUME LimiterInit PROVE LimiterInv OBVIOUS
  <2>1. /\ z = None /\ lost = None /\ up = TRUE /\ own = [i \in Instances |-> None]
        /\ passed = [redis |-> None, memory |-> None] /\ call = [c \in Calls |-> CallIdle]
    BY DEF LimiterInit
  <2>2. None \in Counts /\ \A a \in Ages : None[a] = 0
    BY DEF None, Counts
  <2>3. Total(None) = 0
    <3>1. SumOn(None, Ages) = 0 BY <2>2, AgesFacts, SumOfZeros
    <3> QED BY <2>2, <3>1, TotalOfCounts
  <2>4. LimiterTypeOK BY <2>1, <2>2 DEF LimiterTypeOK
  <2>5. Taking(call) = {} /\ \A a : TakingAt(call, a) = {}
    BY <2>1 DEF Taking, TakingAt
  <2>6. Cardinality({}) = 0 BY FS_EmptySet
  <2>7. RedisCounts
    <3>1. passed.redis = None /\ 0 <= Limit BY <2>1, LimitAssumption
    <3>2. Cardinality(Taking(call)) = 0 /\ \A a : Cardinality(TakingAt(call, a)) = 0
      BY <2>5, <2>6
    <3> HIDE DEF None
    <3> QED BY <2>1, <2>2, <2>3, <3>1, <3>2 DEF RedisCounts
  <2>8. MemoryCounts
    <3>1. ASSUME NEW f, \A i \in Instances : f[i] = 0 PROVE SumOn(f, Instances) = 0
      BY <3>1, ServersAssumption, SumOfZeros
    <3>2. \A i \in Instances : ByInstance(own)[i] = 0
      BY <2>1, <2>3 DEF ByInstance
    <3>3. \A a \in Ages : \A i \in Instances : Column(own, a)[i] = 0
      BY <2>1, <2>2 DEF Column
    <3>4. SumOn(ByInstance(own), Instances) = 0 /\ \A a \in Ages : SumOn(Column(own, a), Instances) = 0
      BY <3>1, <3>2, <3>3
    <3> QED BY <2>1, <2>2, <2>3, <3>4, LimitAssumption DEF MemoryCounts
  <2> QED BY <2>4, <2>7, <2>8 DEF LimiterInv
<1>2. LimiterInv => WindowBound
  <2> SUFFICES ASSUME LimiterInv PROVE WindowBound OBVIOUS
  <2>1. SumOn(ByInstance(own), Instances) <= Limit * Cardinality(Instances)
    <3> DEFINE f == ByInstance(own)
    <3>1. \A i \in Instances : f[i] \in Int /\ f[i] <= Limit
      <4> TAKE i \in Instances
      <4>1. own[i] \in Counts /\ Total(own[i]) <= Limit
        BY DEF LimiterInv, LimiterTypeOK, MemoryCounts
      <4> QED BY <4>1, TotalOfCounts DEF ByInstance
    <3> HIDE DEF f
    <3>2. SumOn(f, Instances) <= Limit * Cardinality(Instances)
      BY <3>1, ServersAssumption, LimitAssumption, SumBounded
    <3> QED BY <3>2 DEF f
  <2>2. Taking(call) = {c \in Calls : call[c] # CallIdle /\ call[c].age < Window}
    BY DEF Taking
  <2> QED BY <2>1, <2>2 DEF LimiterInv, RedisCounts, MemoryCounts, WindowBound
<1> QED BY <1>1, <1>2, LimiterStep, PTL DEF LimiterSpec
=============================================================================
