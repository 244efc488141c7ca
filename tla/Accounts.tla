------------------------------ MODULE Accounts ------------------------------
(***************************************************************************)
(* One member's account: password, lockout, reset and verification codes,  *)
(* login sessions, suspension and the archive of technicians (app/auth.py, *)
(* app/account_security_store.py, app/email_verification_store.py,         *)
(* app/technician_store.py and their routes in app/main.py).               *)
(*                                                                         *)
(* Requests share one event loop and take row locks.  Store functions run  *)
(* in worker threads, but the login route calls the database on the loop   *)
(* itself, so that nothing else begins or ends while it waits for a lock.  *)
(* A store function that raises keeps its locks until get_db_session       *)
(* closes the session, which needs the loop.  SELECT ... FOR UPDATE does   *)
(* not refresh an object that the session has loaded before: such a        *)
(* request goes on with its copy ("seen").                                 *)
(***************************************************************************)
EXTENDS Integers, Sequences, FiniteSets

CONSTANTS
    Requests,      \* the HTTP requests that may be in flight at once
    Passwords,     \* the passwords that people type
    Threshold,     \* account_lockout_failure_threshold
    MaxSessions, MaxTokens,   \* bounds on the rows
    MaxEdits       \* bound on the requests that change the account

ASSUME ThresholdAssumption == Threshold \in Nat \ {0}
ASSUME BoundsAssumption == {MaxSessions, MaxTokens, MaxEdits} \subseteq Nat

VARIABLES
    user,       \* the member's rows of user_accounts, shop_memberships, technicians
    tokens,     \* password_reset_tokens and email_verification_tokens
    sessions,   \* auth_sessions
    req,        \* the progress of each request, its locks and its loaded copies
    guesses,    \* wrong passwords since the counter last had a reason to restart (history)
    edits       \* requests so far

rowVars == <<user, tokens, sessions>>
vars == <<rowVars, req, guesses, edits>>

Kinds == {"reset", "verify"}
TokenStatuses == {"active", "used", "revoked", "expired"}

\* locked_until: not set, in the future, in the past.
Lockouts == {"no", "running", "over"}

Users == [owner : BOOLEAN, pw : Passwords, active : BOOLEAN, archived : BOOLEAN,
          failed : Nat, locked : Lockouts, verified : BOOLEAN]

\* lapsed: expires_at has passed; uses: the confirmations it has granted (history).
Tokens == [kind : Kinds, status : TokenStatuses, lapsed : BOOLEAN, uses : Nat]

\* pw: the password that vouches for the session; late: its login was under way
\* while the password changed or the member was suspended or archived (history).
AuthSessions == [state : {"live", "lapsed", "revoked"}, pw : Passwords, late : BOOLEAN]

Idle == [pc |-> "idle"]

Init ==
    /\ user \in [owner : BOOLEAN, pw : Passwords, active : {TRUE}, archived : {FALSE},
                 failed : {0}, locked : {"no"}, verified : BOOLEAN]
    /\ tokens = <<>>
    /\ sessions = <<>>
    /\ req = [r \in Requests |-> Idle]
    /\ guesses = 0
    /\ edits = 0

-----------------------------------------------------------------------------
(* The event loop, the locks, the rows                                     *)

\* The statements that the login route runs on the loop, without an await.
LoginPcs == {"login_lock", "login_member", "login_mint"}

LoopFree == \A q \in Requests : req[q].pc \notin LoginPcs

\* Who holds the user row, and who holds the row of token t.
HoldsUser(q) == req[q].pc = "resend_revoke" \/ (req[q].pc = "raised" /\ req[q].user)
HoldsToken(q, t) ==
    \/ req[q].pc \in {"verify_user", "raised"} /\ req[q].token = t
    \/ req[q].pc = "archive_commit" /\ t \in req[q].tokens

UserFree(r) == \A q \in Requests \ {r} : ~HoldsUser(q)
TokenFree(r, t) == \A q \in Requests \ {r} : ~HoldsToken(q, t)

\* The active codes of a kind, and whether an UPDATE of them need not wait.
ActiveTokens(kind) == {t \in DOMAIN tokens : tokens[t].kind = kind /\ tokens[t].status = "active"}
ActiveFree(r, kind) == \A t \in ActiveTokens(kind) : TokenFree(r, t)

\* A request enters its handler.
Begin(r, record) ==
    /\ req[r] = Idle
    /\ LoopFree
    /\ edits < MaxEdits
    /\ edits' = edits + 1
    /\ req' = [req EXCEPT ![r] = record]
    /\ UNCHANGED <<rowVars, guesses>>

\* The handler has returned; its locks went with its commit.
Done(r) == req' = [req EXCEPT ![r] = [pc |-> "done"]]

\* It has raised or returned without a commit: it keeps the user row, or a token's.
Raise(r, holdsUser, token) ==
    req' = [req EXCEPT ![r] = [pc |-> "raised", user |-> holdsUser, token |-> token]]

\* The loop sends the response and get_db_session closes the session.
Close(r) ==
    /\ req[r].pc \in {"done", "raised"}
    /\ LoopFree
    /\ req' = [req EXCEPT ![r] = Idle]
    /\ UNCHANGED <<rowVars, guesses, edits>>

\* get_current_auth_context: a live session of an active member.
Authenticated(s) == sessions[s].state = "live" /\ user.active

Revoked(others) ==
    [s \in DOMAIN sessions |->
        IF s \in others /\ sessions[s].state \in {"live", "lapsed"}
        THEN [sessions[s] EXCEPT !.state = "revoked"] ELSE sessions[s]]

\* The UPDATE that revokes the active tokens of a kind.
TokensRevoked(kind) ==
    [t \in DOMAIN tokens |->
        IF t \in ActiveTokens(kind) THEN [tokens[t] EXCEPT !.status = "revoked"] ELSE tokens[t]]

\* Mutant: the codes sent before stay active.
TokenReplacedKeepsOld(kind) ==
    Append(tokens, [kind |-> kind, status |-> "active", lapsed |-> FALSE, uses |-> 0])

\* A new code replaces the active one.
TokenReplaced(kind) ==
    Append(TokensRevoked(kind),
           [kind |-> kind, status |-> "active", lapsed |-> FALSE, uses |-> 0])

TokenUsed(t) == [tokens EXCEPT ![t].status = "used", ![t].uses = @ + 1]

\* An archive of the technician has read their sessions.
Archiving == \E q \in Requests : req[q].pc \in {"archive_tokens", "archive_commit"}

-----------------------------------------------------------------------------
(* POST /api/auth/login                                                    *)

LoginBegin(r) ==
    /\ Len(sessions) < MaxSessions
    /\ \E p \in Passwords : Begin(r, [pc |-> "login_lock", pw |-> p])

\* Mutant: one guess more than the setting allows.
LoginRefusedLater(r) ==
    LET base == IF user.locked = "over" THEN 0 ELSE user.failed
    IN  /\ req[r].pw # user.pw
        /\ user.locked # "running"
        /\ user' = [user EXCEPT !.failed = base + 1,
                                !.locked = IF base + 1 > Threshold THEN "running" ELSE "no"]
        /\ guesses' = IF user.locked = "over" THEN 1 ELSE guesses + 1
        /\ Done(r)

\* A wrong password counts; a cooldown that is over starts the count again.
LoginRefused(r) ==
    LET base == IF user.locked = "over" THEN 0 ELSE user.failed
    IN  /\ req[r].pw # user.pw
        /\ user.locked # "running"
        /\ user' = [user EXCEPT !.failed = base + 1,
                                !.locked = IF base + 1 >= Threshold THEN "running" ELSE "no"]
        /\ guesses' = IF user.locked = "over" THEN 1 ELSE guesses + 1
        /\ Done(r)

\* The right password clears the counter and the cooldown, also a running one.
LoginAccepted(r) ==
    /\ req[r].pw = user.pw
    /\ user' = [user EXCEPT !.failed = 0, !.locked = "no"]
    /\ guesses' = 0
    /\ req' = [req EXCEPT ![r].pc = "login_member"]

\* authenticate_account, from the row lock to its commit.
LoginCheck(r) ==
    /\ req[r].pc = "login_lock"
    /\ UserFree(r)
    /\ UNCHANGED <<tokens, sessions, edits>>
    /\ \/ /\ ~user.active \/ (user.locked = "running" /\ req[r].pw # user.pw)
          /\ Done(r)
          /\ UNCHANGED <<user, guesses>>
       \/ user.active /\ (LoginRefused(r) \/ LoginAccepted(r))

\* create_auth_session: effective_shop_id refuses a membership that is not active.
LoginMember(r) ==
    /\ req[r].pc = "login_member"
    /\ IF user.active THEN req' = [req EXCEPT ![r].pc = "login_mint"]
                      ELSE Raise(r, FALSE, 0)
    /\ UNCHANGED <<rowVars, guesses, edits>>

\* Its commit stores the session and touches the user row.
LoginMint(r) ==
    /\ req[r].pc = "login_mint"
    /\ UserFree(r)
    /\ sessions' = Append(sessions,
           [state |-> "live", pw |-> req[r].pw,
            late |-> req[r].pw # user.pw \/ ~user.active \/ Archiving])
    /\ Done(r)
    /\ UNCHANGED <<user, tokens, guesses, edits>>

-----------------------------------------------------------------------------
(* Password change and reset                                               *)

\* The UPDATE of an attribute: none when the new value is the loaded one.
Written(seen, new, stored) == IF new = seen THEN stored ELSE new

ChangeBegin(r) ==
    \E s \in DOMAIN sessions, current, new \in Passwords :
        /\ Authenticated(s)
        /\ Begin(r, [pc |-> "change_lock", session |-> s, current |-> current, new |-> new,
                     seen |-> [pw |-> user.pw, failed |-> user.failed, locked |-> user.locked]])

\* change_password, from the row lock to its commit; it judges the loaded row.
ChangeCommit(r) ==
    LET q == req[r]
    IN  /\ q.pc = "change_lock"
        /\ UserFree(r)
        /\ IF q.current # q.seen.pw \/ q.new = q.seen.pw
           THEN Raise(r, TRUE, 0) /\ UNCHANGED <<rowVars, guesses>>
           ELSE /\ ActiveFree(r, "reset")
                /\ user' = [user EXCEPT !.pw = q.new,
                                        !.failed = Written(q.seen.failed, 0, @),
                                        !.locked = Written(q.seen.locked, "no", @)]
                /\ sessions' = [Revoked(DOMAIN sessions \ {q.session})
                                    EXCEPT ![q.session].pw = q.new]
                /\ tokens' = TokensRevoked("reset")
                /\ guesses' = 0
                /\ Done(r)
        /\ UNCHANGED edits

\* request_password_reset: one transaction under the user row.
ResetRequestBegin(r) ==
    Len(tokens) < MaxTokens /\ Begin(r, [pc |-> "reset_request"])

ResetRequest(r) ==
    /\ req[r].pc = "reset_request"
    /\ UserFree(r)
    /\ IF user.active /\ user.verified
       THEN ActiveFree(r, "reset") /\ tokens' = TokenReplaced("reset") /\ Done(r)
       ELSE UNCHANGED tokens /\ Raise(r, TRUE, 0)
    /\ UNCHANGED <<user, sessions, guesses, edits>>

\* confirm_password_reset loads the code first, without a lock.
ResetConfirmBegin(r) ==
    \E t \in DOMAIN tokens, p \in Passwords :
        /\ tokens[t].kind = "reset"
        /\ Begin(r, [pc |-> "reset_confirm", token |-> t, pw |-> p, seen |-> tokens[t].status])

\* The code is good: the new password, no lockout, no session.
ResetGranted(r) ==
    /\ req[r].seen = "active" /\ ~tokens[req[r].token].lapsed /\ user.active
    /\ user' = [user EXCEPT !.pw = req[r].pw, !.failed = 0, !.locked = "no"]
    /\ tokens' = TokenUsed(req[r].token)
    /\ sessions' = Revoked(DOMAIN sessions)
    /\ guesses' = 0
    /\ Done(r)

\* It is not: only an expiry is stored, and only that lets go of the rows.
ResetDenied(r) ==
    LET t == req[r].token
    IN  /\ IF req[r].seen = "active" /\ tokens[t].lapsed
           THEN tokens' = [tokens EXCEPT ![t].status = "expired"] /\ Raise(r, FALSE, 0)
           ELSE /\ req[r].seen # "active" \/ ~user.active
                /\ UNCHANGED tokens
                /\ Raise(r, TRUE, t)
        /\ UNCHANGED <<user, sessions, guesses>>

\* The user row, then the code, both FOR UPDATE; the code is the loaded copy.
ResetConfirm(r) ==
    /\ req[r].pc = "reset_confirm"
    /\ UserFree(r) /\ TokenFree(r, req[r].token)
    /\ ResetGranted(r) \/ ResetDenied(r)
    /\ UNCHANGED edits

-----------------------------------------------------------------------------
(* Email verification                                                      *)

ResendBegin(r) ==
    \E s \in DOMAIN sessions :
        /\ Authenticated(s)
        /\ Len(tokens) < MaxTokens
        /\ Begin(r, [pc |-> "resend_lock", seen |-> user.verified])

\* request_email_verification takes the user row and judges the loaded one ...
ResendLock(r) ==
    /\ req[r].pc = "resend_lock"
    /\ UserFree(r)
    /\ IF req[r].seen THEN Raise(r, TRUE, 0)
                      ELSE req' = [req EXCEPT ![r] = [pc |-> "resend_revoke"]]
    /\ UNCHANGED <<rowVars, guesses, edits>>

\* ... then waits for the active codes, revokes them and stores the new one.
ResendRevoke(r) ==
    /\ req[r].pc = "resend_revoke"
    /\ ActiveFree(r, "verify")
    /\ tokens' = TokenReplaced("verify")
    /\ Done(r)
    /\ UNCHANGED <<user, sessions, guesses, edits>>

VerifyBegin(r) ==
    \E t \in DOMAIN tokens :
        /\ tokens[t].kind = "verify"
        /\ Begin(r, [pc |-> "verify_lock", token |-> t])

\* confirm_email_verification reads the code for the first time under its lock ...
VerifyLock(r) ==
    LET t == req[r].token
    IN  /\ req[r].pc = "verify_lock"
        /\ TokenFree(r, t)
        /\ \/ /\ tokens[t].status # "active"
              /\ UNCHANGED tokens
              /\ Raise(r, FALSE, t)
           \/ /\ tokens[t].status = "active" /\ tokens[t].lapsed
              /\ tokens' = [tokens EXCEPT ![t].status = "expired"]
              /\ Raise(r, FALSE, 0)
           \/ /\ tokens[t].status = "active" /\ ~tokens[t].lapsed
              /\ UNCHANGED tokens
              /\ req' = [req EXCEPT ![r].pc = "verify_user"]
        /\ UNCHANGED <<user, sessions, guesses, edits>>

\* ... and writes the user row in its commit.
VerifyCommit(r) ==
    /\ req[r].pc = "verify_user"
    /\ UserFree(r)
    /\ user' = [user EXCEPT !.verified = TRUE]
    /\ tokens' = TokenUsed(req[r].token)
    /\ Done(r)
    /\ UNCHANGED <<sessions, guesses, edits>>

\* Each holds the row that the other waits for; PostgreSQL aborts one of them: a
\* resend and a confirmation, or an archive and a writer of the reset codes.
CrossWait(r, q) ==
    \/ /\ req[r].pc = "resend_revoke"
       /\ req[q].pc = "verify_user"
       /\ tokens[req[q].token].status = "active"
    \/ /\ req[r].pc \in {"change_lock", "reset_request", "reset_confirm", "status"}
       /\ UserFree(r)
       /\ req[r].pc = "status" => ~req[r].active
       /\ req[q].pc = "archive_commit" /\ req[q].tokens # {}

DeadlockVictim(r) ==
    /\ \E q \in Requests : CrossWait(r, q) \/ CrossWait(q, r)
    /\ Raise(r, FALSE, 0)
    /\ UNCHANGED <<rowVars, guesses, edits>>

-----------------------------------------------------------------------------
(* Sessions, suspension, time                                              *)

\* logout, revoke_session and revoke_other_sessions.  They only revoke, so that
\* nothing depends on what happens between their authentication and their commit.
RevokeSessions(r) ==
    /\ req[r] = Idle
    /\ LoopFree
    /\ \E s \in DOMAIN sessions :
           /\ Authenticated(s)
           /\ \/ \E t \in DOMAIN sessions :
                     sessions[t].state \in {"live", "lapsed"} /\ sessions' = Revoked({t})
              \/ sessions' = Revoked(DOMAIN sessions \ {s})
    /\ Done(r)
    /\ UNCHANGED <<user, tokens, guesses, edits>>

\* An owner's status is not for another member to change.
StatusBegin(r) ==
    ~user.owner /\ \E active \in BOOLEAN : Begin(r, [pc |-> "status", active |-> active])

\* update_member_status by an administrator, under the lock of both rows; an
\* archived technician is not reactivated.
MemberStatus(r) ==
    /\ req[r].pc = "status"
    /\ UserFree(r)
    /\ IF req[r].active /\ user.archived
       THEN Raise(r, TRUE, 0) /\ UNCHANGED rowVars
       ELSE /\ user' = [user EXCEPT !.active = req[r].active]
            /\ IF req[r].active
               THEN UNCHANGED <<tokens, sessions>>
               ELSE /\ ActiveFree(r, "reset")
                    /\ sessions' = Revoked(DOMAIN sessions)
                    /\ tokens' = TokensRevoked("reset")
            /\ Done(r)
    /\ UNCHANGED <<guesses, edits>>

\* archive_technician reads the active account and its sessions without a lock (a
\* member who is neither owner nor technician is not archived) ...
ArchiveBegin(r) ==
    LET found == {s \in DOMAIN sessions : sessions[s].state \in {"live", "lapsed"}}
    IN  /\ ~user.owner /\ user.active
        /\ Begin(r, [pc |-> "archive_tokens", found |-> found])

\* ... updates the reset codes, which keeps their rows until its commit ...
ArchiveTokens(r) ==
    /\ req[r].pc = "archive_tokens"
    /\ ActiveFree(r, "reset")
    /\ req' = [req EXCEPT ![r] = [pc |-> "archive_commit", found |-> req[r].found,
                                  tokens |-> ActiveTokens("reset")]]
    /\ UNCHANGED <<rowVars, guesses, edits>>

\* Mutant: the sessions stay.
ArchiveCommitKeepsSessions(r) ==
    /\ req[r].pc = "archive_commit"
    /\ UserFree(r)
    /\ user' = [user EXCEPT !.active = FALSE, !.archived = TRUE]
    /\ tokens' = [t \in DOMAIN tokens |->
                     IF t \in req[r].tokens THEN [tokens[t] EXCEPT !.status = "revoked"]
                     ELSE tokens[t]]
    /\ Done(r)
    /\ UNCHANGED <<sessions, guesses, edits>>

\* ... and writes the user row, the sessions it has read and the codes.
ArchiveCommit(r) ==
    /\ req[r].pc = "archive_commit"
    /\ UserFree(r)
    /\ user' = [user EXCEPT !.active = FALSE, !.archived = TRUE]
    /\ sessions' = Revoked(req[r].found)
    /\ tokens' = [t \in DOMAIN tokens |->
                     IF t \in req[r].tokens THEN [tokens[t] EXCEPT !.status = "revoked"]
                     ELSE tokens[t]]
    /\ Done(r)
    /\ UNCHANGED <<guesses, edits>>

-----------------------------------------------------------------------------
(* A session that support opens in the owner's name, and time              *)

ImpersonateBegin(r) ==
    user.owner /\ Len(sessions) < MaxSessions /\ Begin(r, [pc |-> "imp_mint"])

\* It is minted like one of a login; what becomes of it is in SupportAccess.
ImpersonateMint(r) ==
    /\ req[r].pc = "imp_mint"
    /\ UserFree(r)
    /\ sessions' = Append(sessions, [state |-> "live", pw |-> user.pw, late |-> FALSE])
    /\ Done(r)
    /\ UNCHANGED <<user, tokens, guesses, edits>>

\* locked_until, expires_at of a code and expires_at of a session pass.
TimePasses ==
    /\ \/ /\ user.locked = "running"
          /\ user' = [user EXCEPT !.locked = "over"]
          /\ UNCHANGED <<tokens, sessions>>
       \/ \E t \in DOMAIN tokens :
              /\ tokens[t].status = "active" /\ ~tokens[t].lapsed
              /\ tokens' = [tokens EXCEPT ![t].lapsed = TRUE]
              /\ UNCHANGED <<user, sessions>>
       \/ \E s \in DOMAIN sessions :
              /\ sessions[s].state = "live"
              /\ sessions' = [sessions EXCEPT ![s].state = "lapsed"]
              /\ UNCHANGED <<user, tokens>>
    /\ UNCHANGED <<req, guesses, edits>>

Next ==
    \/ \E r \in Requests :
           \/ LoginBegin(r) \/ LoginCheck(r) \/ LoginMember(r) \/ LoginMint(r)
           \/ ChangeBegin(r) \/ ChangeCommit(r)
           \/ ResetRequestBegin(r) \/ ResetRequest(r)
           \/ ResetConfirmBegin(r) \/ ResetConfirm(r)
           \/ ResendBegin(r) \/ ResendLock(r) \/ ResendRevoke(r)
           \/ VerifyBegin(r) \/ VerifyLock(r) \/ VerifyCommit(r) \/ DeadlockVictim(r)
           \/ RevokeSessions(r) \/ StatusBegin(r) \/ MemberStatus(r)
           \/ ArchiveBegin(r) \/ ArchiveTokens(r) \/ ArchiveCommit(r)
           \/ ImpersonateBegin(r) \/ ImpersonateMint(r)
           \/ Close(r)
    \/ TimePasses

Spec == Init /\ [][Next]_vars

-----------------------------------------------------------------------------
(* Properties                                                              *)

TypeOK ==
    /\ user \in Users
    /\ tokens \in Seq(Tokens)
    /\ sessions \in Seq(AuthSessions)
    /\ guesses \in Nat

\* However requests overlap, a member has at most one active code of each kind,
\* and a verification code is granted once.
CodesUnderControl ==
    /\ \A t, u \in DOMAIN tokens :
           /\ tokens[t].kind = tokens[u].kind
           /\ tokens[t].status = "active" /\ tokens[u].status = "active"
           => t = u
    /\ \A t \in DOMAIN tokens : tokens[t].kind = "verify" => tokens[t].uses <= 1

\* No wrong guess is lost, whatever runs beside it: Threshold of them since the
\* last reason to forgive put the account in its cooldown.
LockoutHolds ==
    /\ user.failed >= guesses
    /\ guesses >= Threshold => user.locked # "no"

\* A session does not outlive the password that opened it, or the membership that
\* an administrator suspends or archives, unless its login overlapped that change.
\* The next property says what such an overlap costs.
SessionsEndWithTheirGrounds ==
    \A s \in DOMAIN sessions :
        sessions[s].state = "live" /\ ~sessions[s].late =>
            user.active /\ sessions[s].pw = user.pw

\* "Do not mint even a dormant session for [a] deactivated ... membership.
\* Reactivation must require a fresh login" (auth.create_auth_session).
NoDormantSession ==
    \A s \in DOMAIN sessions : sessions[s].state = "live" => user.active

\* No login waits on the event loop for a row whose holder needs the loop.
LoopNeverWaits ==
    ~ \E r, q \in Requests :
        /\ req[r].pc \in {"login_lock", "login_mint"}
        /\ HoldsUser(q) /\ req[q].pc = "raised"
=============================================================================
