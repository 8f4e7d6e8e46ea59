----------------------------- MODULE AuthSessions -----------------------------
(***************************************************************************)
(* The sessions of one account (app/auth and app/api/routes/auth.py):      *)
(* refresh tokens, which are rows, access tokens, which only carry the     *)
(* token_version they were issued under, and the API key, which is kept in *)
(* the row of the user's settings (app/api/routes/settings.py).            *)
(*                                                                         *)
(* As in Workspaces a request reads, checks, and commits later, without a  *)
(* lock in between.  Logging out increments the version that was read and  *)
(* revokes, in the database, the rows that are live at that time; a        *)
(* password reset and a deactivation only increment the version.           *)
(*                                                                         *)
(* Passwords and cookies are taken to be right.  A token or a link that    *)
(* expires is one that is not used any more.                               *)
(***************************************************************************)
EXTENDS Workspaces

CONSTANT Holder  \* the account

ASSUME HolderAssumption == Holder \in Users

Grants == 1..(MaxRequests + 1)  \* one that was there, and one per request

VARIABLES
    version,   \* users.token_version
    session,   \* rows of refresh_token_sessions
    tokens,    \* access tokens users were given: <<grant, version>>
    link,      \* a password reset link is in Redis
    settings,  \* the row of user_settings, with the API key, 0 for none
    handed,    \* the API key the user was given last and has not revoked
    muddled,   \* a revocation was committed while that key was generated
    auth,      \* what each request on the sessions is about to write
    ended,     \* tokens given out before the version was last incremented
    collided,  \* an increment was computed from an old version
    logins,    \* logins since the last logout
    overlaps   \* rotations of a session that was changed since it was read

apiKey   == <<settings, handed, muddled>>
sessions == <<version, session, tokens, link, ended, collided, logins, overlaps, apiKey>>

Kind == {"login", "rotate", "revoke", "logout", "reset", "deactivate",
         "open settings", "generate key", "revoke key"}

SessionState == {"none", "live", "revoked"}

Settings == [exists : BOOLEAN, key : {0} \cup Grants, revoked : BOOLEAN]

NoSettings == [exists |-> FALSE, key |-> 0, revoked |-> FALSE]

NoAuth == [step |-> "idle"]

Auths == {NoAuth} \cup [step : {"commit", "unlink"}, kind : Kind, grant : Grants,
                        from : Grants, saw : SessionState, read : 0..MaxRequests,
                        settings : Settings]

BeginAuth(s, kind, from) ==
    /\ auth[s] = NoAuth
    /\ started < MaxRequests /\ started' = started + 1
    /\ auth' = [auth EXCEPT ![s] = [step |-> "commit", kind |-> kind, grant |-> started + 2,
                                    from |-> from, saw |-> session[from], read |-> version,
                                    settings |-> settings]]
    /\ UNCHANGED <<rows, lastId, work, sessions>>

(* The check of an access token, here and by the gateway.                  *)
Valid(t) == Holder \in Callers /\ t[2] = version

(* get_current_user.                                                       *)
Authenticated == \E t \in tokens : Valid(t)

(* verify_api_key.                                                         *)
Accepts(k) == Holder \in Callers /\ settings.key = k /\ ~settings.revoked

-----------------------------------------------------------------------------
(* login_user.                                                             *)
Login(s) == Holder \in Callers /\ BeginAuth(s, "login", 1)

(* Deliberately wrong: a revoked session is rotated again.                 *)
RotateRevoked(s, g) ==
    /\ session[g] # "none" /\ Holder \in Callers
    /\ BeginAuth(s, "rotate", g)

(* rotate_refresh_token.  On PostgreSQL, which returns expires_at with its *)
(* time zone, the comparison with utcnow() raises and nothing is rotated;  *)
(* SQLite, the database of the tests, returns it without.  The model lets  *)
(* it succeed, which only adds behaviours.                                 *)
Rotate(s, g) ==
    /\ session[g] = "live" /\ Holder \in Callers
    /\ BeginAuth(s, "rotate", g)

(* revoke_session, and a rotation that finds the session expired or the    *)
(* account inactive.                                                       *)
Revoke(s, g) == session[g] = "live" /\ BeginAuth(s, "revoke", g)

Logout(s) == Authenticated /\ BeginAuth(s, "logout", 1)

(* delete_account of auth.py, which keeps the row.                         *)
Deactivate(s) == Authenticated /\ BeginAuth(s, "deactivate", 1)

(* reset_password.                                                         *)
SendLink ==
    /\ Holder \in Callers /\ ~link
    /\ started < MaxRequests /\ started' = started + 1
    /\ link' = TRUE
    /\ UNCHANGED <<rows, lastId, work, auth, version, session, tokens, ended, collided, logins,
                   overlaps, apiKey>>

(* reset_password_confirm.                                                 *)
ConfirmReset(s) == link /\ Holder \in Accounts /\ BeginAuth(s, "reset", 1)

(* get_settings and update_settings: there may be no row yet.              *)
OpenSettings(s) == Authenticated /\ ~settings.exists /\ BeginAuth(s, "open settings", 1)

GenerateKey(s) == Authenticated /\ BeginAuth(s, "generate key", 1)

RevokeKey(s) == Authenticated /\ settings.key # 0 /\ BeginAuth(s, "revoke key", 1)

-----------------------------------------------------------------------------
(* The commits.  Those of a request whose account is gone fail.            *)
Commits(s, kind) ==
    /\ auth[s].step = "commit" /\ auth[s].kind = kind
    /\ Holder \in Accounts

Done(s) == auth' = [auth EXCEPT ![s] = NoAuth]

(* Deliberately wrong: the version stays as it was read.                   *)
IncrementNothing(s) ==
    /\ version' = auth[s].read
    /\ collided' = (collided \/ version # auth[s].read)
    /\ ended' = tokens

(* token_version, as it was read, plus one.                                *)
Increment(s) ==
    /\ version' = auth[s].read + 1
    /\ collided' = (collided \/ version # auth[s].read)
    /\ ended' = tokens

(* _issue_refresh_session, and an access token for the version read.       *)
Issue(s) == tokens' = tokens \cup {<<auth[s].grant, auth[s].read>>}

CommitLogin(s) ==
    /\ Commits(s, "login")
    /\ session' = [session EXCEPT ![auth[s].grant] = "live"]
    /\ Issue(s)
    /\ logins' = logins + 1
    /\ Done(s)
    /\ UNCHANGED <<wvars, version, link, ended, collided, overlaps, apiKey>>

CommitRotation(s) ==
    /\ Commits(s, "rotate")
    /\ session' = [session EXCEPT ![auth[s].from] = "revoked", ![auth[s].grant] = "live"]
    /\ Issue(s)
    /\ overlaps' = IF session[auth[s].from] # auth[s].saw THEN overlaps + 1 ELSE overlaps
    /\ Done(s)
    /\ UNCHANGED <<wvars, version, link, ended, collided, logins, apiKey>>

CommitRevocation(s) ==
    /\ Commits(s, "revoke")
    /\ session' = [session EXCEPT ![auth[s].from] = "revoked"]
    /\ Done(s)
    /\ UNCHANGED <<wvars, version, tokens, link, ended, collided, logins, overlaps, apiKey>>

CommitLogout(s) ==
    /\ Commits(s, "logout")
    /\ Increment(s)
    /\ session' = [g \in Grants |-> IF session[g] = "live" THEN "revoked" ELSE session[g]]
    /\ logins' = 0
    /\ Done(s)
    /\ UNCHANGED <<wvars, tokens, link, overlaps, apiKey>>

CommitReset(s) ==
    /\ Commits(s, "reset")
    /\ Increment(s)
    /\ auth' = [auth EXCEPT ![s].step = "unlink"]
    /\ UNCHANGED <<wvars, session, tokens, link, logins, overlaps, apiKey>>

(* The link is deleted after the commit.                                   *)
Unlink(s) ==
    /\ auth[s].step = "unlink"
    /\ link' = FALSE
    /\ Done(s)
    /\ UNCHANGED <<wvars, version, session, tokens, ended, collided, logins, overlaps, apiKey>>

CommitDeactivation(s) ==
    /\ Commits(s, "deactivate")
    /\ Increment(s)
    /\ account' = [account EXCEPT ![Holder] = "inactive"]
    /\ Done(s)
    /\ UNCHANGED <<live, members, lastRow, default, stale, left, lastId, work, started,
                   session, tokens, link, logins, overlaps, apiKey>>

(* The key of user_settings is unique by user: of two that insert the row  *)
(* the second fails.                                                       *)
CommitSettings(s) ==
    /\ Commits(s, "open settings")
    /\ settings' = [settings EXCEPT !.exists = TRUE]
    /\ Done(s)
    /\ UNCHANGED <<wvars, version, session, tokens, link, ended, collided, logins, overlaps,
                   handed, muddled>>

(* Deliberately wrong: a new key leaves the mark of the revoked one.       *)
StillRevoked(s) == settings.revoked

(* api_key_revoked_at is only written if a time was read.                  *)
RevokedAfter(s) == settings.revoked /\ ~auth[s].settings.revoked

CommitKey(s) ==
    /\ Commits(s, "generate key")
    /\ IF settings.exists = auth[s].settings.exists
       THEN /\ settings' = [exists |-> TRUE, key |-> auth[s].grant, revoked |-> RevokedAfter(s)]
            /\ handed' = auth[s].grant
            /\ muddled' = (settings.revoked # auth[s].settings.revoked)
       ELSE UNCHANGED apiKey
    /\ Done(s)
    /\ UNCHANGED <<wvars, version, session, tokens, link, ended, collided, logins, overlaps>>

CommitKeyRevocation(s) ==
    /\ Commits(s, "revoke key")
    /\ settings' = [settings EXCEPT !.revoked = TRUE]
    /\ handed' = 0 /\ muddled' = FALSE
    /\ Done(s)
    /\ UNCHANGED <<wvars, version, session, tokens, link, ended, collided, logins, overlaps>>

CommitFails(s) ==
    /\ auth[s].step = "commit" /\ Holder \notin Accounts
    /\ Done(s)
    /\ UNCHANGED <<wvars, sessions>>

(* The rows go with the account.                                           *)
SessionsAfterWork ==
    /\ IF account'[Holder] = "deleted"
       THEN /\ session' = [g \in Grants |-> "none"]
            /\ settings' = NoSettings /\ handed' = 0 /\ muddled' = FALSE
       ELSE UNCHANGED <<session, apiKey>>
    /\ UNCHANGED <<version, tokens, link, auth, ended, collided, logins, overlaps>>

-----------------------------------------------------------------------------
(* The user has logged in once.                                            *)
SessionsInit ==
    /\ account[Holder] = "active"
    /\ version = 0 /\ link = FALSE
    /\ session = [g \in Grants |-> IF g = 1 THEN "live" ELSE "none"]
    /\ tokens = {<<1, 0>>} /\ ended = {}
    /\ auth = [s \in Slots |-> NoAuth]
    /\ collided = FALSE /\ logins = 1 /\ overlaps = 0
    /\ settings = NoSettings /\ handed = 0 /\ muddled = FALSE

BeginOnSessions(s) ==
    \/ Login(s) \/ Logout(s) \/ Deactivate(s) \/ ConfirmReset(s)
    \/ OpenSettings(s) \/ GenerateKey(s) \/ RevokeKey(s)
    \/ \E g \in Grants : Rotate(s, g) \/ Revoke(s, g)

EndOnSessions(s) ==
    \/ CommitLogin(s) \/ CommitRotation(s) \/ CommitRevocation(s) \/ CommitLogout(s)
    \/ CommitReset(s) \/ Unlink(s) \/ CommitDeactivation(s) \/ CommitFails(s)
    \/ CommitSettings(s) \/ CommitKey(s) \/ CommitKeyRevocation(s)

-----------------------------------------------------------------------------
SessionsTypeOK ==
    /\ version \in 0..MaxRequests
    /\ session \in [Grants -> SessionState]
    /\ tokens \subseteq Grants \X (0..MaxRequests) /\ ended \subseteq tokens
    /\ link \in BOOLEAN /\ collided \in BOOLEAN
    /\ auth \in [Slots -> Auths]
    /\ logins \in Nat /\ overlaps \in Nat
    /\ settings \in Settings /\ handed \in {0} \cup Grants /\ muddled \in BOOLEAN

(* No access token outlives a logout, a password reset or a deactivation   *)
(* that was committed after it was given out, unless two of these crossed  *)
(* and counted as one.                                                     *)
EndedForGood == \A t \in ended : ~Valid(t) \/ collided

(* However refresh tokens are rotated, revoked and retried, a login makes  *)
(* one chain of sessions, of which a logout leaves nothing: the live ones  *)
(* are as many as the logins since, except for rotations under way when    *)
(* their session was changed.                                              *)
SessionsComeFromLogins ==
    Cardinality({g \in Grants : session[g] = "live"}) <= logins + overlaps

(* The API key a user was given last is accepted until he revokes it,      *)
(* however keys were generated and revoked before, unless the revocation   *)
(* of an earlier one was committed while it was being generated.           *)
GivenKeyWorks == handed # 0 /\ Holder \in Callers => Accepts(handed) \/ muddled

=============================================================================
