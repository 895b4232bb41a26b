--------------------------- MODULE AccountAccess ---------------------------
(***************************************************************************)
(* One account: its invitation, logins, sessions and open WebSockets       *)
(* (internal/gateway/auth.go, account.go, account_sessions.go, admin.go,   *)
(* websocket_registry.go and their statements in internal/store).          *)
(*                                                                         *)
(* A request is authorised once, when it arrives; a WebSocket then lives   *)
(* on in the registry of the Gateway's process.  Whoever takes a session   *)
(* away deletes its row first and closes its connections afterwards, or    *)
(* not at all (the administrator's list of sessions); a periodic worker    *)
(* closes what lost its session in any way.                                *)
(***************************************************************************)
EXTENDS Naturals, FiniteSets

CONSTANTS
  Sessions,       \* sessions that may be created
  Sockets,        \* WebSocket connections
  LockThreshold,  \* AccountLockThreshold
  MaxPasswords    \* bound: how often the password is changed

VARIABLES
  account,  \* the users row, and the invitation it comes from
  session,  \* sessions: none, live, stale (idle or expired), revoked, deleted
  login,    \* a login under way for each session: what it has read
  socket,   \* the connections: their session and how far they are
  closing,  \* revocations that have deleted rows and not yet closed connections
  pruner,   \* pruneUnauthorizedWebSockets between its three steps
  swept     \* history: sessions that were gone when a finished run of the pruner asked
accessVars == <<account, session, login, socket, closing, pruner, swept>>

NoAccount == [is |-> "invited", enabled |-> TRUE, password |-> 1, weak |-> FALSE,
              failures |-> 0, locked |-> FALSE]
OldAccount == [NoAccount EXCEPT !.is = "there", !.weak = TRUE]
NoLogin == [at |-> "no", password |-> 0, enabled |-> TRUE, locked |-> FALSE, weak |-> FALSE]
NoSocket == [session |-> CHOOSE s \in Sessions : TRUE, at |-> "no"]
Resting == [at |-> "rest", seen |-> {}, active |-> {}, gone |-> {}]

AccessInit ==
  /\ account \in {NoAccount, OldAccount}
  /\ session = [s \in Sessions |-> "none"] /\ login = [s \in Sessions |-> NoLogin]
  /\ socket = [k \in Sockets |-> NoSocket]
  /\ closing = {} /\ pruner = Resting /\ swept = {}

AccessTypeOK ==
  /\ account \in [is : {"invited", "withdrawn", "there", "expired", "deleted"},
                  enabled : BOOLEAN, password : 1..MaxPasswords, weak : BOOLEAN,
                  failures : 0..LockThreshold, locked : BOOLEAN]
  /\ session \in [Sessions -> {"none", "live", "stale", "revoked", "deleted"}]
  /\ socket \in [Sockets -> [session : Sessions, at : {"no", "checked", "registered", "open"}]]
  /\ closing \subseteq SUBSET Sessions
  /\ pruner.seen \subseteq Sessions /\ pruner.active \subseteq Sessions /\ swept \subseteq Sessions

-----------------------------------------------------------------------------
(* What UserBySessionHash and ActiveSessionHashes look for.                    *)
Active(s) == session[s] = "live" /\ account.is = "there" /\ account.enabled
Gone == {s \in Sessions : session[s] \in {"stale", "revoked", "deleted"}}

\* RegisterFromInvite; SetInviteRevoked and DeleteInvite
Register ==
  /\ account.is = "invited" /\ account' = [account EXCEPT !.is = "there"]
  /\ UNCHANGED <<session, login, socket, closing, pruner, swept>>
Withdraw ==
  /\ account.is \in {"invited", "withdrawn"}
  /\ account' = [account EXCEPT !.is = IF @ = "invited" THEN "withdrawn" ELSE "invited"]
  /\ UNCHANGED <<session, login, socket, closing, pruner, swept>>

-----------------------------------------------------------------------------
(* handleLogin: the row is read, the password is checked without a lock on it. *)
LoginRead(s) ==
  /\ session[s] = "none" /\ login[s].at = "no" /\ account.is = "there"
  /\ login' = [login EXCEPT ![s] =
       [at |-> "checking", password |-> account.password, enabled |-> account.enabled,
        locked |-> account.locked, weak |-> account.weak]]
  /\ UNCHANGED <<account, session, socket, closing, pruner, swept>>

\* A login that is refused; only one of an unlocked account counts.
LoginFails(s) ==
  /\ login[s].at = "checking"
  /\ login' = [login EXCEPT ![s] = NoLogin]
  /\ LET n == IF account.failures = LockThreshold THEN LockThreshold ELSE account.failures + 1 IN
     \/ /\ login[s].enabled /\ ~login[s].locked /\ account.is = "there" /\ account.enabled
        /\ account' = [account EXCEPT !.failures = n, !.locked = (n >= LockThreshold)]
     \/ UNCHANGED account
  /\ UNCHANGED <<session, socket, closing, pruner, swept>>

\* The right password: an old kind of hash is written anew, the failures are forgotten.
LoginSucceeds(s) ==
  /\ login[s].at = "checking" /\ login[s].enabled /\ ~login[s].locked
  /\ login' = [login EXCEPT ![s].at = "opening"]
  /\ account' = IF account.is = "there"
                THEN [account EXCEPT !.failures = 0, !.locked = FALSE,
                        !.password = IF login[s].weak THEN login[s].password ELSE @,
                        !.weak = @ /\ ~login[s].weak]
                ELSE account
  /\ UNCHANGED <<session, socket, closing, pruner, swept>>

\* CreateSession, or an error when the account is gone.
OpenSession(s) ==
  /\ login[s].at = "opening"
  /\ login' = [login EXCEPT ![s] = NoLogin]
  /\ session' = [session EXCEPT ![s] = IF account.is \in {"there", "expired"} THEN "live" ELSE @]
  /\ UNCHANGED <<account, socket, closing, pruner, swept>>

-----------------------------------------------------------------------------
(* Revocations: rows first, connections later.                                 *)
Lost(target, as) ==
  [s \in Sessions |-> IF s \in target /\ session[s] \in {"live", "stale"} THEN as ELSE session[s]]

\* A handler that hears of the deletion goes on to close; one that gets an error returns.
Revoke(target, heard) ==
  /\ session' = Lost(target, IF heard THEN "revoked" ELSE "deleted")
  /\ closing' = IF heard THEN closing \cup {target} ELSE closing
  /\ UNCHANGED <<login, socket, pruner, swept>>

\* handleLogout, handleAccountSessions and an operator's revoke_sessions
RevokeSessions(heard) ==
  /\ account.is = "there"
  /\ \/ \E s \in Sessions : Revoke({s}, heard)                            \* logout, or another session
     \/ \E s \in Sessions : Active(s) /\ Revoke(Sessions \ {s}, heard)    \* revoke_others
     \/ Revoke(Sessions, heard)
  /\ UNCHANGED account

\* handleAdminSessionAction deletes the row and closes nothing.
RevokeSession(s) ==
  /\ session[s] \in {"live", "stale"} /\ Revoke({s}, FALSE)
  /\ UNCHANGED account

\* SetDisabled, DeleteUser and SetServiceAccess
Disable(heard) ==
  /\ account.is \in {"there", "expired"} /\ account' = [account EXCEPT !.enabled = FALSE]
  /\ Revoke(Sessions, heard)
Enable ==
  /\ account.is \in {"there", "expired"} /\ account' = [account EXCEPT !.enabled = TRUE]
  /\ UNCHANGED <<session, login, socket, closing, pruner, swept>>
DeleteUser(heard) ==
  /\ account.is \in {"there", "expired"} /\ account' = [account EXCEPT !.is = "deleted"]
  /\ Revoke(Sessions, heard)
ChangeAccess ==
  /\ account.is \in {"there", "expired"} /\ closing' = closing \cup {Sessions}
  /\ UNCHANGED <<account, session, login, socket, pruner, swept>>
Unlock ==
  /\ account.locked /\ account' = [account EXCEPT !.failures = 0, !.locked = FALSE]
  /\ UNCHANGED <<session, login, socket, closing, pruner, swept>>

\* handleAccountPassword and change_password
ChangePassword(heard) ==
  /\ account.is = "there" /\ account.password < MaxPasswords
  /\ account' = [account EXCEPT !.password = @ + 1, !.weak = FALSE, !.failures = 0,
                                !.locked = FALSE]
  /\ \/ \E s \in Sessions : Active(s) /\ Revoke(Sessions \ {s}, heard)
     \/ Revoke(Sessions, heard)

\* closeMatchingWebSockets
CloseSockets(target) ==
  /\ target \in closing /\ closing' = closing \ {target}
  /\ socket' = [k \in Sockets |->
       IF socket[k].at \in {"registered", "open"} /\ socket[k].session \in target
       THEN NoSocket ELSE socket[k]]
  /\ UNCHANGED <<account, session, login, pruner, swept>>

-----------------------------------------------------------------------------
(* A WebSocket: its request is authorised, it is entered into the registry when *)
(* the connection is taken over, and then its session is looked for once more.  *)
Connect(k, s) ==
  /\ socket[k].at = "no" /\ Active(s)
  /\ socket' = [socket EXCEPT ![k] = [session |-> s, at |-> "checked"]]
  /\ UNCHANGED <<account, session, login, closing, pruner, swept>>

Enter(k) ==
  /\ socket[k].at = "checked"
  /\ socket' = [socket EXCEPT ![k].at = "registered"]
  /\ UNCHANGED <<account, session, login, closing, pruner, swept>>

\* Mutant of Authorize: the request's own check is enough.
Authorize_Once(k, asked) ==
  /\ socket[k].at = "registered"
  /\ socket' = [socket EXCEPT ![k].at = "open"]
  /\ UNCHANGED <<account, session, login, closing, pruner, swept>>

\* authorizeRegisteredWebSocket; when it cannot ask, the connection is closed.
Authorize(k, asked) ==
  /\ socket[k].at = "registered"
  /\ socket' = [socket EXCEPT ![k] = IF asked /\ Active(socket[k].session)
                                     THEN [@ EXCEPT !.at = "open"] ELSE NoSocket]
  /\ UNCHANGED <<account, session, login, closing, pruner, swept>>

Disconnect(k) ==
  /\ socket[k].at # "no" /\ socket' = [socket EXCEPT ![k] = NoSocket]
  /\ UNCHANGED <<account, session, login, closing, pruner, swept>>

-----------------------------------------------------------------------------
(* pruneUnauthorizedWebSockets: list the registry, ask the database, close.    *)
PruneList ==
  LET seen == {socket[k].session : k \in {x \in Sockets : socket[x].at \in {"registered", "open"}}} IN
  /\ pruner.at = "rest" /\ seen # {}
  /\ pruner' = [Resting EXCEPT !.at = "listed", !.seen = seen]
  /\ UNCHANGED <<account, session, login, socket, closing, swept>>

PruneAsk(answers) ==
  /\ pruner.at = "listed"
  /\ pruner' = IF answers THEN [pruner EXCEPT !.at = "asked", !.gone = Gone,
                                            !.active = {s \in pruner.seen : Active(s)}]
               ELSE Resting
  /\ UNCHANGED <<account, session, login, socket, closing, swept>>

PruneClose ==
  /\ pruner.at = "asked" /\ pruner' = Resting /\ swept' = swept \cup pruner.gone
  /\ socket' = [k \in Sockets |->
       IF socket[k].at \in {"registered", "open"} /\ socket[k].session \notin pruner.active
       THEN NoSocket ELSE socket[k]]
  /\ UNCHANGED <<account, session, login, closing>>

-----------------------------------------------------------------------------
(* Time, the cleanup workers and restarts                                      *)
SessionStale(s) ==
  /\ session[s] = "live" /\ session' = [session EXCEPT ![s] = "stale"]
  /\ UNCHANGED <<account, login, socket, closing, pruner, swept>>

DeleteExpiredSession(s) ==
  /\ session[s] = "stale" /\ session' = [session EXCEPT ![s] = "deleted"]
  /\ UNCHANGED <<account, login, socket, closing, pruner, swept>>

AccountExpires ==
  /\ account.is = "there" /\ account' = [account EXCEPT !.is = "expired"]
  /\ UNCHANGED <<session, login, socket, closing, pruner, swept>>

DeleteExpiredTemporaryUser ==
  /\ account.is = "expired" /\ account' = [account EXCEPT !.is = "deleted"]
  /\ session' = [s \in Sessions |-> IF session[s] \in {"live", "stale"} THEN "deleted" ELSE session[s]]
  /\ UNCHANGED <<login, socket, closing, pruner, swept>>

Restart ==
  /\ login' = [s \in Sessions |-> NoLogin] /\ socket' = [k \in Sockets |-> NoSocket]
  /\ closing' = {} /\ pruner' = Resting
  /\ UNCHANGED <<account, session, swept>>

AccessNext ==
  \/ Register \/ Withdraw
  \/ \E s \in Sessions : \/ LoginRead(s) \/ LoginFails(s) \/ LoginSucceeds(s) \/ OpenSession(s)
                         \/ SessionStale(s) \/ DeleteExpiredSession(s)
                         \/ RevokeSession(s)
  \/ \E heard \in BOOLEAN : \/ RevokeSessions(heard) \/ Disable(heard)
                            \/ DeleteUser(heard) \/ ChangePassword(heard)
  \/ Enable \/ ChangeAccess \/ Unlock
  \/ \E target \in closing : CloseSockets(target)
  \/ \E k \in Sockets : \/ \E s \in Sessions : Connect(k, s)
                        \/ Enter(k) \/ Disconnect(k)
                        \/ \E asked \in BOOLEAN : Authorize(k, asked)
  \/ PruneList \/ PruneClose \/ \E answers \in BOOLEAN : PruneAsk(answers)
  \/ AccountExpires \/ DeleteExpiredTemporaryUser \/ Restart

AccessSpec == AccessInit /\ [][AccessNext]_accessVars

-----------------------------------------------------------------------------
(* Properties *)

\* Once the connections of a session that a handler revoked are closed it has none, and a
\* session that is gone in whatever way - the administrator's list and the expiry close
\* nothing - has none after the next whole run of the pruner; none slips in later: a
\* handshake that was let in before the revocation is looked at again behind the registry.
RevokedIsClosed ==
  \A k \in Sockets : socket[k].at = "open" =>
    /\ socket[k].session \notin swept
    /\ session[socket[k].session] = "revoked" => \E target \in closing : socket[k].session \in target
=============================================================================
