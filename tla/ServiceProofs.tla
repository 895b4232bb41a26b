--------------------------- MODULE ServiceProofs ---------------------------
(***************************************************************************)
(* What the smaller components promise, for any number of sessions,        *)
(* sockets, copies, tabs, attachments, scanners, installs and packages: a  *)
(* revoked session keeps no connection, a pin keeps what it hangs on, a    *)
(* draft is replaced by choice only, a suggestion is accepted only when it *)
(* is clean, and an update leaves what runs and what is on disk in order.  *)
(***************************************************************************)
EXTENDS AccountAccess, PinnedMedia, GenerationDraft, SuggestionBoard, UpdateAgent,
        MinerUpdate, FiniteSetTheorems, TLAPS

-----------------------------------------------------------------------------
(* AccountAccess *)

SessionStates == {"none", "live", "stale", "revoked", "deleted"}

\* A socket that is in use has a session; the rows and the registry keep their types.
AccessTyped ==
  /\ session \in [Sessions -> SessionStates] /\ DOMAIN login = Sessions
  /\ DOMAIN socket = Sockets
  /\ \A k \in Sockets : socket[k].at # "no" => socket[k].session \in Sessions

\* What is gone stays gone: only a new session is opened.  What the pruner found gone is
\* not among what it found active.
GoneForGood ==
  /\ \A s \in Sessions : login[s].at # "no" => session[s] = "none"
  /\ swept \subseteq Gone
  /\ pruner.at = "asked" => /\ pruner.gone \subseteq Gone
                            /\ pruner.gone \cap pruner.active = {}

AccessInv == AccessTyped /\ GoneForGood /\ RevokedIsClosed

LEMMA AccessHolds == AccessInit => AccessInv
BY DEF AccessInit, AccessInv, AccessTyped, GoneForGood, RevokedIsClosed, NoSocket, NoLogin,
       Resting, SessionStates

\* A step on the rows, after which what was gone is gone and no more is revoked.
LEMMA RowsOnly ==
  ASSUME AccessInv, UNCHANGED <<socket, closing, swept, pruner>>,
         session' \in [Sessions -> SessionStates], DOMAIN login' = Sessions,
         \A s \in Sessions : login'[s].at # "no" => session'[s] = "none",
         \A s \in Sessions : s \in Gone => session'[s] \in {"stale", "revoked", "deleted"},
         \A s \in Sessions : session'[s] = "revoked" => session[s] = "revoked"
  PROVE  AccessInv'
<1>1. Gone \subseteq Gone'
  BY DEF Gone
<1>2. AccessTyped' /\ GoneForGood'
  BY <1>1 DEF AccessInv, AccessTyped, GoneForGood
<1> QED
  BY <1>2 DEF AccessInv, AccessTyped, RevokedIsClosed

\* Revoked rows and their pending closing are one step; rows deleted without one are not
\* called revoked.
LEMMA RevokeKeeps ==
  ASSUME AccessInv, NEW target \in SUBSET Sessions, NEW heard \in BOOLEAN, Revoke(target, heard)
  PROVE  AccessInv'
<1>1. \A s \in Sessions : session'[s] =
         IF s \in target /\ session[s] \in {"live", "stale"}
         THEN IF heard THEN "revoked" ELSE "deleted" ELSE session[s]
  BY DEF Revoke, Lost
<1>2. session' \in [Sessions -> SessionStates]
  BY DEF Revoke, Lost, AccessInv, AccessTyped, SessionStates
<1>3. AccessTyped' /\ closing \subseteq closing' /\ UNCHANGED <<login, socket, pruner, swept>>
  BY <1>2 DEF Revoke, AccessInv, AccessTyped
<1>4. Gone \subseteq Gone'
  BY <1>1 DEF Gone
<1>5. \A s \in Sessions : session[s] = "none" => session'[s] = "none"
  BY <1>1
<1>6. GoneForGood'
  BY <1>3, <1>4, <1>5 DEF AccessInv, GoneForGood
<1>7. ASSUME NEW k \in Sockets, socket[k].at = "open", session'[socket[k].session] = "revoked"
      PROVE  \E t \in closing' : socket[k].session \in t
  <2>1. socket[k].session \in Sessions
    BY <1>7 DEF AccessInv, AccessTyped
  <2>2. CASE session[socket[k].session] = "revoked"
    BY <1>3, <1>7, <2>2 DEF AccessInv, RevokedIsClosed
  <2>3. CASE session[socket[k].session] # "revoked"
    <3>1. socket[k].session \in target /\ heard
      BY <1>1, <1>7, <2>1, <2>3
    <3> QED
      BY <3>1 DEF Revoke
  <2> QED
    BY <2>2, <2>3
<1>8. RevokedIsClosed'
  BY <1>3, <1>7 DEF AccessInv, RevokedIsClosed
<1> QED
  BY <1>3, <1>6, <1>8 DEF AccessInv

\* A connection that is closed is open no more; any other keeps what it had.
LEMMA SocketsGo ==
  ASSUME AccessInv, UNCHANGED <<session, login, closing, pruner, swept>>, DOMAIN socket' = Sockets,
         \A k \in Sockets : socket'[k].at # "no" => socket'[k].session \in Sessions,
         \A k \in Sockets : socket'[k].at = "open" /\ socket'[k] # socket[k] =>
           session[socket'[k].session] = "live"
  PROVE  AccessInv'
<1>1. AccessTyped' /\ GoneForGood' /\ Gone' = Gone
  BY DEF AccessInv, AccessTyped, GoneForGood, Gone
<1>2. \A s \in Sessions : session[s] = "live" => s \notin swept /\ session[s] # "revoked"
  BY DEF AccessInv, GoneForGood, Gone
<1> QED
  BY <1>1, <1>2 DEF AccessInv, RevokedIsClosed

LEMMA AccessKept ==
  ASSUME AccessInv, [AccessNext]_accessVars
  PROVE  AccessInv'
<1> USE DEF SessionStates
<1>0. /\ session \in [Sessions -> SessionStates] /\ DOMAIN login = Sessions
      /\ \A s \in Sessions : login[s].at # "no" => session[s] = "none"
      /\ \A s \in Sessions : s \in Gone => session[s] \in {"stale", "revoked", "deleted"}
  BY DEF AccessInv, AccessTyped, GoneForGood, Gone
<1>1. ASSUME Register \/ Withdraw \/ Enable \/ Unlock \/ AccountExpires
      PROVE  AccessInv'
  BY <1>0, <1>1, RowsOnly DEF Register, Withdraw, Enable, Unlock, AccountExpires
<1>2. ASSUME NEW s \in Sessions,
             \/ LoginRead(s) \/ LoginFails(s) \/ LoginSucceeds(s) \/ OpenSession(s)
             \/ SessionStale(s) \/ DeleteExpiredSession(s)
      PROVE  AccessInv'
  <2>1. CASE LoginRead(s) \/ LoginFails(s) \/ LoginSucceeds(s)
    <3>1. /\ UNCHANGED <<session, socket, closing, pruner, swept>> /\ DOMAIN login' = Sessions
          /\ \A q \in Sessions : q # s => login'[q] = login[q]
          /\ login'[s].at # "no" => session[s] = "none"
      BY <1>0, <2>1 DEF LoginRead, LoginFails, LoginSucceeds, NoLogin
    <3> QED
      BY <1>0, <3>1, RowsOnly
  <2>2. CASE OpenSession(s)
    <3>1. /\ UNCHANGED <<socket, closing, pruner, swept>> /\ DOMAIN login' = Sessions
          /\ \A q \in Sessions : q # s => login'[q] = login[q] /\ session'[q] = session[q]
          /\ login'[s].at = "no" /\ session[s] = "none"
          /\ session'[s] \in {"none", "live"}
          /\ session' \in [Sessions -> SessionStates]
      BY <1>0, <2>2 DEF OpenSession, NoLogin
    <3>2. \A q \in Sessions : login'[q].at # "no" => session'[q] = "none"
      BY <1>0, <3>1
    <3>3. \A q \in Sessions : q \in Gone => session'[q] \in {"stale", "revoked", "deleted"}
      BY <1>0, <3>1
    <3>4. \A q \in Sessions : session'[q] = "revoked" => session[q] = "revoked"
      BY <3>1
    <3> QED
      BY <3>1, <3>2, <3>3, <3>4, RowsOnly
  <2>3. CASE SessionStale(s) \/ DeleteExpiredSession(s)
    <3>1. /\ UNCHANGED <<login, socket, closing, pruner, swept>>
          /\ \A q \in Sessions : q # s => session'[q] = session[q]
          /\ session[s] \in {"live", "stale"} /\ session'[s] \in {"stale", "deleted"}
          /\ session' \in [Sessions -> SessionStates]
      BY <1>0, <2>3 DEF SessionStale, DeleteExpiredSession
    <3>2. \A q \in Sessions : login[q].at # "no" => session'[q] = "none"
      BY <1>0, <3>1
    <3>3. \A q \in Sessions : q \in Gone => session'[q] \in {"stale", "revoked", "deleted"}
      BY <1>0, <3>1
    <3>4. \A q \in Sessions : session'[q] = "revoked" => session[q] = "revoked"
      BY <3>1
    <3> QED
      BY <1>0, <3>1, <3>2, <3>3, <3>4, RowsOnly
  <2> QED
    BY <1>2, <2>1, <2>2, <2>3
<1>3. ASSUME NEW heard \in BOOLEAN,
             \/ RevokeSessions(heard) \/ Disable(heard) \/ DeleteUser(heard) \/ ChangePassword(heard)
             \/ \E s \in Sessions : RevokeSession(s)
      PROVE  AccessInv'
  <2>1. \E target \in SUBSET Sessions, told \in BOOLEAN : Revoke(target, told)
    <3>1. CASE Disable(heard) \/ DeleteUser(heard)
      BY <3>1 DEF Disable, DeleteUser
    <3>2. CASE RevokeSessions(heard)
      BY <3>2 DEF RevokeSessions
    <3>3. CASE ChangePassword(heard)
      BY <3>3 DEF ChangePassword
    <3>4. CASE \E s \in Sessions : RevokeSession(s)
      BY <3>4 DEF RevokeSession
    <3> QED
      BY <1>3, <3>1, <3>2, <3>3, <3>4
  <2> QED
    BY <2>1, RevokeKeeps
<1>4. CASE ChangeAccess
  BY <1>4 DEF ChangeAccess, AccessInv, AccessTyped, GoneForGood, Gone, RevokedIsClosed
<1>5. ASSUME NEW target \in closing, CloseSockets(target)
      PROVE  AccessInv'
  <2>1. /\ \A k \in Sockets : socket'[k] =
             IF socket[k].at \in {"registered", "open"} /\ socket[k].session \in target
             THEN NoSocket ELSE socket[k]
        /\ UNCHANGED <<session, login, pruner, swept>> /\ closing' = closing \ {target}
    BY <1>5 DEF CloseSockets
  <2>2. AccessTyped' /\ GoneForGood'
    BY <1>5, <2>1 DEF CloseSockets, AccessInv, AccessTyped, GoneForGood, Gone, NoSocket
  <2>0. NoSocket.at = "no"
    BY DEF NoSocket
  <2>3. ASSUME NEW k \in Sockets, socket'[k].at = "open"
        PROVE  /\ socket'[k].session \notin swept
               /\ session[socket'[k].session] = "revoked" =>
                    \E t \in closing \ {target} : socket'[k].session \in t
    <3>1. socket'[k] = socket[k] /\ socket[k].session \notin target
      BY <2>0, <2>1, <2>3
    <3> QED
      BY <2>3, <3>1 DEF AccessInv, RevokedIsClosed
  <2> QED
    BY <2>1, <2>2, <2>3 DEF AccessInv, RevokedIsClosed
<1>6. ASSUME NEW k \in Sockets,
             \/ \E s \in Sessions : Connect(k, s)
             \/ Enter(k) \/ Disconnect(k) \/ \E asked \in BOOLEAN : Authorize(k, asked)
      PROVE  AccessInv'
  <2> DEFINE new == socket'[k]
  <2>0. /\ UNCHANGED <<session, login, closing, pruner, swept>> /\ DOMAIN socket' = Sockets
        /\ \A q \in Sockets : q # k => socket'[q] = socket[q]
    BY <1>6 DEF Connect, Enter, Disconnect, Authorize, AccessInv, AccessTyped
  <2>1. /\ new.at # "no" => new.session \in Sessions
        /\ new.at = "open" => session[new.session] = "live"
    <3>1. CASE Disconnect(k)
      BY <3>1 DEF Disconnect, NoSocket, AccessInv, AccessTyped
    <3>2. CASE Enter(k)
      BY <3>2 DEF Enter, AccessInv, AccessTyped
    <3>3. CASE \E s \in Sessions : Connect(k, s)
      BY <3>3 DEF Connect, AccessInv, AccessTyped
    <3>4. CASE \E asked \in BOOLEAN : Authorize(k, asked)
      BY <3>4 DEF Authorize, Active, NoSocket, AccessInv, AccessTyped
    <3> QED
      BY <1>6, <3>1, <3>2, <3>3, <3>4
  <2>2. \A q \in Sockets : socket'[q].at # "no" => socket'[q].session \in Sessions
    BY <2>0, <2>1 DEF AccessInv, AccessTyped
  <2> HIDE DEF new
  <2>3. ASSUME NEW q \in Sockets, socket'[q].at = "open", socket'[q] # socket[q]
        PROVE  session[socket'[q].session] = "live"
    BY <2>0, <2>1, <2>3 DEF new
  <2> QED
    BY <2>0, <2>2, <2>3, SocketsGo
<1>7. ASSUME PruneList \/ \E answers \in BOOLEAN : PruneAsk(answers)
      PROVE  AccessInv'
  <2>1. UNCHANGED <<session, login, socket, closing, swept>>
    <3>1. CASE PruneList
      BY <3>1 DEF PruneList
    <3>2. ASSUME NEW answers \in BOOLEAN, PruneAsk(answers)
          PROVE  UNCHANGED <<session, login, socket, closing, swept>>
      BY <3>2 DEF PruneAsk
    <3> QED
      BY <1>7, <3>1, <3>2
  <2>2. pruner'.at = "asked" => /\ pruner'.gone = Gone
                                /\ pruner'.active \subseteq {s \in pruner.seen : Active(s)}
    <3>1. CASE PruneList
      BY <3>1 DEF PruneList, Resting
    <3>2. ASSUME NEW answers \in BOOLEAN, PruneAsk(answers)
          PROVE  pruner'.at = "asked" => /\ pruner'.gone = Gone
                                         /\ pruner'.active \subseteq {s \in pruner.seen : Active(s)}
      <4>1. CASE ~answers
        BY <3>2, <4>1 DEF PruneAsk, Resting
      <4>2. CASE answers
        BY <3>2, <4>2 DEF PruneAsk
      <4> QED
        BY <4>1, <4>2
    <3> QED
      BY <1>7, <3>1, <3>2
  <2>3. \A s : Active(s) => s \notin Gone
    BY DEF Active, Gone
  <2>4. GoneForGood'
    BY <2>1, <2>2, <2>3 DEF AccessInv, GoneForGood, Gone
  <2> QED
    BY <2>1, <2>4 DEF AccessInv, AccessTyped, RevokedIsClosed
<1>8. CASE PruneClose
  <2>1. /\ UNCHANGED <<session, login, closing>> /\ pruner' = Resting
        /\ swept' = swept \cup pruner.gone /\ pruner.at = "asked" /\ DOMAIN socket' = Sockets
        /\ \A k \in Sockets : socket'[k] =
             IF socket[k].at \in {"registered", "open"} /\ socket[k].session \notin pruner.active
             THEN NoSocket ELSE socket[k]
    BY <1>8 DEF PruneClose
  <2>2. NoSocket.at = "no" /\ Resting.at = "rest"
    BY DEF NoSocket, Resting
  <2>3. Gone' = Gone /\ pruner.gone \subseteq Gone /\ pruner.gone \cap pruner.active = {}
    BY <2>1 DEF AccessInv, GoneForGood, Gone
  <2>4. GoneForGood'
    BY <2>1, <2>2, <2>3 DEF AccessInv, GoneForGood
  <2>5. AccessTyped'
    BY <2>1, <2>2 DEF AccessInv, AccessTyped
  <2>6. ASSUME NEW k \in Sockets, socket'[k].at = "open"
        PROVE  /\ socket'[k].session \notin swept'
               /\ session[socket'[k].session] = "revoked" =>
                    \E t \in closing : socket'[k].session \in t
    <3>1. socket'[k] = socket[k] /\ socket[k].session \in pruner.active
      BY <2>1, <2>2, <2>6
    <3> QED
      BY <2>1, <2>3, <2>6, <3>1 DEF AccessInv, RevokedIsClosed
  <2> QED
    BY <2>1, <2>4, <2>5, <2>6 DEF AccessInv, RevokedIsClosed
<1>9. CASE DeleteExpiredTemporaryUser
  <2>1. /\ UNCHANGED <<login, socket, closing, pruner, swept>>
        /\ \A q \in Sessions : session'[q] =
             IF session[q] \in {"live", "stale"} THEN "deleted" ELSE session[q]
        /\ session' \in [Sessions -> SessionStates]
    BY <1>0, <1>9 DEF DeleteExpiredTemporaryUser
  <2> QED
    BY <1>0, <2>1, RowsOnly
<1>10. CASE Restart
  <2>1. /\ UNCHANGED <<session, swept>> /\ pruner' = Resting /\ DOMAIN login' = Sessions
        /\ DOMAIN socket' = Sockets /\ \A k \in Sockets : socket'[k].at = "no"
        /\ \A s \in Sessions : login'[s].at = "no"
    BY <1>10 DEF Restart, NoSocket, NoLogin
  <2> QED
    BY <2>1 DEF Resting, AccessInv, AccessTyped, GoneForGood, Gone, RevokedIsClosed
<1>11. CASE UNCHANGED accessVars
  BY <1>11 DEF accessVars, AccessInv, AccessTyped, GoneForGood, Gone, RevokedIsClosed
<1> QED
  BY <1>1, <1>2, <1>3, <1>4, <1>5, <1>6, <1>7, <1>8, <1>9, <1>10, <1>11 DEF AccessNext

\* However logins, revocations, handshakes, the pruner and restarts of the Gateway
\* interleave, an open connection of a session that a handler revoked is one it will still
\* close, and of any other session that is gone one the pruner has not been past.
THEOREM RevokedSessionsClosed == AccessSpec => []RevokedIsClosed
<1>1. AccessInit => AccessInv
  BY AccessHolds
<1>2. AccessInv /\ [AccessNext]_accessVars => AccessInv'
  BY AccessKept
<1>3. AccessInv => RevokedIsClosed
  BY DEF AccessInv
<1> QED
  BY <1>1, <1>2, <1>3, PTL DEF AccessSpec

-----------------------------------------------------------------------------
(* PinnedMedia *)

MediaTyped ==
  /\ now \in Nat
  /\ event \in [there : BOOLEAN, until : Nat]
  /\ copy \in [Copies -> [there : BOOLEAN, until : Nat, pinned : BOOLEAN]]
  /\ rows \in [Lineage -> [state : {"active", "over", "gone"}, finished : Nat]]
  /\ doomed \subseteq Lineage
  /\ kept \in [Copies -> SUBSET Lineage]

\* No copy outlives a pin made now; a pinned one is outlived by its event.
PinLasts ==
  \A m \in Copies : copy[m].there =>
    /\ copy[m].until <= now + Pinned
    /\ copy[m].pinned => event.there /\ copy[m].until <= event.until

\* Only a pin remembers rows, and while it is live no statement is about to take them.
PinGuards ==
  \A m \in Copies :
    /\ copy[m].pinned => copy[m].there
    /\ ~copy[m].pinned => kept[m] = {}
    /\ m \in Pins => \A l \in kept[m] : l \notin doomed /\ rows[l].state # "gone"

MediaInv == MediaTyped /\ PinLasts /\ PinGuards

LEMMA MediaStarts == MediaInit => MediaInv
BY MediaAssumption DEF MediaInit, MediaInv, MediaTyped, PinLasts, PinGuards, NoCopy, Pins

LEMMA PinnedFollows == MediaInv => PinnedKept
BY DEF MediaInv, MediaTyped, PinLasts, PinGuards, PinnedKept, Pins, EventLive

\* Writing one copy's date and its pin again leaves the file, and every other copy, alone.
Redate(m, pinned, until) == [copy EXCEPT ![m].pinned = pinned, ![m].until = until]

LEMMA Redated ==
  ASSUME MediaTyped, NEW m \in Copies, NEW pinned \in BOOLEAN, NEW until \in Nat,
         copy' = Redate(m, pinned, until)
  PROVE  /\ copy'[m].there = copy[m].there /\ copy'[m].pinned = pinned
         /\ copy'[m].until = until
         /\ \A q \in Copies : q # m => copy'[q] = copy[q]
         /\ copy' \in [Copies -> [there : BOOLEAN, until : Nat, pinned : BOOLEAN]]
<1> DEFINE Sorts == [there : BOOLEAN, until : Nat, pinned : BOOLEAN]
           marked == [copy[m] EXCEPT !.pinned = pinned]
           dated == [marked EXCEPT !.until = until]
<1>1. copy \in [Copies -> Sorts] /\ copy[m] \in Sorts
  BY DEF MediaTyped
<1>2. marked \in Sorts /\ marked.pinned = pinned /\ marked.there = copy[m].there
  BY <1>1
<1>3. dated \in Sorts /\ dated.until = until /\ dated.pinned = marked.pinned
      /\ dated.there = marked.there
  <2> HIDE DEF marked
  <2> QED
    BY <1>2
<1>4. copy' = [copy EXCEPT ![m] = dated]
  BY <1>1 DEF Redate
<1> HIDE DEF marked, dated
<1> QED
  BY <1>1, <1>2, <1>3, <1>4

\* What a step makes of one copy, seen by the invariant.
LEMMA MediaKept ==
  ASSUME MediaInv, [MediaNext]_mediaVars
  PROVE  MediaInv'
<1> USE MediaAssumption DEF MediaInv, MediaTyped
<1>1. ASSUME NEW l \in Lineage, Conclude(l)
      PROVE  MediaInv'
  BY <1>1 DEF Conclude, PinLasts, PinGuards, Pins
<1>2. ASSUME NEW l \in Lineage, Look(l)
      PROVE  MediaInv'
  BY <1>2 DEF Look, PinLasts, PinGuards, Pins
<1>3. ASSUME NEW l \in Lineage, NEW ok \in BOOLEAN, DeleteRow(l, ok)
      PROVE  MediaInv'
  BY <1>3 DEF DeleteRow, PinLasts, PinGuards, Pins
<1>4. ASSUME NEW m \in Copies, Archive(m)
      PROVE  MediaInv'
  <2>1. copy[m].until \in Nat /\ now + GenerationMedia \in Nat
    BY <1>4
  <2>2. /\ copy'[m] = [there |-> TRUE, until |-> now + GenerationMedia, pinned |-> FALSE]
        /\ \A q \in Copies : q # m => copy'[q] = copy[q]
        /\ copy' \in [Copies -> [there : BOOLEAN, until : Nat, pinned : BOOLEAN]]
    BY <1>4, <2>1 DEF Archive
  <2>3. MediaTyped' /\ UNCHANGED <<now, event, rows, doomed, kept>>
    BY <1>4, <2>2 DEF Archive
  <2>4. PinLasts'
    BY <2>2, <2>3 DEF PinLasts
  <2>5. kept[m] = {}
    BY <1>4 DEF Archive, PinGuards
  <2>6. PinGuards'
    BY <2>2, <2>3, <2>5 DEF PinGuards, Pins
  <2> QED
    BY <2>3, <2>4, <2>6
<1>5. ASSUME NEW m \in Copies, Pin(m)
      PROVE  MediaInv'
  <2> DEFINE until == IF copy[m].until > now + Pinned THEN copy[m].until ELSE now + Pinned
  <2>1. /\ copy[m].there /\ until = now + Pinned /\ until \in Nat
        /\ copy[m].until > now /\ event.there /\ event.until \in Nat
    BY <1>5 DEF Pin, Shown, EventLive, PinLasts
  <2>2. copy' = Redate(m, TRUE, until)
    BY <1>5 DEF Pin, Later, Redate
  <2>3. /\ copy'[m].there /\ copy'[m].pinned /\ copy'[m].until = until
        /\ \A q \in Copies : q # m => copy'[q] = copy[q]
        /\ copy' \in [Copies -> [there : BOOLEAN, until : Nat, pinned : BOOLEAN]]
    <3> HIDE DEF until
    <3> QED
      BY <2>1, <2>2, Redated
  <2>4. event' = [event EXCEPT !.until = IF event.until > until THEN event.until ELSE until]
    BY <1>5, <2>1 DEF Pin, Extended, Later
  <2>5. /\ event' \in [there : BOOLEAN, until : Nat] /\ event'.there
        /\ until <= event'.until /\ event.until <= event'.until
    <3> HIDE DEF until
    <3> QED
      BY <2>1, <2>4
  <2>6. UNCHANGED <<now, rows, doomed>> /\ kept' \in [Copies -> SUBSET Lineage]
    BY <1>5 DEF Pin
  <2>7. PinLasts'
    BY <2>1, <2>3, <2>5, <2>6 DEF PinLasts
  <2>8. \A l \in kept[m] : l \notin doomed /\ rows[l].state # "gone"
    BY <2>1 DEF PinGuards, Pins
  <2>9. /\ \A l \in kept'[m] : l \notin doomed /\ rows[l].state # "gone"
        /\ \A q \in Copies : q # m => kept'[q] = kept[q]
    BY <1>5, <2>8 DEF Pin
  <2>10. PinGuards'
    BY <2>3, <2>6, <2>9 DEF PinGuards, Pins
  <2> QED
    BY <2>3, <2>5, <2>6, <2>7, <2>10
<1>6. ASSUME NEW m \in Copies, Unpin(m)
      PROVE  MediaInv'
  <2> DEFINE until == IF copy[m].until < now + GenerationMedia THEN copy[m].until
                      ELSE now + GenerationMedia
  <2>1. copy[m].until \in Nat /\ copy[m].there /\ until \in Nat /\ until <= copy[m].until
    BY <1>6 DEF Unpin, Shown
  <2>2. copy' = Redate(m, FALSE, until)
    BY <1>6 DEF Unpin, Sooner, Redate
  <2>3. /\ copy'[m].there /\ ~copy'[m].pinned /\ copy'[m].until = until
        /\ \A q \in Copies : q # m => copy'[q] = copy[q]
        /\ copy' \in [Copies -> [there : BOOLEAN, until : Nat, pinned : BOOLEAN]]
    <3> HIDE DEF until
    <3> QED
      BY <2>1, <2>2, Redated
  <2>4. /\ UNCHANGED <<now, event, rows, doomed>> /\ kept'[m] = {}
        /\ \A q \in Copies : q # m => kept'[q] = kept[q]
        /\ kept' \in [Copies -> SUBSET Lineage]
    BY <1>6 DEF Unpin
  <2> HIDE DEF until
  <2>5. PinLasts'
    BY <2>1, <2>3, <2>4 DEF PinLasts
  <2>6. PinGuards'
    BY <2>3, <2>4 DEF PinGuards, Pins
  <2> QED
    BY <2>3, <2>4, <2>5, <2>6
<1>7. ASSUME NEW ms \in SUBSET Copies, DeleteCopies(ms)
      PROVE  MediaInv'
  BY <1>7 DEF DeleteCopies, DropCopies, NoCopy, PinLasts, PinGuards, Pins
<1>8. CASE DeleteEvent
  BY <1>8 DEF DeleteEvent, DropCopies, NoCopy, PinLasts, PinGuards, Pins
<1>9. CASE Tick
  BY <1>9 DEF Tick, PinLasts, PinGuards, Pins
<1>10. CASE UNCHANGED mediaVars
  BY <1>10 DEF mediaVars, PinLasts, PinGuards, Pins
<1> QED
  BY <1>1, <1>2, <1>3, <1>4, <1>5, <1>6, <1>7, <1>8, <1>9, <1>10 DEF MediaNext

\* Whatever is archived, pinned, unpinned, expired and collected in whatever order, and
\* for every policy that keeps pins no shorter than other copies, a live pin keeps its
\* event and the rows it found.
THEOREM PinsKept == MediaSpec => []PinnedKept
<1>1. MediaInit => MediaInv
  BY MediaStarts
<1>2. MediaInv /\ [MediaNext]_mediaVars => MediaInv'
  BY MediaKept
<1>3. MediaInv => PinnedKept
  BY PinnedFollows
<1> QED
  BY <1>1, <1>2, <1>3, PTL DEF MediaSpec

-----------------------------------------------------------------------------
(* GenerationDraft *)

DraftTyped ==
  /\ sequence \in Nat
  /\ draft \in [revision : Nat, content : Nat, expired : BOOLEAN]
  /\ tab \in [Tabs -> [status : {"loading", "ready", "conflict", "error"},
                       revision : Nat, remote : Nat, dirty : BOOLEAN]]
  /\ shown \in [Tabs -> SUBSET Nat]

\* A revision stands for one content, and a tab knows only revisions it was shown.
DraftInv ==
  /\ DraftTyped
  /\ draft.content = draft.revision
  /\ \A t \in Tabs : 0 \in shown[t] /\ tab[t].revision \in shown[t] /\ tab[t].remote \in shown[t]

LEMMA DraftStarts == DraftInit => DraftInv
BY DEF DraftInit, DraftInv, DraftTyped, NoDraft, FreshTab

TabSet == [status : {"loading", "ready", "conflict", "error"},
           revision : Nat, remote : Nat, dirty : BOOLEAN]

\* One tab moves to v, and was shown or has written what it then knows.
LEMMA TabMoves ==
  ASSUME DraftInv, NEW t \in Tabs, NEW v \in TabSet, NEW seen \in SUBSET Nat,
         tab' = [tab EXCEPT ![t] = v], shown' = [shown EXCEPT ![t] = seen],
         0 \in seen, v.revision \in seen, v.remote \in seen,
         draft' \in [revision : Nat, content : Nat, expired : BOOLEAN],
         draft'.content = draft'.revision, sequence' \in Nat
  PROVE  DraftInv'
<1>1. DraftTyped'
  BY DEF DraftInv, DraftTyped, TabSet
<1>2. /\ tab'[t] = v /\ shown'[t] = seen
      /\ \A u \in Tabs : u # t => tab'[u] = tab[u] /\ shown'[u] = shown[u]
  BY DEF DraftInv, DraftTyped
<1> QED
  BY <1>1, <1>2 DEF DraftInv

\* The same when the row stays as it is.
LEMMA TabMovesAlone ==
  ASSUME DraftInv, NEW t \in Tabs, NEW v \in TabSet, NEW seen \in SUBSET Nat,
         tab' = [tab EXCEPT ![t] = v], shown' = [shown EXCEPT ![t] = seen],
         0 \in seen, v.revision \in seen, v.remote \in seen,
         UNCHANGED <<draft, sequence>>
  PROVE  DraftInv'
<1>1. /\ draft' \in [revision : Nat, content : Nat, expired : BOOLEAN]
      /\ draft'.content = draft'.revision /\ sequence' \in Nat
  BY DEF DraftInv, DraftTyped
<1> QED
  BY <1>1, TabMoves

\* The values a tab may take from the one it has.
Unheard(v) == [v EXCEPT !.status = "error"]
Refuted(v, r) == [v EXCEPT !.status = "conflict", !.remote = r]
Read(v, r, st) == [v EXCEPT !.remote = r, !.revision = r, !.status = st]
Edited(v) == [v EXCEPT !.dirty = TRUE]
Resolved(v, d) == [v EXCEPT !.status = "ready", !.revision = v.remote, !.dirty = d]
Written(r, d) == [status |-> "ready", revision |-> r, remote |-> r, dirty |-> d]

LEMMA UnheardTab ==
  ASSUME NEW v \in TabSet
  PROVE  /\ Unheard(v) \in TabSet
         /\ Unheard(v).revision = v.revision /\ Unheard(v).remote = v.remote
BY DEF TabSet, Unheard

LEMMA RefutedTab ==
  ASSUME NEW v \in TabSet, NEW r \in Nat
  PROVE  /\ Refuted(v, r) \in TabSet
         /\ Refuted(v, r).revision = v.revision /\ Refuted(v, r).remote = r
BY DEF TabSet, Refuted

LEMMA ReadTab ==
  ASSUME NEW v \in TabSet, NEW r \in Nat, NEW st \in {"loading", "ready", "conflict", "error"}
  PROVE  /\ Read(v, r, st) \in TabSet
         /\ Read(v, r, st).revision = r /\ Read(v, r, st).remote = r
BY DEF TabSet, Read

LEMMA EditedTab ==
  ASSUME NEW v \in TabSet
  PROVE  /\ Edited(v) \in TabSet
         /\ Edited(v).revision = v.revision /\ Edited(v).remote = v.remote
BY DEF TabSet, Edited

LEMMA ResolvedTab ==
  ASSUME NEW v \in TabSet, NEW d \in BOOLEAN
  PROVE  /\ Resolved(v, d) \in TabSet
         /\ Resolved(v, d).revision = v.remote /\ Resolved(v, d).remote = v.remote
BY DEF TabSet, Resolved

LEMMA WrittenTab ==
  ASSUME NEW r \in Nat, NEW d \in BOOLEAN
  PROVE  /\ Written(r, d) \in TabSet
         /\ Written(r, d).revision = r /\ Written(r, d).remote = r
BY DEF TabSet, Written

\* The answer of a save or a removal, heard or lost.
Answered(v, r, d, heard) == IF heard THEN Written(r, d) ELSE Unheard(v)

LEMMA AnsweredTab ==
  ASSUME NEW v \in TabSet, NEW r \in Nat, NEW d \in BOOLEAN, NEW heard \in BOOLEAN
  PROVE  /\ Answered(v, r, d, heard) \in TabSet
         /\ Answered(v, r, d, heard).revision \in {r, v.revision}
         /\ Answered(v, r, d, heard).remote \in {r, v.remote}
<1>1. CASE heard
  BY <1>1, WrittenTab DEF Answered
<1>2. CASE ~heard
  BY <1>2, UnheardTab DEF Answered
<1> QED
  BY <1>1, <1>2

LEMMA DraftKept ==
  ASSUME DraftInv, [DraftNext]_draftVars
  PROVE  DraftInv'
<1>a. /\ draft \in [revision : Nat, content : Nat, expired : BOOLEAN]
      /\ draft.content = draft.revision /\ sequence \in Nat
      /\ Current \in Nat /\ CurrentContent = Current
  BY DEF DraftInv, DraftTyped, Current, CurrentContent
<1>b. \A t \in Tabs : /\ tab[t] \in TabSet /\ shown[t] \in SUBSET Nat
                      /\ 0 \in shown[t] /\ tab[t].revision \in shown[t]
                      /\ tab[t].remote \in shown[t] /\ tab[t].remote \in Nat
                      /\ shown[t] \cup {Current} \in SUBSET Nat
  BY <1>a DEF DraftInv, DraftTyped, TabSet
<1>c. shown = [t \in Tabs |-> shown[t]]
  BY DEF DraftInv, DraftTyped
<1>0. ASSUME NEW t \in Tabs, NEW heard \in BOOLEAN, Conflicts(t, heard)
      PROVE  DraftInv'
  <2>1. CASE heard
    <3> DEFINE v == Refuted(tab[t], Current)
               seen == shown[t] \cup {Current}
    <3>1. v \in TabSet /\ v.revision = tab[t].revision /\ v.remote = Current
      BY <1>a, <1>b, RefutedTab
    <3>2. seen \in SUBSET Nat /\ 0 \in seen /\ v.revision \in seen /\ v.remote \in seen
      <4> HIDE DEF v
      <4> QED
        BY <1>b, <3>1
    <3>3. /\ tab' = [tab EXCEPT ![t] = v] /\ shown' = [shown EXCEPT ![t] = seen]
          /\ UNCHANGED <<draft, sequence>>
      BY <1>0, <1>a, <2>1 DEF Conflicts, Show, Refuted
    <3> HIDE DEF v, seen
    <3> QED
      BY <3>1, <3>2, <3>3, TabMovesAlone
  <2>2. CASE ~heard
    <3> DEFINE v == Unheard(tab[t])
    <3>1. v \in TabSet /\ v.revision \in shown[t] /\ v.remote \in shown[t]
      BY <1>b, UnheardTab
    <3>2. /\ tab' = [tab EXCEPT ![t] = v] /\ shown' = [shown EXCEPT ![t] = shown[t]]
          /\ UNCHANGED <<draft, sequence>>
      BY <1>0, <1>c, <2>2 DEF Conflicts, Unheard
    <3> HIDE DEF v
    <3> QED
      BY <1>b, <3>1, <3>2, TabMovesAlone
  <2> QED
    BY <2>1, <2>2
<1>1. ASSUME NEW t \in Tabs, Load(t)
      PROVE  DraftInv'
  <2> DEFINE st == IF Current # 0 /\ tab[t].dirty THEN "conflict" ELSE "ready"
             v == Read(tab[t], Current, st)
             seen == shown[t] \cup {Current}
  <2>1. v \in TabSet /\ v.revision = Current /\ v.remote = Current
    <3>1. st \in {"loading", "ready", "conflict", "error"}
      OBVIOUS
    <3>2. tab[t] \in TabSet /\ Current \in Nat
      BY <1>a, <1>b
    <3> HIDE DEF st
    <3> QED
      BY <3>1, <3>2, ReadTab
  <2>2. seen \in SUBSET Nat /\ 0 \in seen /\ v.revision \in seen /\ v.remote \in seen
    <3> HIDE DEF v
    <3> QED
      BY <1>b, <2>1
  <2>3. /\ tab' = [tab EXCEPT ![t] = v] /\ shown' = [shown EXCEPT ![t] = seen]
        /\ UNCHANGED <<draft, sequence>>
    BY <1>1, <1>a DEF Load, Show, Read
  <2> HIDE DEF v, seen
  <2> QED
    BY <2>1, <2>2, <2>3, TabMovesAlone
<1>2. ASSUME NEW t \in Tabs, Edit(t)
      PROVE  DraftInv'
  <2> DEFINE v == Edited(tab[t])
  <2>1. v \in TabSet /\ v.revision \in shown[t] /\ v.remote \in shown[t]
    BY <1>b, EditedTab
  <2>2. /\ tab' = [tab EXCEPT ![t] = v] /\ shown' = [shown EXCEPT ![t] = shown[t]]
        /\ UNCHANGED <<draft, sequence>>
    BY <1>2, <1>c DEF Edit, Edited
  <2> HIDE DEF v
  <2> QED
    BY <1>b, <2>1, <2>2, TabMovesAlone
<1>3. ASSUME NEW t \in Tabs, NEW d \in BOOLEAN,
             tab' = [tab EXCEPT ![t] = [@ EXCEPT !.status = "ready", !.revision = tab[t].remote,
                                                 !.dirty = d]],
             UNCHANGED <<draft, sequence, shown>>
      PROVE  DraftInv'
  <2> DEFINE v == Resolved(tab[t], d)
  <2>1. v \in TabSet /\ v.revision \in shown[t] /\ v.remote \in shown[t]
    BY <1>b, ResolvedTab
  <2>2. tab' = [tab EXCEPT ![t] = v] /\ shown' = [shown EXCEPT ![t] = shown[t]]
    BY <1>3, <1>c DEF Resolved
  <2> HIDE DEF v
  <2> QED
    BY <1>3, <1>b, <2>1, <2>2, TabMovesAlone
<1>4. ASSUME NEW t \in Tabs, Reload(t)
      PROVE  DraftInv'
  <2>1. FreshTab \in TabSet /\ FreshTab.revision = 0 /\ FreshTab.remote = 0
    BY DEF FreshTab, TabSet
  <2>2. {0} \in SUBSET Nat /\ 0 \in {0}
    OBVIOUS
  <2> QED
    BY <1>4, <2>1, <2>2, TabMovesAlone DEF Reload
<1>6. ASSUME NEW t \in Tabs, NEW heard \in BOOLEAN, NEW edited \in BOOLEAN,
             Save(t, heard, edited)
      PROVE  DraftInv'
  <2>1. CASE CanSave(tab[t].revision)
    <3> DEFINE r == sequence + 1
               v == Answered(tab[t], r, edited, heard)
               seen == shown[t] \cup {r}
    <3>1. /\ draft' = [revision |-> r, content |-> r, expired |-> FALSE]
          /\ sequence' = r /\ tab' = [tab EXCEPT ![t] = v]
          /\ shown' = [shown EXCEPT ![t] = seen]
      BY <1>6, <2>1 DEF Save, NextRevision, Show, Told, Answered, Written, Unheard
    <3>2. r \in Nat
      BY <1>a
    <3>3. v \in TabSet /\ v.revision \in {r, tab[t].revision} /\ v.remote \in {r, tab[t].remote}
      <4>1. tab[t] \in TabSet
        BY <1>b
      <4> HIDE DEF r
      <4> QED
        BY <3>2, <4>1, AnsweredTab
    <3> HIDE DEF r, v
    <3>4. seen \in SUBSET Nat /\ 0 \in seen /\ v.revision \in seen /\ v.remote \in seen
      BY <1>b, <3>2, <3>3
    <3>5. /\ draft' \in [revision : Nat, content : Nat, expired : BOOLEAN]
          /\ draft'.content = draft'.revision /\ sequence' \in Nat
      BY <3>1, <3>2
    <3> HIDE DEF seen
    <3> QED
      BY <3>1, <3>3, <3>4, <3>5, TabMoves
  <2>2. CASE ~CanSave(tab[t].revision)
    BY <1>0, <1>6, <2>2 DEF Save
  <2> QED
    BY <2>1, <2>2
<1>7. ASSUME NEW t \in Tabs, NEW heard \in BOOLEAN, RemoveDraft(t, heard)
      PROVE  DraftInv'
  <2>1. CASE Live /\ draft.revision = tab[t].revision
    <3> DEFINE clean == FALSE
               v == Answered(tab[t], 0, clean, heard)
    <3>1. /\ draft' = [revision |-> 0, content |-> 0, expired |-> FALSE]
          /\ sequence' = sequence /\ shown' = shown /\ tab' = [tab EXCEPT ![t] = v]
      BY <1>7, <2>1 DEF RemoveDraft, NoDraft, Told, Answered, Written, Unheard
    <3>2. shown' = [shown EXCEPT ![t] = shown[t]]
      BY <1>c, <3>1
    <3>3. v \in TabSet /\ v.revision \in {0, tab[t].revision} /\ v.remote \in {0, tab[t].remote}
      <4>1. tab[t] \in TabSet /\ clean \in BOOLEAN /\ 0 \in Nat
        BY <1>b
      <4> HIDE DEF clean
      <4> QED
        BY <4>1, AnsweredTab
    <3> HIDE DEF clean, v
    <3>4. /\ shown[t] \in SUBSET Nat /\ 0 \in shown[t]
          /\ v.revision \in shown[t] /\ v.remote \in shown[t]
      BY <1>b, <3>3
    <3>5. /\ draft' \in [revision : Nat, content : Nat, expired : BOOLEAN]
          /\ draft'.content = draft'.revision /\ sequence' \in Nat
      BY <1>a, <3>1
    <3> QED
      BY <3>1, <3>2, <3>3, <3>4, <3>5, TabMoves
  <2>2. CASE ~(Live /\ draft.revision = tab[t].revision)
    BY <1>0, <1>7, <2>2 DEF RemoveDraft
  <2> QED
    BY <2>1, <2>2
<1>8. CASE DraftExpires \/ DeleteExpired
  <2>1. /\ draft' \in [revision : Nat, content : Nat, expired : BOOLEAN]
        /\ draft'.content = draft'.revision
    <3>1. CASE DraftExpires
      BY <3>1, <1>a DEF DraftExpires
    <3>2. CASE DeleteExpired
      <4>1. draft' = [revision |-> 0, content |-> 0, expired |-> FALSE]
        BY <3>2 DEF DeleteExpired, NoDraft
      <4> QED
        BY <4>1
    <3> QED
      BY <1>8, <3>1, <3>2
  <2>2. UNCHANGED <<sequence, tab, shown>>
    BY <1>8 DEF DraftExpires, DeleteExpired
  <2> QED
    BY <2>1, <2>2 DEF DraftInv, DraftTyped
<1>9. CASE UNCHANGED draftVars
  BY <1>9 DEF draftVars, DraftInv, DraftTyped
<1>10. ASSUME NEW t \in Tabs, UseRemote(t) \/ KeepLocal(t)
       PROVE  DraftInv'
  BY <1>3, <1>10 DEF UseRemote, KeepLocal
<1> QED
  BY <1>1, <1>2, <1>4, <1>6, <1>7, <1>8, <1>9, <1>10 DEF DraftNext

\* What ChosenOnly says of one step.
Chosen ==
  \A t \in Tabs : Live /\ draft' # draft /\ ~draft'.expired /\ tab'[t] # tab[t] =>
    draft.content \in shown[t]

LEMMA OnlyChosen ==
  ASSUME DraftInv, DraftNext
  PROVE  Chosen
<1> USE DEF DraftInv, DraftTyped
<1>1. ASSUME NEW t \in Tabs, NEW heard \in BOOLEAN, NEW edited \in BOOLEAN,
             Save(t, heard, edited)
      PROVE  Chosen
  <2>1. \A u \in Tabs : tab'[u] # tab[u] => u = t
    BY <1>1 DEF Save, Told, Conflicts
  <2>2. Live /\ draft' # draft => draft.revision = tab[t].revision
    BY <1>1 DEF Save, CanSave, Conflicts
  <2> QED
    BY <2>1, <2>2 DEF Chosen
<1>2. ASSUME NEW t \in Tabs, NEW heard \in BOOLEAN, RemoveDraft(t, heard)
      PROVE  Chosen
  <2>1. \A u \in Tabs : tab'[u] # tab[u] => u = t
    BY <1>2 DEF RemoveDraft, Told, Conflicts
  <2>2. draft' # draft => draft.revision = tab[t].revision
    BY <1>2 DEF RemoveDraft, Conflicts
  <2> QED
    BY <2>1, <2>2 DEF Chosen
<1>3. CASE DraftExpires
  BY <1>3 DEF DraftExpires, Chosen
<1>4. CASE DeleteExpired
  BY <1>4 DEF DeleteExpired, Chosen, Live
<1>5. ASSUME NEW t \in Tabs, Load(t) \/ Edit(t) \/ UseRemote(t) \/ KeepLocal(t) \/ Reload(t)
      PROVE  Chosen
  BY <1>5 DEF Load, Edit, UseRemote, KeepLocal, Reload, Chosen
<1> QED
  BY <1>1, <1>2, <1>3, <1>4, <1>5 DEF DraftNext

\* However saves, answers that are lost, conflicts, removals and expiries of several tabs
\* mix, a living draft is replaced only from a tab that was shown its content.
THEOREM DraftsChosen == DraftSpec => ChosenOnly
<1>1. DraftInit => DraftInv
  BY DraftStarts
<1>2. DraftInv /\ [DraftNext]_draftVars => DraftInv'
  BY DraftKept
<1>3. DraftInv /\ [DraftNext]_draftVars => [Chosen]_draftVars
  BY OnlyChosen
<1> QED
  BY <1>1, <1>2, <1>3, PTL DEF DraftSpec, ChosenOnly, Chosen
-----------------------------------------------------------------------------
(* SuggestionBoard *)

Summary == [scans : ScanStatuses, untouched : BOOLEAN, ended : BOOLEAN]
Scans == [status : Answers \cup {"none"}, found : BOOLEAN, asked : BOOLEAN,
          token : Scanners \cup {NoToken}, live : BOOLEAN]
Work == [at : {"idle", "scan", "read", "write"}, todo : SUBSET Places,
         summary : Summary \cup {NoToken}]
Clean == {"clean", "none"}
Young == {"absent", "draft", "deleted"}

BoardTyped ==
  /\ idea \in [status : Statuses, scans : ScanStatuses, places : SUBSET Places]
  /\ scan \in [Places -> Scans] /\ post \in {NoToken} \cup SUBSET Places
  /\ scanner \in [Scanners -> Work]

\* Before the submission nothing is scanned, so no scanner's summary is left from then;
\* what a summary or the row calls clean was without a detection at every position,
\* and what was once accepted stays so whatever later scans find.
YoungIsUnscanned == idea.status \in Young => Rows = {} /\ \A w \in Scanners : scanner[w].at = "idle"
EndsPassed == \A p \in Places : scan[p].status = "completed" /\ ~scan[p].found => p \in passed
WorkHasRows == \A w \in Scanners : scanner[w].todo \subseteq Rows
SummaryPassed ==
  \A w \in Scanners : scanner[w].at = "write" =>
    scanner[w].summary \in Summary /\ (scanner[w].summary.scans \in Clean => Rows \subseteq passed)
StatusPassed == idea.status \notin Young /\ idea.scans \in Clean => Rows \subseteq passed
AcceptedPassed == idea.status = "accepted" => Rows \subseteq passed

BoardInv ==
  /\ BoardTyped
  /\ YoungIsUnscanned /\ EndsPassed /\ WorkHasRows /\ SummaryPassed /\ StatusPassed
  /\ AcceptedPassed

LEMMA NoScanTyped == NoScan \in Scans /\ NewScan \in Scans
BY DEF NoScan, NewScan, Scans, Answers

\* Giving a scan's lease to another scanner, or to none, changes neither its status nor
\* what it found.
LEMMA LeaseTurn ==
  ASSUME NEW s \in Scans, NEW t \in Scanners \cup {NoToken}, NEW live \in BOOLEAN
  PROVE  /\ [s EXCEPT !.token = t, !.live = live] \in Scans
         /\ [s EXCEPT !.token = t, !.live = live].status = s.status
         /\ [s EXCEPT !.token = t, !.live = live].found = s.found
<1> DEFINE given == [s EXCEPT !.token = t]
           leased == [given EXCEPT !.live = live]
<1>1. given \in Scans /\ given.status = s.status /\ given.found = s.found
  BY DEF Scans
<1>2. leased \in Scans /\ leased.status = given.status /\ leased.found = given.found
  <2> HIDE DEF given
  <2> QED
    BY <1>1 DEF Scans
<1>3. [s EXCEPT !.token = t, !.live = live] = leased
  OBVIOUS
<1> HIDE DEF given, leased
<1> QED
  BY <1>1, <1>2, <1>3

LEMMA NoWorkTyped == NoWork \in Work /\ NoWork.at = "idle" /\ NoWork.todo = {}
BY DEF NoWork, Work

LEMMA BoardStarts == BoardInit => BoardInv
<1> SUFFICES ASSUME BoardInit PROVE BoardInv
  OBVIOUS
<1>1. BoardTyped
  BY NoScanTyped, NoWorkTyped DEF BoardInit, BoardTyped, Statuses, ScanStatuses
<1>2. \A p \in Places : scan[p].status = "none"
  BY DEF BoardInit, NoScan
<1>3. Rows = {}
  BY <1>2 DEF Rows
<1> QED
  BY <1>1, <1>2, <1>3, NoWorkTyped DEF BoardInit, BoardInv, YoungIsUnscanned, EndsPassed,
     WorkHasRows, SummaryPassed, StatusPassed, AcceptedPassed, Young

\* A step that leaves the results of the scans alone and starts no scanner's work
\* except on rows that are there.
LEMMA ResultsStay ==
  ASSUME BoardTyped, EndsPassed, WorkHasRows,
         scan' \in [Places -> Scans], UNCHANGED passed,
         \A p \in Places : scan'[p].status = scan[p].status /\ scan'[p].found = scan[p].found,
         \A w \in Scanners : scanner'[w].todo \subseteq Rows
  PROVE  Rows' = Rows /\ EndsPassed' /\ WorkHasRows'
<1>1. Rows' = Rows
  BY DEF Rows
<1> QED
  BY <1>1 DEF EndsPassed, WorkHasRows

LEMMA SummaryIsTrue ==
  ASSUME BoardTyped, EndsPassed, ScanStatus \in Clean
  PROVE  Rows \subseteq passed
<1>1. CASE Rows = {}
  BY <1>1
<1>2. CASE Rows # {}
  <2>1. (\A p \in Rows : ~scan[p].found) /\ Completed
    BY <1>2 DEF ScanStatus, Clean
  <2> QED
    BY <2>1 DEF Completed, Rows, EndsPassed
<1> QED
  BY <1>1, <1>2

LEMMA SummaryTyped == ScanStatus \in ScanStatuses /\ Untouched \in BOOLEAN
                      /\ (Completed \/ Failed) \in BOOLEAN
BY DEF ScanStatus, ScanStatuses, Untouched, Completed, Failed

LEMMA BoardKept ==
  ASSUME BoardInv, [BoardNext]_boardVars
  PROVE  BoardInv' /\ (Submit \/ Rows' = Rows)
<1> USE DEF BoardInv
<1>a. idea.status \in Young =>
        Rows = {} /\ \A w \in Scanners : scanner[w].at = "idle" /\ scanner[w].todo = {}
  BY DEF YoungIsUnscanned, WorkHasRows
<1>1. ASSUME NEW n \in SUBSET Places, idea.status \in Young, Saved(n),
             post' \in {NoToken} \cup SUBSET Places, UNCHANGED <<scan, scanner, retries, passed>>
      PROVE  BoardInv' /\ Rows' = Rows
  <2>1. Rows' = Rows
    BY <1>1 DEF Rows
  <2>2. BoardTyped' /\ idea'.status = "draft"
    BY <1>1 DEF BoardTyped, Saved, Statuses, ScanStatuses
  <2> QED
    BY <1>1, <1>a, <2>1, <2>2 DEF Young, YoungIsUnscanned, EndsPassed, WorkHasRows,
       SummaryPassed, StatusPassed, AcceptedPassed
<1>2. CASE Submit
  <2>1. CASE idea.status = "draft"
    <3>1. /\ scan' = [p \in Places |-> IF p \in post THEN NewScan ELSE NoScan]
          /\ idea' = [idea EXCEPT !.status = IF post = {} THEN "review" ELSE "submitted",
                                  !.scans = IF post = {} THEN "none" ELSE "queued"]
          /\ UNCHANGED <<scanner, passed>> /\ post' = NoToken /\ post \in SUBSET Places
      BY <1>2, <2>1 DEF Submit, ScansFor, BoardTyped
    <3>2. /\ scan' \in [Places -> Scans]
          /\ \A p \in Places : scan'[p] \in {NewScan, NoScan} /\ (post = {} => scan'[p] = NoScan)
      BY <3>1, NoScanTyped
    <3>3. \A p \in Places : /\ scan'[p].status # "completed"
                            /\ post = {} => scan'[p].status = "none"
      BY <3>2 DEF NewScan, NoScan
    <3>4. /\ idea' \in [status : Statuses, scans : ScanStatuses, places : SUBSET Places]
          /\ idea'.status \in {"review", "submitted"} /\ idea'.scans \in {"none", "queued"}
          /\ idea'.scans = "none" => post = {}
      BY <3>1 DEF BoardTyped, Statuses, ScanStatuses
    <3>5. BoardTyped'
      BY <3>1, <3>2, <3>4 DEF BoardTyped
    <3>6. post = {} => Rows' = {}
      BY <3>3 DEF Rows
    <3>7. \A w \in Scanners : scanner'[w].at = "idle" /\ scanner'[w].todo = {}
      BY <1>a, <2>1, <3>1 DEF Young
    <3> QED
      BY <1>2, <3>3, <3>4, <3>5, <3>6, <3>7 DEF Young, Clean, YoungIsUnscanned, EndsPassed,
         WorkHasRows, SummaryPassed, StatusPassed, AcceptedPassed
  <2>2. CASE idea.status # "draft"
    <3>1. UNCHANGED <<idea, scan, scanner, passed>> /\ post' = NoToken
      BY <1>2, <2>2 DEF Submit
    <3>2. Rows' = Rows /\ BoardTyped'
      BY <3>1 DEF Rows, BoardTyped
    <3> QED
      BY <3>1, <3>2 DEF YoungIsUnscanned, EndsPassed, WorkHasRows, SummaryPassed,
         StatusPassed, AcceptedPassed
  <2> QED
    BY <2>1, <2>2
<1>3. CASE StayDraft \/ UNCHANGED boardVars
  <2>1. UNCHANGED <<idea, scan, scanner, passed>> /\ post' \in {NoToken} \cup SUBSET Places
    BY <1>3 DEF StayDraft, boardVars, BoardTyped
  <2>2. Rows' = Rows /\ BoardTyped'
    BY <2>1 DEF Rows, BoardTyped
  <2> QED
    BY <2>1, <2>2 DEF YoungIsUnscanned, EndsPassed, WorkHasRows, SummaryPassed,
       StatusPassed, AcceptedPassed
<1>4. CASE DeleteDraft
  <2>1. /\ idea.status \in Young /\ idea' = [status |-> "deleted", scans |-> "none", places |-> {}]
        /\ UNCHANGED <<scan, post, scanner, passed>>
    BY <1>4 DEF DeleteDraft, Young
  <2>2. Rows' = Rows /\ BoardTyped' /\ idea'.status = "deleted"
    BY <2>1 DEF Rows, BoardTyped, Statuses, ScanStatuses
  <2> QED
    BY <1>a, <2>1, <2>2 DEF Young, YoungIsUnscanned, EndsPassed, WorkHasRows,
       SummaryPassed, StatusPassed, AcceptedPassed
<1>5. ASSUME NEW w \in Scanners, ClaimScans(w)
      PROVE  BoardInv' /\ Rows' = Rows
  <2>1. /\ idea' = [idea EXCEPT !.status = "scanning", !.scans = "scanning"]
        /\ scanner' = [scanner EXCEPT ![w] = [NoWork EXCEPT !.at = "scan", !.todo = Claimable]]
        /\ scan' = [p \in Places |-> IF p \in Claimable
                                     THEN [scan[p] EXCEPT !.token = w, !.live = TRUE] ELSE scan[p]]
        /\ UNCHANGED <<post, retries, passed>> /\ Claimable \subseteq Rows
    BY <1>5 DEF ClaimScans, Claimable, Rows
  <2>2. /\ scan' \in [Places -> Scans]
        /\ \A p \in Places : scan'[p].status = scan[p].status /\ scan'[p].found = scan[p].found
    <3> DEFINE held(p) == [scan[p] EXCEPT !.token = w, !.live = TRUE]
    <3>1. \A p \in Places : scan[p] \in Scans
      BY DEF BoardTyped
    <3>2. \A p \in Places : /\ held(p) \in Scans
                            /\ held(p).status = scan[p].status /\ held(p).found = scan[p].found
      BY <3>1, LeaseTurn
    <3>3. scan' = [p \in Places |-> IF p \in Claimable THEN held(p) ELSE scan[p]]
      BY <2>1
    <3> HIDE DEF held
    <3> QED
      BY <3>1, <3>2, <3>3
  <2>3. /\ scanner' \in [Scanners -> Work] /\ scanner'[w].at = "scan"
        /\ scanner'[w].todo = Claimable
        /\ \A v \in Scanners : v # w => scanner'[v] = scanner[v]
    <3> DEFINE taken == [NoWork EXCEPT !.at = "scan", !.todo = Claimable]
    <3>1. taken \in Work /\ taken.at = "scan" /\ taken.todo = Claimable
      BY <2>1 DEF NoWork, Work, Rows
    <3>2. scanner' = [scanner EXCEPT ![w] = taken]
      BY <2>1
    <3> HIDE DEF taken
    <3> QED
      BY <3>1, <3>2 DEF BoardTyped
  <2>4. \A v \in Scanners : scanner'[v].todo \subseteq Rows
    BY <2>1, <2>3 DEF WorkHasRows
  <2>5. Rows' = Rows /\ EndsPassed' /\ WorkHasRows'
    BY <2>1, <2>2, <2>4, ResultsStay
  <2>6. /\ idea' \in [status : Statuses, scans : ScanStatuses, places : SUBSET Places]
        /\ idea'.status = "scanning" /\ idea'.scans = "scanning"
    BY <2>1 DEF BoardTyped, Statuses, ScanStatuses
  <2>7. BoardTyped'
    BY <2>1, <2>2, <2>3, <2>6 DEF BoardTyped
  <2>8. SummaryPassed'
    BY <2>1, <2>3, <2>5 DEF SummaryPassed
  <2> QED
    BY <2>5, <2>6, <2>7, <2>8 DEF Young, Clean, YoungIsUnscanned, StatusPassed, AcceptedPassed
<1>6. ASSUME NEW p \in Places, LeaseExpires(p)
      PROVE  BoardInv' /\ Rows' = Rows
  <2>1. scan' = [scan EXCEPT ![p].live = FALSE] /\ UNCHANGED <<idea, post, scanner, retries, passed>>
    BY <1>6 DEF LeaseExpires
  <2>2. /\ scan' \in [Places -> Scans]
        /\ \A q \in Places : scan'[q].status = scan[q].status /\ scan'[q].found = scan[q].found
    <3> DEFINE past == [scan[p] EXCEPT !.live = FALSE]
    <3>a. scan[p] \in Scans
      BY DEF BoardTyped
    <3>1. past \in Scans /\ past.status = scan[p].status /\ past.found = scan[p].found
      BY <3>a DEF Scans
    <3>2. scan' = [scan EXCEPT ![p] = past]
      BY <2>1 DEF BoardTyped
    <3> HIDE DEF past
    <3> QED
      BY <3>1, <3>2 DEF BoardTyped
  <2>3. Rows' = Rows /\ EndsPassed' /\ WorkHasRows'
    BY <2>1, <2>2, ResultsStay DEF WorkHasRows
  <2>4. BoardTyped'
    BY <2>1, <2>2 DEF BoardTyped
  <2> QED
    BY <2>1, <2>3, <2>4 DEF YoungIsUnscanned, SummaryPassed, StatusPassed, AcceptedPassed
<1>7. ASSUME NEW w \in Scanners, NEW p \in Places, NEW answer \in Answers, NEW found \in BOOLEAN,
             Scan(w, p, answer, found)
      PROVE  BoardInv' /\ Rows' = Rows
  <2>1. /\ scanner' = [scanner EXCEPT ![w].at = "read", ![w].todo = @ \ {p}]
        /\ UNCHANGED <<idea, post, retries>>
        /\ scanner[w].at = "scan" /\ p \in scanner[w].todo /\ p \in Rows
    BY <1>7 DEF Scan, WorkHasRows
  <2>2. /\ scanner' \in [Scanners -> Work] /\ scanner'[w].at = "read"
        /\ \A v \in Scanners : scanner'[v].todo \subseteq scanner[v].todo
        /\ \A v \in Scanners : v # w => scanner'[v] = scanner[v]
    <3>1. scanner[w] \in Work
      BY DEF BoardTyped
    <3> DEFINE left == [scanner[w] EXCEPT !.at = "read", !.todo = @ \ {p}]
    <3>2. left \in Work /\ left.at = "read" /\ left.todo \subseteq scanner[w].todo
      BY <3>1 DEF Work
    <3>3. scanner' = [scanner EXCEPT ![w] = left]
      BY <2>1 DEF BoardTyped
    <3> HIDE DEF left
    <3> QED
      BY <3>2, <3>3 DEF BoardTyped
  <2>3. /\ scan' \in [Places -> Scans] /\ Rows' = Rows /\ passed \subseteq passed' /\ EndsPassed'
    <3>1. CASE scan[p].token = w
      <4> DEFINE row == [status |-> answer, token |-> NoToken, live |-> FALSE,
                         found |-> IF answer = "error" THEN scan[p].found ELSE found,
                         asked |-> scan[p].asked \/ answer # "error"]
      <4>1. /\ scan' = [scan EXCEPT ![p] = row]
            /\ passed' = IF answer = "completed" /\ ~found THEN passed \cup {p} ELSE passed
        BY <1>7, <3>1 DEF Scan
      <4>2. row \in Scans /\ row.status = answer /\ (answer = "completed" => row.found = found)
        BY DEF Scans, BoardTyped, Answers
      <4>3. answer # "none"
        BY DEF Answers
      <4> HIDE DEF row
      <4>4. /\ scan' \in [Places -> Scans] /\ scan'[p] = row
            /\ \A q \in Places : q # p => scan'[q] = scan[q]
        BY <4>1, <4>2 DEF BoardTyped
      <4>5. Rows' = Rows
        BY <2>1, <4>2, <4>3, <4>4 DEF Rows
      <4>6. EndsPassed'
        BY <4>1, <4>2, <4>4 DEF EndsPassed
      <4> QED
        BY <4>1, <4>4, <4>5, <4>6
    <3>2. CASE scan[p].token # w
      BY <1>7, <3>2 DEF Scan, BoardTyped, Rows, EndsPassed
    <3> QED
      BY <3>1, <3>2
  <2>4. BoardTyped'
    BY <2>1, <2>2, <2>3 DEF BoardTyped
  <2>5. idea.status \notin Young
    BY <1>a, <2>1
  <2>6. WorkHasRows' /\ SummaryPassed'
    BY <2>2, <2>3 DEF WorkHasRows, SummaryPassed
  <2> QED
    BY <2>1, <2>3, <2>4, <2>5, <2>6 DEF YoungIsUnscanned, StatusPassed, AcceptedPassed
<1>8. ASSUME NEW w \in Scanners, Summarise(w)
      PROVE  BoardInv' /\ Rows' = Rows
  <2> DEFINE sum == [scans |-> ScanStatus, untouched |-> Untouched, ended |-> Completed \/ Failed]
             told == [scanner[w] EXCEPT !.at = "write", !.summary = sum]
  <2>1. /\ scanner[w].at = "read" /\ scanner[w] \in Work
        /\ scanner' = [scanner EXCEPT ![w] = told] /\ UNCHANGED <<idea, scan, post, passed>>
    BY <1>8 DEF Summarise, BoardTyped
  <2>2. sum \in Summary /\ sum.scans = ScanStatus
    BY SummaryTyped DEF Summary
  <2>3. told \in Work /\ told.at = "write" /\ told.summary = sum /\ told.todo = scanner[w].todo
    <3> HIDE DEF sum
    <3> QED
      BY <2>1, <2>2 DEF Work
  <2>4. Rows' = Rows
    BY <2>1 DEF Rows
  <2> HIDE DEF sum, told
  <2>5. /\ scanner' \in [Scanners -> Work] /\ scanner'[w] = told
        /\ \A v \in Scanners : v # w => scanner'[v] = scanner[v]
    BY <2>1, <2>3 DEF BoardTyped
  <2>6. BoardTyped'
    BY <2>1, <2>5 DEF BoardTyped
  <2>7. SummaryPassed'
    BY <2>1, <2>2, <2>3, <2>4, <2>5, SummaryIsTrue DEF SummaryPassed
  <2>8. idea.status \notin Young
    BY <1>a, <2>1
  <2> QED
    BY <2>1, <2>3, <2>4, <2>5, <2>6, <2>7, <2>8 DEF YoungIsUnscanned, EndsPassed, WorkHasRows,
       StatusPassed, AcceptedPassed
<1>9. ASSUME NEW w \in Scanners, WriteStatus(w)
      PROVE  BoardInv' /\ Rows' = Rows
  <2> DEFINE after == StatusAfter(idea.status, scanner[w].summary)
             next == IF scanner[w].todo = {} THEN NoWork
                     ELSE [NoWork EXCEPT !.at = "scan", !.todo = scanner[w].todo]
  <2>1. /\ scanner[w].at = "write" /\ scanner' = [scanner EXCEPT ![w] = next]
        /\ idea' = [idea EXCEPT !.status = after, !.scans = scanner[w].summary.scans]
        /\ UNCHANGED <<scan, post, passed>>
    BY <1>9 DEF WriteStatus, BoardTyped
  <2>2. next \in Work /\ next.at # "write" /\ next.todo = scanner[w].todo
    <3>1. scanner[w].todo \in SUBSET Places
      BY DEF BoardTyped, Work
    <3> QED
      BY <3>1 DEF NoWork, Work
  <2>3. idea.status \notin Young
    BY <1>a, <2>1
  <2>4. /\ scanner[w].summary.scans \in ScanStatuses
        /\ scanner[w].summary.scans \in Clean => Rows \subseteq passed
    BY <2>1 DEF SummaryPassed, Summary
  <2>5. /\ after \in Statuses /\ after \notin Young
        /\ after = "accepted" => idea.status = "accepted"
    <3>1. idea.status \in Statuses
      BY DEF BoardTyped
    <3> QED
      BY <2>3, <3>1 DEF StatusAfter, Statuses, Decided, Young
  <2>6. Rows' = Rows
    BY <2>1 DEF Rows
  <2> HIDE DEF after, next
  <2>7. /\ scanner' \in [Scanners -> Work] /\ scanner'[w] = next
        /\ \A v \in Scanners : v # w => scanner'[v] = scanner[v]
    BY <2>1, <2>2 DEF BoardTyped
  <2>8. /\ idea' \in [status : Statuses, scans : ScanStatuses, places : SUBSET Places]
        /\ idea'.status = after /\ idea'.scans = scanner[w].summary.scans
    BY <2>1, <2>4, <2>5 DEF BoardTyped
  <2>9. BoardTyped'
    BY <2>1, <2>7, <2>8 DEF BoardTyped
  <2>10. EndsPassed' /\ WorkHasRows' /\ SummaryPassed'
    BY <2>1, <2>2, <2>6, <2>7 DEF EndsPassed, WorkHasRows, SummaryPassed
  <2> QED
    BY <2>1, <2>4, <2>5, <2>6, <2>8, <2>9, <2>10 DEF YoungIsUnscanned, StatusPassed, AcceptedPassed
<1>10. ASSUME NEW w \in Scanners, ScannerDies(w)
       PROVE  BoardInv' /\ Rows' = Rows
  <2>1. /\ scanner[w].at # "idle" /\ scanner' = [scanner EXCEPT ![w] = NoWork]
        /\ scan' = [p \in Places |-> IF scan[p].token = w
                                     THEN [scan[p] EXCEPT !.token = NoToken, !.live = FALSE]
                                     ELSE scan[p]]
        /\ UNCHANGED <<idea, post, retries, passed>>
    BY <1>10 DEF ScannerDies
  <2>2. /\ scan' \in [Places -> Scans]
        /\ \A p \in Places : scan'[p].status = scan[p].status /\ scan'[p].found = scan[p].found
    <3> DEFINE freed(p) == [scan[p] EXCEPT !.token = NoToken, !.live = FALSE]
    <3>1. \A p \in Places : scan[p] \in Scans
      BY DEF BoardTyped
    <3>2. \A p \in Places : /\ freed(p) \in Scans
                            /\ freed(p).status = scan[p].status /\ freed(p).found = scan[p].found
      BY <3>1, LeaseTurn
    <3>3. scan' = [p \in Places |-> IF scan[p].token = w THEN freed(p) ELSE scan[p]]
      BY <2>1
    <3> HIDE DEF freed
    <3> QED
      BY <3>1, <3>2, <3>3
  <2>3. /\ scanner' \in [Scanners -> Work] /\ scanner'[w].at = "idle" /\ scanner'[w].todo = {}
        /\ \A v \in Scanners : v # w => scanner'[v] = scanner[v]
    BY <2>1, NoWorkTyped DEF BoardTyped
  <2>4. Rows' = Rows /\ EndsPassed' /\ WorkHasRows'
    BY <2>1, <2>2, <2>3, ResultsStay DEF WorkHasRows
  <2>5. BoardTyped'
    BY <2>1, <2>2, <2>3 DEF BoardTyped
  <2>6. SummaryPassed'
    BY <2>1, <2>3, <2>4 DEF SummaryPassed
  <2>7. idea.status \notin Young
    BY <1>a, <2>1
  <2> QED
    BY <2>1, <2>4, <2>5, <2>6, <2>7 DEF YoungIsUnscanned, StatusPassed, AcceptedPassed
<1>11. CASE Retry
  <2>1. /\ idea.status \notin Young /\ idea' = [idea EXCEPT !.status = "submitted", !.scans = "queued"]
        /\ scan' = [p \in Places |-> IF p \in Rows THEN NewScan ELSE NoScan]
        /\ UNCHANGED <<post, scanner, passed>>
    BY <1>11 DEF Retry, Young
  <2>2. /\ scan' \in [Places -> Scans]
        /\ \A p \in Places : scan'[p].status = IF p \in Rows THEN "queued" ELSE "none"
    <3>1. NewScan.status = "queued" /\ NoScan.status = "none"
      BY DEF NewScan, NoScan
    <3> QED
      BY <2>1, <3>1, NoScanTyped
  <2>3. Rows' = Rows
    BY <2>2 DEF Rows
  <2>4. EndsPassed'
    BY <2>2 DEF EndsPassed
  <2>5. /\ idea' \in [status : Statuses, scans : ScanStatuses, places : SUBSET Places]
        /\ idea'.status = "submitted" /\ idea'.scans = "queued"
    BY <2>1 DEF BoardTyped, Statuses, ScanStatuses
  <2>6. BoardTyped'
    BY <2>1, <2>2, <2>5 DEF BoardTyped
  <2> QED
    BY <2>1, <2>3, <2>4, <2>5, <2>6 DEF Young, Clean, YoungIsUnscanned, WorkHasRows, SummaryPassed,
       StatusPassed, AcceptedPassed
<1>12. ASSUME NEW decision \in Decided, Decide(decision)
       PROVE  BoardInv' /\ Rows' = Rows
  <2>1. /\ idea.status = "review" /\ decision \in {"accepted", "rejected"}
        /\ idea' = [idea EXCEPT !.status = decision]
        /\ decision = "accepted" => idea.scans \in Clean
        /\ UNCHANGED <<scan, post, scanner, passed>>
    BY <1>12 DEF Decide, Decided, Clean
  <2>2. Rows' = Rows
    BY <2>1 DEF Rows
  <2>3. /\ idea' \in [status : Statuses, scans : ScanStatuses, places : SUBSET Places]
        /\ idea'.status = decision /\ idea'.scans = idea.scans
    BY <2>1 DEF BoardTyped, Statuses, Decided
  <2>4. BoardTyped'
    BY <2>1, <2>3 DEF BoardTyped
  <2>5. idea.scans \in Clean => Rows \subseteq passed
    BY <2>1 DEF StatusPassed, Young
  <2> QED
    BY <2>1, <2>2, <2>3, <2>4, <2>5 DEF Young, YoungIsUnscanned, EndsPassed, WorkHasRows,
       SummaryPassed, StatusPassed, AcceptedPassed
<1>13. ASSUME NEW n \in SUBSET Places, SaveDraft(n) \/ Post(n)
       PROVE  BoardInv' /\ Rows' = Rows
  BY <1>1, <1>13 DEF SaveDraft, Post, Young, BoardTyped
<1> QED
  BY <1>2, <1>3, <1>4, <1>5, <1>6, <1>7, <1>8, <1>9, <1>10, <1>11, <1>12, <1>13 DEF BoardNext

\* What the suggestion has was in the form that was submitted, and is scanned, or another
\* tab saved it meanwhile.
PlacesInv ==
  /\ idea.status \notin Young => idea.places \subseteq Rows \cup crossed
  /\ idea.status = "draft" /\ post # NoToken => idea.places \ post \subseteq crossed

LEMMA PlacesKept ==
  ASSUME BoardInv, PlacesInv, [BoardNext]_boardVars, Submit \/ Rows' = Rows
  PROVE  PlacesInv'
<1>a. /\ idea \in [status : Statuses, scans : ScanStatuses, places : SUBSET Places]
      /\ post \in {NoToken} \cup SUBSET Places
      /\ \A w \in Scanners : scanner[w].at # "idle" => idea.status \notin Young
  BY DEF BoardInv, BoardTyped, YoungIsUnscanned
<1>1. ASSUME NEW places \in SUBSET Places, SaveDraft(places)
      PROVE  PlacesInv'
  BY <1>1 DEF SaveDraft, Saved, PlacesInv, Young
<1>2. ASSUME NEW places \in SUBSET Places, Post(places)
      PROVE  PlacesInv'
  BY <1>2 DEF Post, Saved, PlacesInv, Young
<1>3. CASE Submit /\ idea.status = "draft"
  <2>1. /\ scan' = [p \in Places |-> IF p \in post THEN NewScan ELSE NoScan]
        /\ post \in SUBSET Places /\ post # NoToken /\ post' = NoToken
        /\ idea'.places = idea.places /\ idea.places \in SUBSET Places /\ UNCHANGED crossed
    BY <1>a, <1>3 DEF Submit, ScansFor
  <2>2. NewScan.status # "none"
    BY DEF NewScan, NoScan
  <2>3. post \subseteq Rows'
    BY <2>1, <2>2 DEF Rows
  <2>4. idea.places \subseteq post \cup crossed
    BY <1>3, <2>1 DEF PlacesInv
  <2> QED
    BY <2>1, <2>3, <2>4 DEF PlacesInv
<1>4. CASE Submit /\ idea.status # "draft"
  BY <1>4 DEF Submit, PlacesInv, Rows
<1>5. CASE DeleteDraft
  BY <1>5 DEF DeleteDraft, PlacesInv, Young
<1>6. ASSUME Rows' = Rows, UNCHANGED <<crossed, post>>, idea'.places = idea.places,
             idea.status \notin Young, idea'.status # "draft"
      PROVE  PlacesInv'
  BY <1>6 DEF PlacesInv
<1>7. ASSUME Rows' = Rows, UNCHANGED <<crossed, idea>>, post' \in {post, NoToken}
      PROVE  PlacesInv'
  BY <1>7 DEF PlacesInv
<1>8. ASSUME NEW w \in Scanners, ClaimScans(w), Rows' = Rows
      PROVE  PlacesInv'
  BY <1>a, <1>6, <1>8 DEF ClaimScans, Claimable, Young
<1>9. ASSUME NEW w \in Scanners, WriteStatus(w), Rows' = Rows
      PROVE  PlacesInv'
  <2>1. idea.status \in Statuses /\ idea.status \notin Young
    BY <1>a, <1>9 DEF WriteStatus
  <2>2. StatusAfter(idea.status, scanner[w].summary) # "draft"
    BY <2>1 DEF StatusAfter, Decided, Young
  <2> QED
    BY <1>a, <1>6, <1>9, <2>1, <2>2 DEF WriteStatus
<1>10. CASE Retry /\ Rows' = Rows
  BY <1>a, <1>6, <1>10 DEF Retry, Young
<1>11. ASSUME NEW decision \in Decided, Decide(decision), Rows' = Rows
       PROVE  PlacesInv'
  BY <1>a, <1>6, <1>11 DEF Decide, Decided, Young
<1>12. CASE (StayDraft \/ UNCHANGED boardVars) /\ Rows' = Rows
  BY <1>7, <1>12 DEF StayDraft, boardVars
<1>13. ASSUME NEW p \in Places, LeaseExpires(p), Rows' = Rows
       PROVE  PlacesInv'
  BY <1>7, <1>13 DEF LeaseExpires
<1>14. ASSUME NEW w \in Scanners, Summarise(w) \/ ScannerDies(w), Rows' = Rows
       PROVE  PlacesInv'
  BY <1>7, <1>14 DEF Summarise, ScannerDies
<1>15. ASSUME NEW w \in Scanners, NEW p \in Places, NEW answer \in Answers,
              NEW found \in BOOLEAN, Scan(w, p, answer, found), Rows' = Rows
       PROVE  PlacesInv'
  BY <1>7, <1>15 DEF Scan
<1>16. CASE Submit
  BY <1>3, <1>4, <1>16
<1>17. CASE Rows' = Rows
  BY <1>1, <1>2, <1>5, <1>8, <1>9, <1>10, <1>11, <1>12, <1>13, <1>14, <1>15, <1>16, <1>17
     DEF BoardNext
<1> QED
  BY <1>16, <1>17

\* Whoever saves, submits, claims, loses, repeats, summarises or decides, a suggestion
\* is accepted only when every position scanned for it once came back clean, and what it
\* has that was never scanned was saved by another tab while it was being submitted.
THEOREM AcceptedClean == BoardSpec => []AcceptedIsClean
<1> DEFINE Inv == BoardInv /\ PlacesInv
<1>1. BoardInit => Inv
  BY BoardStarts DEF BoardInit, PlacesInv, Young
<1>2. Inv /\ [BoardNext]_boardVars => Inv'
  BY BoardKept, PlacesKept
<1>3. Inv => AcceptedIsClean
  BY DEF BoardInv, AcceptedPassed, PlacesInv, AcceptedIsClean, Young
<1> QED
  BY <1>1, <1>2, <1>3, PTL DEF BoardSpec
-----------------------------------------------------------------------------
(* UpdateAgent *)

InstallSteps == {"no", "waiting", "next", "place", "restart", "health", "undo",
                 "restart again", "health again"}

Tasks == [at : InstallSteps, part : PartSet, rest : SUBSET PartSet,
          previous : Releases \cup {0}]

InstallTyped ==
  /\ files \in [PartSet -> Releases] /\ serving \in [PartSet -> Releases \cup {0}]
  /\ latest \in [PartSet -> Releases]
  /\ install \in [Installs -> Tasks]

\* One install at a time is past the lock.
OneInstalls == \A c \in Installs : install[c].at \notin {"no", "waiting"} => mutex = c

\* What an install goes back to is what was there, and that was healthy.
GoesBack ==
  \A c \in Installs :
    /\ install[c].at = "place" => install[c].previous = files[install[c].part]
    /\ ~Quiet(c) =>
         /\ install[c].previous \in Releases
         /\ install[c].part \notin reported => install[c].previous \notin Unhealthy
    /\ install[c].at \in {"health", "health again"} =>
         serving[install[c].part] = files[install[c].part]
    /\ install[c].at \in {"restart again", "health again"} =>
         files[install[c].part] = install[c].previous

InstallInv == InstallTyped /\ OneInstalls /\ GoesBack /\ InstallSettles

LEMMA NoInstallTyped ==
  NoInstall \in Tasks
<1>1. Parts[1] \in PartSet
  BY UpdateAssumption DEF PartSet
<1> QED
  BY <1>1 DEF NoInstall, Tasks, InstallSteps

LEMMA InstallStarts == UpdateInit => InstallInv
<1>1. Parts[1] \in PartSet
  BY UpdateAssumption DEF PartSet
<1>2. 1 \in Releases
  BY UpdateAssumption DEF Releases
<1> SUFFICES ASSUME UpdateInit PROVE InstallInv
  OBVIOUS
<1>3. InstallTyped
  BY <1>2, NoInstallTyped DEF UpdateInit, InstallTyped
<1>4. \A c \in Installs : install[c].at = "no"
  BY DEF UpdateInit, NoInstall
<1>5. OneInstalls /\ GoesBack
  BY <1>4 DEF OneInstalls, GoesBack, Quiet
<1>6. InstallSettles
  BY UpdateAssumption DEF UpdateInit, InstallSettles
<1> QED
  BY <1>3, <1>5, <1>6 DEF InstallInv

LEMMA TaskTyped ==
  ASSUME InstallInv, NEW c \in Installs
  PROVE  /\ install[c] \in Tasks /\ install[c].at \in InstallSteps
         /\ install[c].part \in PartSet /\ install[c].rest \in SUBSET PartSet
         /\ install[c].previous \in Releases \cup {0}
         /\ files[install[c].part] \in Releases /\ latest[install[c].part] \in Releases
BY DEF InstallInv, InstallTyped, Tasks

\* While one install is past the lock, the others are quiet.
LEMMA OthersQuiet ==
  ASSUME InstallInv, NEW c \in Installs, NEW d \in Installs, d # c,
         install[c].at \notin {"no", "waiting"}
  PROVE  install[d].at \in {"no", "waiting"} /\ Quiet(d)
BY DEF InstallInv, OneInstalls, Quiet

\* An install that has not begun, or ends, leaves the parts as they are.
LEMMA QuietKeeps ==
  ASSUME InstallInv, NEW c \in Installs,
         NEW v \in Tasks,
         install' = [install EXCEPT ![c] = v],
         v.at \in {"no", "waiting", "next", "place"}, Quiet(c),
         v.at = "place" => v.previous = files[v.part],
         mutex = c \/ mutex = Unlocked,
         IF v.at \in {"no", "waiting"} THEN mutex' \in {mutex, Unlocked} ELSE mutex' = c,
         v.at \in {"no", "waiting"} /\ mutex' = Unlocked => mutex = c \/ mutex = Unlocked,
         UNCHANGED <<files, serving, latest, reported>>
  PROVE  InstallInv'
<1> USE DEF InstallInv
<1>1. \A d \in Installs : install'[d] = IF d = c THEN v ELSE install[d]
  BY DEF InstallTyped
<1>2. \A d \in Installs \ {c} : install[d].at \in {"no", "waiting"}
  BY UpdateAssumption DEF OneInstalls
<1>3. \A d \in Installs : Quiet(d)
  BY <1>2 DEF Quiet
<1>4. \A d \in Installs : Quiet(d)'
  BY <1>1, <1>2 DEF Quiet
<1>5. InstallTyped'
  BY DEF InstallTyped
<1>6. OneInstalls'
  BY <1>1, <1>2 DEF OneInstalls
<1>7. GoesBack'
  <2>1. \A d \in Installs : install'[d].at = "place" =>
          install'[d].previous = files[install'[d].part]
    BY <1>1, <1>2
  <2>2. \A d \in Installs : install'[d].at \in {"no", "waiting", "next", "place"}
    BY <1>1, <1>2
  <2> QED
    BY <1>4, <2>1, <2>2 DEF GoesBack
<1>8. InstallSettles'
  BY <1>3 DEF InstallSettles
<1> QED
  BY <1>5, <1>6, <1>7, <1>8

\* What a step that works on one part need not touch of the others.
OthersStay(p) ==
  /\ files' \in [PartSet -> Releases] /\ serving' \in [PartSet -> Releases \cup {0}]
  /\ latest' = latest
  /\ \A q \in PartSet \ {p} :
       files'[q] = files[q] /\ serving'[q] = serving[q] /\ (q \in reported' <=> q \in reported)

\* The parts that no install works on.
LEMMA OtherPartsSettle ==
  ASSUME InstallInv, NEW c \in Installs, install[c].at \notin {"no", "waiting"},
         OthersStay(install[c].part), NEW q \in PartSet \ {install[c].part}, q \notin reported'
  PROVE  serving'[q] = files'[q] /\ files'[q] \notin Unhealthy
<1>1. \A d \in Installs \ {c} : Quiet(d)
  BY OthersQuiet
<1>2. \A d \in Installs : install[d].part = q => Quiet(d)
  BY <1>1
<1>3. serving[q] = files[q] /\ files[q] \notin Unhealthy
  BY <1>2 DEF InstallInv, InstallSettles, OthersStay
<1> QED
  BY <1>3 DEF OthersStay

\* An install that holds the lock goes on with its part.
LEMMA WorkGoesOn ==
  ASSUME InstallInv, NEW c \in Installs, install[c].at \notin {"no", "waiting"},
         NEW at \in {"restart", "health", "undo", "restart again", "health again"},
         install' = [install EXCEPT ![c].at = at], mutex' = mutex, reported' = reported,
         NEW p \in PartSet, p = install[c].part, OthersStay(p),
         install[c].previous \in Releases,
         p \notin reported => install[c].previous \notin Unhealthy,
         at \in {"health", "health again"} => serving'[p] = files'[p],
         at \in {"restart again", "health again"} => files'[p] = install[c].previous
  PROVE  InstallInv'
<1>1. /\ \A d \in Installs \ {c} : install'[d] = install[d]
      /\ install'[c].at = at /\ install'[c].part = p
      /\ install'[c].previous = install[c].previous
  BY TaskTyped DEF InstallInv, InstallTyped, Tasks
<1>2. \A d \in Installs \ {c} : install[d].at \in {"no", "waiting"}
  BY OthersQuiet
<1>3. InstallTyped'
  <2>1. [install[c] EXCEPT !.at = at] \in Tasks
    BY DEF InstallInv, InstallTyped, Tasks, InstallSteps
  <2> QED
    BY <2>1 DEF InstallInv, InstallTyped, OthersStay
<1>4. OneInstalls'
  BY <1>1, <1>2 DEF InstallInv, OneInstalls
<1>5. GoesBack'
  <2> SUFFICES ASSUME NEW d \in Installs
               PROVE  (/\ install[d].at = "place" => install[d].previous = files[install[d].part]
                       /\ ~Quiet(d) =>
                            /\ install[d].previous \in Releases
                            /\ install[d].part \notin reported => install[d].previous \notin Unhealthy
                       /\ install[d].at \in {"health", "health again"} =>
                            serving[install[d].part] = files[install[d].part]
                       /\ install[d].at \in {"restart again", "health again"} =>
                            files[install[d].part] = install[d].previous)'
    BY DEF GoesBack
  <2>1. CASE d = c
    <3>1. /\ install'[d].at = at /\ install'[d].part = p
          /\ install'[d].previous = install[c].previous
      BY <1>1, <2>1
    <3>2. at # "place"
      OBVIOUS
    <3>3. p = install[c].part /\ reported' = reported
      OBVIOUS
    <3>4. install'[d].part \notin reported' => install'[d].previous \notin Unhealthy
      BY <3>1, <3>3
    <3>5. install'[d].at \in {"health", "health again"} =>
            serving'[install'[d].part] = files'[install'[d].part]
      BY <3>1
    <3>6. install'[d].at \in {"restart again", "health again"} =>
            files'[install'[d].part] = install'[d].previous
      BY <3>1
    <3> QED
      BY <3>1, <3>2, <3>4, <3>5, <3>6
  <2>2. CASE d # c
    BY <1>1, <1>2, <2>2 DEF Quiet
  <2> QED
    BY <2>1, <2>2
<1>6. ~Quiet(c)'
  BY <1>1 DEF Quiet
<1>7. InstallSettles'
  BY <1>1, <1>6, OtherPartsSettle DEF InstallSettles
<1> QED
  BY <1>3, <1>4, <1>5, <1>7 DEF InstallInv

\* It is done with its part, well or reported, and turns to the next one or ends.
LEMMA WorkEnds ==
  ASSUME InstallInv, NEW c \in Installs, install[c].at \notin {"no", "waiting"},
         \/ Return(c)
         \/ GoOn(c, "next") /\ mutex' = mutex,
         NEW p \in PartSet, p = install[c].part, OthersStay(p),
         p \in reported' \/ (serving'[p] = files'[p] /\ files'[p] \notin Unhealthy)
  PROVE  InstallInv'
<1>1. /\ \A d \in Installs \ {c} : install'[d] = install[d]
      /\ install'[c].at \in {"no", "next"} /\ (install'[c].at = "no" \/ mutex' = mutex)
  BY DEF InstallInv, InstallTyped, Return, GoOn, NoInstall, Tasks
<1>2. \A d \in Installs \ {c} : install[d].at \in {"no", "waiting"}
  BY OthersQuiet
<1>3. InstallTyped'
  <2>1. install' \in [Installs -> Tasks]
    <3>1. [install[c] EXCEPT !.at = "next"] \in Tasks
      BY DEF InstallInv, InstallTyped, Tasks, InstallSteps
    <3> QED
      BY <3>1, NoInstallTyped DEF InstallInv, InstallTyped, Return, GoOn
  <2> QED
    BY <2>1 DEF InstallInv, InstallTyped, OthersStay
<1>4. OneInstalls'
  BY <1>1, <1>2 DEF InstallInv, OneInstalls
<1>5. \A d \in Installs : install'[d].at \in {"no", "waiting", "next"}
  BY <1>1, <1>2
<1>6. GoesBack'
  BY <1>5 DEF GoesBack, Quiet
<1>7. InstallSettles'
  BY OtherPartsSettle DEF InstallSettles
<1> QED
  BY <1>3, <1>4, <1>6, <1>7 DEF InstallInv

LEMMA InstallEnters ==
  ASSUME InstallInv, NEW c \in Installs,
         \/ \E some \in SUBSET PartSet : AskInstall(c, some) \/ LockAgent(c, some)
         \/ \E ok \in BOOLEAN : BeginPart(c, ok)
  PROVE  InstallInv'
<1>1. install[c] \in Tasks
  BY DEF InstallInv, InstallTyped
<1>2. ASSUME NEW some \in SUBSET PartSet, AskInstall(c, some)
      PROVE  InstallInv'
  <2> DEFINE v == [NoInstall EXCEPT !.at = "waiting", !.rest = some]
  <2>1. /\ install' = [install EXCEPT ![c] = v] /\ install[c].at = "no"
        /\ UNCHANGED <<files, serving, latest, mutex, reported>>
    BY <1>2 DEF AskInstall
  <2>2. v \in Tasks
    BY <1>2, NoInstallTyped DEF Tasks, InstallSteps
  <2>3. v.at = "waiting"
    BY DEF NoInstall
  <2> HIDE DEF v
  <2>4. \A d \in Installs : install'[d] = IF d = c THEN v ELSE install[d]
    BY <2>1 DEF InstallInv, InstallTyped
  <2>5. \A d \in Installs : (Quiet(d)' <=> Quiet(d))
    BY <2>1, <2>3, <2>4 DEF Quiet
  <2>6. InstallTyped'
    BY <2>1, <2>2 DEF InstallInv, InstallTyped
  <2>7. OneInstalls'
    BY <2>1, <2>3, <2>4 DEF InstallInv, OneInstalls
  <2>8. GoesBack'
    <3>1. \A d \in Installs \ {c} : install'[d] = install[d]
      BY <2>4
    <3>2. install'[c].at = "waiting"
      BY <2>3, <2>4
    <3>3. Quiet(c)'
      BY <2>5, <2>1 DEF Quiet
    <3>4. ASSUME NEW d \in Installs \ {c}
          PROVE  /\ install'[d] = install[d] /\ (Quiet(d)' <=> Quiet(d))
                 /\ files' = files /\ serving' = serving /\ reported' = reported
      BY <2>1, <2>5, <3>1
    <3> QED
      BY <3>2, <3>3, <3>4 DEF InstallInv, GoesBack
  <2>9. Quiet(c) /\ Quiet(c)'
    BY <2>1, <2>5 DEF Quiet
  <2>10. InstallSettles'
    BY <2>1, <2>4, <2>5, <2>9 DEF InstallInv, InstallSettles
  <2> QED
    BY <2>6, <2>7, <2>8, <2>10 DEF InstallInv
<1>3. ASSUME NEW some \in SUBSET PartSet, LockAgent(c, some)
      PROVE  InstallInv'
  <2> DEFINE rest == {p \in install[c].rest \cap some : Installable(p)}
  <2>1. /\ install[c].at = "waiting" /\ mutex = Unlocked
        /\ UNCHANGED <<files, serving, latest, reported>>
        /\ rest \in SUBSET PartSet
    BY <1>1, <1>3 DEF LockAgent
  <2>2. IF rest = {} THEN Return(c)
        ELSE install' = [install EXCEPT ![c].at = "next", ![c].rest = rest] /\ mutex' = c
    BY <1>3 DEF LockAgent
  <2> HIDE DEF rest
  <2>3. CASE rest = {}
    BY <2>1, <2>2, <2>3, NoInstallTyped, QuietKeeps DEF Return, NoInstall, Quiet
  <2>4. CASE rest # {}
    <3> DEFINE v == [install[c] EXCEPT !.at = "next", !.rest = rest]
    <3>1. install' = [install EXCEPT ![c] = v] /\ mutex' = c
      BY <2>2, <2>4
    <3>2. v.at = "next" /\ v \in Tasks
      BY <1>1, <2>1 DEF Tasks, InstallSteps
    <3> HIDE DEF v
    <3> QED
      BY <2>1, <3>1, <3>2, QuietKeeps DEF Quiet
  <2> QED
    BY <2>3, <2>4
<1>4. ASSUME NEW ok \in BOOLEAN, BeginPart(c, ok)
      PROVE  InstallInv'
  <2>1. /\ install[c].at = "next" /\ mutex = c
        /\ UNCHANGED <<files, serving, latest, reported>>
    BY <1>4 DEF BeginPart, InstallInv, OneInstalls
  <2>2. CASE Return(c)
    BY <2>1, <2>2, NoInstallTyped, QuietKeeps DEF Return, NoInstall, Quiet
  <2>3. CASE ~Return(c)
    <3>1. PICK p \in PartSet :
            /\ mutex' = mutex
            /\ install' = [install EXCEPT ![c] =
                 [at |-> "place", part |-> p, rest |-> install[c].rest \ {p},
                  previous |-> files[p]]]
      BY <1>4, <2>3, TaskTyped DEF BeginPart, Previous
    <3> DEFINE v == [at |-> "place", part |-> p, rest |-> install[c].rest \ {p},
                     previous |-> files[p]]
    <3>2. /\ install' = [install EXCEPT ![c] = v]
          /\ v.at = "place" /\ v.previous = files[v.part]
          /\ v \in Tasks
      BY <1>1, <3>1 DEF Tasks, InstallSteps, InstallInv, InstallTyped
    <3> HIDE DEF v
    <3> QED
      BY <2>1, <3>1, <3>2, QuietKeeps DEF Quiet
  <2> QED
    BY <2>2, <2>3
<1> QED
  BY <1>2, <1>3, <1>4

LEMMA InstallWorks ==
  ASSUME InstallInv, NEW c \in Installs,
         \/ \E outcome \in {"done", "failed", "killed", "moved"} : PlaceFiles(c, outcome)
         \/ \E outcome \in {"up", "kept", "down"} : RestartPart(c, outcome)
         \/ \E ok \in BOOLEAN : AwaitHealth(c, ok)
  PROVE  InstallInv'
<1> DEFINE p == install[c].part
<1>1. /\ p \in PartSet /\ files[p] \in Releases /\ latest[p] \in Releases
      /\ install[c] \in Tasks
  BY TaskTyped
<1>2. ASSUME NEW outcome \in {"done", "failed", "killed", "moved"}, PlaceFiles(c, outcome)
      PROVE  InstallInv'
  <2>1. install[c].at = "place" /\ mutex = c /\ Quiet(c) /\ install[c].previous = files[p]
    BY <1>2 DEF PlaceFiles, InstallInv, OneInstalls, GoesBack, Quiet
  <2>2. CASE outcome \in {"failed", "killed"}
    <3>1. Return(c) /\ UNCHANGED <<files, serving, latest, reported>>
      BY <1>2, <2>2 DEF PlaceFiles
    <3> QED
      BY <2>1, <3>1, NoInstallTyped, QuietKeeps DEF Return, NoInstall
  <2>3. CASE outcome = "done"
    <3>1. /\ files' = [files EXCEPT ![p] = latest[p]]
          /\ UNCHANGED <<serving, latest, mutex, reported>>
          /\ install' = [install EXCEPT ![c].at = "restart"]
      BY <1>2, <2>3 DEF PlaceFiles, GoOn
    <3>2. \A d \in Installs : Quiet(d)
      BY <2>1, OthersQuiet
    <3>3. /\ p \notin reported => install[c].previous \notin Unhealthy
          /\ install[c].previous \in Releases
      BY <1>1, <2>1, <3>2 DEF InstallInv, InstallSettles
    <3>4. OthersStay(p)
      BY <1>1, <3>1 DEF InstallInv, InstallTyped, OthersStay
    <3> QED
      BY <1>1, <2>1, <3>1, <3>3, <3>4, WorkGoesOn
  <2>4. CASE outcome = "moved"
    <3>1. /\ files' = [files EXCEPT ![p] = latest[p]] /\ UNCHANGED <<serving, latest>>
          /\ reported' = reported \cup {p} /\ Return(c)
      BY <1>2, <2>4 DEF PlaceFiles
    <3>2. OthersStay(p) /\ p \in reported'
      BY <1>1, <3>1 DEF InstallInv, InstallTyped, OthersStay
    <3> QED
      BY <1>1, <2>1, <3>1, <3>2, WorkEnds
  <2> QED
    BY <2>2, <2>3, <2>4
<1>3. ASSUME NEW outcome \in {"up", "kept", "down"}, RestartPart(c, outcome)
      PROVE  InstallInv'
  <2>1. /\ install[c].at = "restart" /\ serving' = Served(p, outcome)
        /\ GoOn(c, IF outcome = "up" THEN "health" ELSE "undo")
        /\ UNCHANGED <<files, latest, mutex, reported>>
    BY <1>3 DEF RestartPart
  <2>2. OthersStay(p) /\ (outcome = "up" => serving'[p] = files'[p])
    BY <1>1, <2>1 DEF Served, InstallInv, InstallTyped, OthersStay
  <2>3. /\ install[c].previous \in Releases
        /\ p \notin reported => install[c].previous \notin Unhealthy
    BY <2>1 DEF InstallInv, GoesBack, Quiet
  <2>4. CASE outcome = "up"
    BY <1>1, <2>1, <2>2, <2>3, <2>4, WorkGoesOn DEF GoOn
  <2>5. CASE outcome # "up"
    BY <1>1, <2>1, <2>2, <2>3, <2>5, WorkGoesOn DEF GoOn
  <2> QED
    BY <2>4, <2>5
<1>4. ASSUME NEW ok \in BOOLEAN, AwaitHealth(c, ok)
      PROVE  InstallInv'
  <2>1. /\ install[c].at = "health" /\ (ok => serving[p] \notin Unhealthy)
        /\ reported' = IF ok THEN reported \ {p} ELSE reported
        /\ GoOn(c, IF ok THEN "next" ELSE "undo")
        /\ UNCHANGED <<files, serving, latest, mutex>>
    BY <1>4 DEF AwaitHealth
  <2>2. OthersStay(p)
    BY <1>1, <2>1 DEF InstallInv, InstallTyped, OthersStay
  <2>3. /\ install[c].previous \in Releases /\ serving[p] = files[p]
        /\ p \notin reported => install[c].previous \notin Unhealthy
    BY <2>1 DEF InstallInv, GoesBack, Quiet
  <2>4. CASE ok
    BY <1>1, <2>1, <2>2, <2>3, <2>4, WorkEnds
  <2>5. CASE ~ok
    BY <1>1, <2>1, <2>2, <2>3, <2>5, WorkGoesOn DEF GoOn
  <2> QED
    BY <2>4, <2>5
<1> QED
  BY <1>2, <1>3, <1>4

LEMMA InstallUndoes ==
  ASSUME InstallInv, NEW c \in Installs,
         \/ \E ok \in BOOLEAN : Undo(c, ok) \/ HealthOnceMore(c, ok)
         \/ \E outcome \in {"up", "kept", "down"} : RestartAgain(c, outcome)
  PROVE  InstallInv'
<1> DEFINE p == install[c].part
<1>1. p \in PartSet /\ install[c].previous \in Releases \cup {0}
  BY TaskTyped
<1>2. ASSUME NEW ok \in BOOLEAN, Undo(c, ok)
      PROVE  InstallInv'
  <2>1. install[c].at = "undo" /\ UNCHANGED <<serving, latest>>
    BY <1>2 DEF Undo
  <2>2. /\ install[c].previous \in Releases
        /\ p \notin reported => install[c].previous \notin Unhealthy
    BY <2>1 DEF InstallInv, GoesBack, Quiet
  <2>3. CASE ok
    <3>1. /\ files' = [files EXCEPT ![p] = install[c].previous]
          /\ GoOn(c, "restart again") /\ UNCHANGED <<mutex, reported>>
      BY <1>2, <2>3 DEF Undo
    <3>2. OthersStay(p) /\ files'[p] = install[c].previous
      BY <1>1, <2>1, <2>2, <3>1 DEF InstallInv, InstallTyped, OthersStay
    <3> QED
      BY <1>1, <2>1, <2>2, <3>1, <3>2, WorkGoesOn DEF GoOn
  <2>4. CASE ~ok
    <3>1. reported' = reported \cup {p} /\ Return(c) /\ UNCHANGED files
      BY <1>2, <2>4 DEF Undo
    <3>2. OthersStay(p) /\ p \in reported'
      BY <1>1, <2>1, <3>1 DEF InstallInv, InstallTyped, OthersStay
    <3> QED
      BY <1>1, <2>1, <3>1, <3>2, WorkEnds
  <2> QED
    BY <2>3, <2>4
<1>3. ASSUME NEW outcome \in {"up", "kept", "down"}, RestartAgain(c, outcome)
      PROVE  InstallInv'
  <2>1. /\ install[c].at = "restart again" /\ serving' = Served(p, outcome)
        /\ UNCHANGED <<files, latest>>
    BY <1>3 DEF RestartAgain
  <2>2. /\ install[c].previous \in Releases /\ files[p] = install[c].previous
        /\ p \notin reported => install[c].previous \notin Unhealthy
    BY <2>1 DEF InstallInv, GoesBack, Quiet
  <2>3. /\ serving' \in [PartSet -> Releases \cup {0}]
        /\ \A q \in PartSet \ {p} : serving'[q] = serving[q]
        /\ outcome = "up" => serving'[p] = files'[p]
    BY <1>1, <2>1 DEF Served, InstallInv, InstallTyped
  <2>4. CASE outcome = "up" /\ p \in HealthAgain
    <3>1. GoOn(c, "health again") /\ UNCHANGED <<mutex, reported>>
      BY <1>3, <2>4 DEF RestartAgain
    <3>2. OthersStay(p)
      BY <2>1, <2>3, <3>1 DEF InstallInv, InstallTyped, OthersStay
    <3> QED
      BY <1>1, <2>1, <2>2, <2>3, <2>4, <3>1, <3>2, WorkGoesOn DEF GoOn
  <2>5. CASE ~(outcome = "up" /\ p \in HealthAgain)
    <3>1. Return(c) /\ reported' = IF outcome = "up" THEN reported ELSE reported \cup {p}
      BY <1>3, <2>5 DEF RestartAgain
    <3>2. OthersStay(p)
      BY <2>1, <2>3, <3>1 DEF InstallInv, InstallTyped, OthersStay
    <3> QED
      BY <1>1, <2>1, <2>2, <2>3, <3>1, <3>2, WorkEnds
  <2> QED
    BY <2>4, <2>5
<1>4. ASSUME NEW ok \in BOOLEAN, HealthOnceMore(c, ok)
      PROVE  InstallInv'
  <2>1. /\ install[c].at = "health again" /\ (ok => serving[p] \notin Unhealthy) /\ Return(c)
        /\ reported' = IF ok THEN reported ELSE reported \cup {p}
        /\ UNCHANGED <<files, serving, latest>>
    BY <1>4 DEF HealthOnceMore
  <2>2. OthersStay(p)
    BY <1>1, <2>1 DEF InstallInv, InstallTyped, OthersStay
  <2>3. serving[p] = files[p]
    BY <2>1 DEF InstallInv, GoesBack
  <2> QED
    BY <1>1, <2>1, <2>2, <2>3, WorkEnds
<1> QED
  BY <1>2, <1>3, <1>4

LEMMA RemoteKeeps ==
  ASSUME InstallInv, NEW p \in PartSet, Publish(p) \/ EditCheckout(p)
  PROVE  InstallInv'
<1>1. /\ UNCHANGED <<files, serving, install, mutex, reported>>
      /\ latest' \in [PartSet -> Releases]
  <2>1. latest[p] \in Releases
    BY DEF InstallInv, InstallTyped
  <2>2. latest[p] < LastVersion => latest[p] + 1 \in Releases
    BY <2>1, UpdateAssumption DEF Releases
  <2> QED
    BY <2>2 DEF Publish, EditCheckout, InstallInv, InstallTyped
<1> QED
  BY <1>1 DEF InstallInv, InstallTyped, OneInstalls, GoesBack, InstallSettles, Quiet

\* The parts an install had in hand are reported, and the others were settled.
LEMMA AgentStopKeeps ==
  ASSUME InstallInv, AgentStops
  PROVE  InstallInv'
<1>1. /\ install' = [c \in Installs |-> NoInstall] /\ UNCHANGED <<files, serving, latest>>
      /\ reported' = reported \cup {install[c].part : c \in {x \in Installs : ~Quiet(x)}}
  BY DEF AgentStops
<1>2. \A c \in Installs : install'[c].at = "no"
  BY <1>1 DEF NoInstall
<1>3. InstallTyped'
  BY <1>1, NoInstallTyped DEF InstallInv, InstallTyped
<1>4. OneInstalls' /\ GoesBack'
  BY <1>2 DEF OneInstalls, GoesBack, Quiet
<1>5. InstallSettles'
  BY <1>1 DEF InstallInv, InstallSettles
<1> QED
  BY <1>3, <1>4, <1>5 DEF InstallInv

LEMMA InstallKept ==
  ASSUME InstallInv, [UpdateNext]_updateVars
  PROVE  InstallInv'
<1>1. CASE UNCHANGED updateVars
  BY <1>1 DEF updateVars, InstallInv, InstallTyped, OneInstalls, GoesBack, InstallSettles, Quiet
<1>2. CASE UpdateNext
  BY <1>2, InstallEnters, InstallWorks, InstallUndoes, RemoteKeeps, AgentStopKeeps
  DEF UpdateNext
<1> QED
  BY <1>1, <1>2

\* Wherever a command fails and whenever the agent dies, a part that no install works on
\* and no roll-back was reported for runs what its files name, a version that was healthy.
THEOREM InstallsSettle == UpdateSpec => []InstallSettles
<1>1. UpdateInit => InstallInv
  BY InstallStarts
<1>2. InstallInv /\ [UpdateNext]_updateVars => InstallInv'
  BY InstallKept
<1>3. InstallInv => InstallSettles
  BY DEF InstallInv
<1> QED
  BY <1>1, <1>2, <1>3, PTL DEF UpdateSpec

-----------------------------------------------------------------------------
(* MinerUpdate *)

\* The operator's last edit is in the folder, unless it came too late.
Fresh(f) == hasty \/ f.scripts = edits

\* The newest backup.
Top(f) == \A g \in backups : g.package <= f.package

\* No two backups are of one package.
Apart ==
  \A f \in backups : /\ f.package \in 1..unpacked
                     /\ \A g \in backups : f.package = g.package => f = g

InFolder ==
  current # NoFolder => /\ current.package \in 1..unpacked /\ Fresh(current)
                        /\ \A f \in backups : f.package < current.package

\* Without a folder there is a backup to repair it with.
Missing ==
  current = NoFolder => /\ torn \/ update.at = "moved"
                        /\ \E f \in backups : Top(f) /\ Fresh(f)

Prepared ==
  /\ update.at \in {"saved", "staged", "locked", "stopped", "moved"} =>
       hasty \/ update.saved = edits
  /\ update.at \in {"staged", "locked", "stopped", "moved"} =>
       /\ Fresh(staging) /\ staging.package = unpacked
       /\ \A f \in backups \cup {current} : f.package < unpacked

\* Where the package is that the update replaces.
Replaced ==
  /\ update.at \in {"begun", "saved", "staged", "locked", "stopped"} =>
       current # NoFolder /\ current.package = update.before
  /\ update.at = "moved" => current = NoFolder
  /\ update.at \in {"placed", "roll back"} => current # NoFolder
  /\ update.at \in {"moved", "placed", "roll back"} =>
       \E f \in backups : f.package = update.before /\ Top(f) /\ Fresh(f)
  /\ update.at = "restart" /\ current # NoFolder =>
       \/ current.package = update.before
       \/ \E f \in backups : f.package = update.before /\ Top(f)

MinerRests ==
  /\ miner \in {0, current.package}
  /\ update.at \in {"stopped", "moved", "placed", "roll back", "restart"} => miner = 0
  /\ update.at \in {"begun", "saved", "staged"} => ~update.ran

Updates ==
  [at : {"none", "begun", "saved", "staged", "locked", "stopped", "moved",
         "placed", "roll back", "restart"},
   saved : 0..LastEdit, before : 0..LastPackage, ran : BOOLEAN]

\* MinerTypeOK, for a prover.
MinerTyped ==
  /\ current \in Folders /\ staging \in Folders
  /\ backups \in SUBSET Folders /\ failed \in SUBSET Folders
  /\ miner \in 0..LastPackage /\ unpacked \in 1..LastPackage /\ edits \in 0..LastEdit
  /\ update \in Updates /\ hasty \in BOOLEAN /\ torn \in BOOLEAN

MinerInv ==
  MinerTyped /\ Apart /\ InFolder /\ Missing /\ Prepared /\ Replaced /\ MinerRests

LEMMA MinerStarts == MinerInit => MinerInv
<1> SUFFICES ASSUME MinerInit PROVE MinerInv
  OBVIOUS
<1>1. NoFolder \in Folders /\ current \in Folders
  BY MinerAssumption DEF MinerInit, Folders, NoFolder
<1>2. update \in Updates /\ update.at = "none"
  BY MinerAssumption DEF MinerInit, NoUpdate, Updates
<1>3. current.package = 1 /\ current.scripts = 0 /\ current # NoFolder
  BY DEF MinerInit, NoFolder
<1>4. MinerTyped
  <2>1. miner \in 0..LastPackage /\ unpacked \in 1..LastPackage /\ edits \in 0..LastEdit
    BY MinerAssumption DEF MinerInit
  <2> QED
    BY <1>1, <1>2, <2>1 DEF MinerInit, MinerTyped
<1>5. Apart /\ InFolder /\ Missing
  BY <1>3 DEF MinerInit, Apart, InFolder, Missing, Fresh
<1>6. Prepared /\ Replaced /\ MinerRests
  BY <1>2, <1>3 DEF MinerInit, Prepared, Replaced, MinerRests
<1> QED
  BY <1>4, <1>5, <1>6 DEF MinerInv

LEMMA PackagesCounted ==
  ASSUME MinerInv
  PROVE  /\ LastPackage \in Nat /\ LastEdit \in Nat /\ unpacked \in Nat /\ unpacked >= 1
         /\ current.package \in Nat /\ staging.package \in Nat /\ miner \in Nat
BY MinerAssumption DEF MinerInv, MinerTyped, Folders

LEMMA MinerCounted ==
  ASSUME MinerInv
  PROVE  /\ miner \in 0..LastPackage /\ current.package \in 0..LastPackage
         /\ 0 \in 0..LastPackage /\ 0 \in 0..LastEdit /\ miner \in {0, current.package}
<1>1. 0 \in 0..LastPackage /\ 0 \in 0..LastEdit
  BY MinerAssumption
<1>2. miner \in 0..LastPackage /\ current.package \in 0..LastPackage
  BY DEF MinerInv, MinerTyped, Folders
<1> QED
  BY <1>1, <1>2 DEF MinerInv, MinerRests

LEMMA BackupCounted ==
  ASSUME MinerInv, NEW f \in backups
  PROVE  f \in Folders /\ f.package \in Nat /\ f.package # 0
BY MinerAssumption DEF MinerInv, MinerTyped, Apart, Folders

LEMMA GotoTyped ==
  ASSUME MinerInv, NEW at, Goto(at)
  PROVE  /\ update'.at = at /\ update'.saved = update.saved /\ update'.before = update.before
         /\ update'.ran = update.ran
         /\ at \in {"none", "begun", "saved", "staged", "locked", "stopped", "moved",
                   "placed", "roll back", "restart"} => update' \in Updates
BY DEF MinerInv, MinerTyped, Goto, Updates

\* Only older folders are pruned: the newest one is kept, as one is to be kept at least.
LEMMA NewestKept ==
  ASSUME MinerInv
  PROVE  /\ Newest(backups) \subseteq backups /\ Newest(failed) \subseteq failed
         /\ \A f \in backups : Top(f) => f \in Newest(backups)
<1>1. ASSUME NEW f \in backups, Top(f)
      PROVE  {g \in backups : g.package > f.package} = {}
  <2>1. \A g \in backups : g.package \in Int /\ f.package \in Int
    BY BackupCounted
  <2> QED
    BY <1>1, <2>1 DEF Top
<1>2. Cardinality({}) < Keep
  BY FS_EmptySet, MinerAssumption
<1> QED
  BY <1>1, <1>2 DEF Newest

LEMMA StrictlyLess == \A m, n \in Nat : m # n /\ m <= n => m < n
OBVIOUS

\* The package that is being replaced is the newest backup.
LEMMA OldIsNewest ==
  ASSUME MinerInv, update.at \in {"moved", "placed", "roll back"}
  PROVE  /\ Old \in backups /\ Old.package = update.before /\ Top(Old) /\ Fresh(Old)
         /\ Old \in Folders /\ Old # NoFolder /\ Old.package \in 1..unpacked
         /\ \A f \in backups \ {Old} : f.package < Old.package
<1>1. PICK f \in backups : f.package = update.before /\ Top(f) /\ Fresh(f)
  BY DEF MinerInv, Replaced
<1>2. Old \in backups /\ Old.package = update.before
  BY <1>1 DEF Old
<1>3. Old = f
  BY <1>1, <1>2 DEF MinerInv, Apart
<1>4. Old \in Folders /\ Old.package \in 1..unpacked
  BY <1>2 DEF MinerInv, MinerTyped, Apart
<1>5. Old # NoFolder
  BY <1>2, BackupCounted DEF NoFolder
<1>6. \A g \in backups \ {Old} : g.package # Old.package /\ g.package <= Old.package
  BY <1>1, <1>2, <1>3 DEF Top, MinerInv, Apart
<1>7. \A g \in backups \ {Old} : g.package < Old.package
  <2> SUFFICES ASSUME NEW g \in backups \ {Old}
               PROVE  g.package < Old.package
    OBVIOUS
  <2>1. g.package \in Nat /\ Old.package \in Nat
    BY <1>2, BackupCounted
  <2>2. g.package # Old.package /\ g.package <= Old.package
    BY <1>6
  <2> QED
    BY <2>1, <2>2, StrictlyLess
<1> QED
  BY <1>1, <1>2, <1>3, <1>4, <1>5, <1>7

\* The steps of an update before it moves anything.
LEMMA PreparesKeep ==
  ASSUME MinerInv, Collect \/ Unpack \/ LockMiner \/ Halt
  PROVE  MinerInv'
<1> USE DEF MinerInv
<1>1. CASE Collect
  BY <1>1 DEF Collect, counters, MinerTyped, Apart, InFolder, Missing, Prepared, Replaced,
              MinerRests, Fresh, Top, Updates, Folders
<1>2. CASE Unpack
  <2>1. /\ update.at = "saved" /\ unpacked < LastPackage /\ unpacked' = unpacked + 1
        /\ staging' = [package |-> unpacked + 1, scripts |-> update.saved] /\ Goto("staged")
        /\ UNCHANGED <<current, backups, failed, miner, edits, hasty, torn>>
    BY <1>2 DEF Unpack
  <2>2. /\ update' \in Updates /\ update'.at = "staged" /\ update'.saved = update.saved
        /\ update'.before = update.before /\ update'.ran = update.ran
    BY <2>1, GotoTyped
  <2>3. /\ unpacked' \in 1..LastPackage /\ update.saved \in 0..LastEdit
        /\ \A n \in 1..unpacked : n \in 1..unpacked' /\ n < unpacked'
    <3>1. unpacked \in Nat /\ LastPackage \in Nat /\ unpacked' = unpacked + 1
      BY <2>1, PackagesCounted
    <3>2. update.saved \in 0..LastEdit
      BY DEF MinerTyped, Updates
    <3> QED
      BY <2>1, <3>1, <3>2
  <2>4. /\ staging' \in Folders /\ staging'.package = unpacked'
        /\ staging'.scripts = update.saved
    BY <2>1, <2>3 DEF Folders
  <2>5. MinerTyped'
    BY <2>1, <2>2, <2>3, <2>4 DEF MinerTyped
  <2>6. Apart' /\ InFolder' /\ Missing'
    BY <2>1, <2>2, <2>3 DEF Apart, InFolder, Missing, Fresh, Top
  <2>7. Replaced' /\ MinerRests'
    BY <2>1, <2>2 DEF Replaced, MinerRests
  <2>8. Prepared'
    BY <2>1, <2>2, <2>3, <2>4 DEF Prepared, Replaced, Apart, InFolder, Fresh
  <2> QED
    BY <2>5, <2>6, <2>7, <2>8
<1>3. CASE LockMiner
  BY <1>3 DEF LockMiner, counters, MinerTyped, Apart, InFolder, Missing, Prepared, Replaced,
              MinerRests, Fresh, Top, Updates, Folders
<1>4. CASE Halt
  <2>1. /\ update.at = "locked" /\ miner' = 0 /\ Goto("stopped")
        /\ UNCHANGED <<current, backups, failed, staging, counters>>
    BY <1>4 DEF Halt
  <2>2. /\ update' \in Updates /\ update'.at = "stopped" /\ update'.saved = update.saved
        /\ update'.before = update.before /\ update'.ran = update.ran
    BY <2>1, GotoTyped
  <2>3. miner' \in 0..LastPackage
    BY <2>1, PackagesCounted
  <2>4. MinerTyped'
    BY <2>1, <2>2, <2>3 DEF MinerTyped, counters
  <2>5. Apart' /\ InFolder' /\ Missing'
    BY <2>1, <2>2 DEF Apart, InFolder, Missing, Fresh, Top, counters
  <2>6. Prepared' /\ Replaced' /\ MinerRests'
    BY <2>1, <2>2 DEF Prepared, Replaced, MinerRests, Fresh, counters
  <2> QED
    BY <2>4, <2>5, <2>6
<1> QED
  BY <1>1, <1>2, <1>3, <1>4

LEMMA MovesKeep ==
  ASSUME MinerInv, (\E ok \in BOOLEAN : MoveAway(ok)) \/ PlaceFolder
  PROVE  MinerInv'
<1> USE DEF MinerInv
<1>1. ASSUME MoveAway(TRUE)
      PROVE  MinerInv'
  <2>1. /\ update.at = "stopped" /\ Goto("moved")
        /\ backups' = backups \cup {current} /\ current' = NoFolder
        /\ UNCHANGED <<failed, staging, miner, counters>>
    BY <1>1 DEF MoveAway
  <2>2. /\ update' \in Updates /\ update'.at = "moved" /\ update'.saved = update.saved
        /\ update'.before = update.before /\ update'.ran = update.ran
    BY <2>1, GotoTyped
  <2>3. /\ current # NoFolder /\ current.package = update.before
        /\ current.package \in 1..unpacked /\ Fresh(current)
        /\ \A f \in backups : f.package < current.package
    BY <2>1 DEF Replaced, InFolder
  <2>4. NoFolder \in Folders /\ NoFolder.package = 0
    BY PackagesCounted DEF NoFolder, Folders
  <2>5. MinerTyped'
    BY <2>1, <2>2, <2>4 DEF MinerTyped, counters
  <2>6. \A f \in backups' : f.package <= current.package
    BY <2>1, <2>3, PackagesCounted, BackupCounted
  <2>7. Apart'
    BY <2>1, <2>3, PackagesCounted, BackupCounted DEF Apart, counters
  <2>8. \E f \in backups' : f.package = update'.before /\ Top(f)' /\ Fresh(f)'
    BY <2>1, <2>2, <2>3, <2>6 DEF Top, Fresh, counters
  <2>9. InFolder' /\ Missing' /\ Replaced'
    BY <2>1, <2>2, <2>8 DEF InFolder, Missing, Replaced
  <2>10. Prepared'
    BY <2>1, <2>2, <2>4, PackagesCounted DEF Prepared, Fresh, counters
  <2>11. MinerRests'
    BY <2>1, <2>2 DEF MinerRests
  <2> QED
    BY <2>5, <2>7, <2>9, <2>10, <2>11
<1>2. ASSUME MoveAway(FALSE)
      PROVE  MinerInv'
  <2>1. /\ update.at = "stopped" /\ Goto("restart")
        /\ UNCHANGED <<current, backups, failed, staging, miner, counters>>
    BY <1>2 DEF MoveAway
  <2>2. /\ update' \in Updates /\ update'.at = "restart"
        /\ update'.before = update.before
    BY <2>1, GotoTyped
  <2>3. MinerTyped' /\ Apart' /\ InFolder' /\ Missing'
    BY <2>1, <2>2 DEF MinerTyped, Apart, InFolder, Missing, Fresh, Top, counters
  <2>4. Prepared' /\ Replaced' /\ MinerRests'
    BY <2>1, <2>2 DEF Prepared, Replaced, MinerRests
  <2> QED
    BY <2>3, <2>4
<1>3. CASE PlaceFolder
  <2>1. /\ update.at = "moved" /\ Goto("placed") /\ current' = staging /\ staging' = NoFolder
        /\ UNCHANGED <<backups, failed, miner, counters>>
    BY <1>3 DEF PlaceFolder
  <2>2. /\ update' \in Updates /\ update'.at = "placed"
        /\ update'.before = update.before
    BY <2>1, GotoTyped
  <2>3. /\ Fresh(staging) /\ staging.package = unpacked /\ miner = 0
        /\ \A f \in backups : f.package < unpacked
    BY <2>1 DEF Prepared, MinerRests
  <2>4. /\ staging # NoFolder /\ staging.package \in 1..unpacked
        /\ NoFolder \in Folders
    BY <2>3, PackagesCounted DEF NoFolder, Folders
  <2>5. MinerTyped' /\ Apart'
    BY <2>1, <2>2, <2>4 DEF MinerTyped, Apart, counters
  <2>6. InFolder' /\ Missing'
    BY <2>1, <2>3, <2>4 DEF InFolder, Missing, Fresh, counters
  <2>7. Replaced'
    BY <2>1, <2>2, <2>4 DEF Replaced, Fresh, Top, counters
  <2>8. Prepared' /\ MinerRests'
    BY <2>1, <2>2, <2>3 DEF Prepared, MinerRests
  <2> QED
    BY <2>5, <2>6, <2>7, <2>8
<1> QED
  BY <1>1, <1>2, <1>3

\* The package that was replaced is put back.
LEMMA PutBackKeeps ==
  ASSUME MinerInv, update.at \in {"moved", "placed", "roll back"},
         current' = Old, backups' = backups \ {Old}, failed' \in SUBSET Folders,
         Goto("restart"), UNCHANGED <<staging, miner, unpacked, edits, hasty, torn>>
  PROVE  MinerInv'
<1> USE DEF MinerInv
<1>1. /\ update' \in Updates /\ update'.at = "restart" /\ update'.before = update.before
  BY GotoTyped
<1>2. /\ Old \in Folders /\ Old # NoFolder /\ Old.package = update.before /\ Fresh(Old)
      /\ Old.package \in 1..unpacked /\ \A f \in backups \ {Old} : f.package < Old.package
  BY OldIsNewest
<1>3. MinerTyped'
  BY <1>1, <1>2 DEF MinerTyped
<1>4. Apart' /\ InFolder' /\ Missing'
  BY <1>2 DEF Apart, InFolder, Missing, Fresh
<1>5. Prepared' /\ Replaced'
  BY <1>1, <1>2 DEF Prepared, Replaced
<1>6. MinerRests'
  BY <1>1 DEF MinerRests
<1> QED
  BY <1>3, <1>4, <1>5, <1>6

LEMMA FailuresKeep ==
  ASSUME MinerInv, (\E ok \in BOOLEAN : PlaceFails(ok)) \/ StartNewFails \/ RollBackFolder
  PROVE  MinerInv'
<1> USE DEF MinerInv
<1>1. ASSUME PlaceFails(TRUE)
      PROVE  MinerInv'
  BY <1>1, PutBackKeeps DEF PlaceFails, MinerTyped
<1>2. ASSUME PlaceFails(FALSE)
      PROVE  MinerInv'
  <2>1. /\ update.at = "moved" /\ Goto("restart") /\ torn' = TRUE
        /\ UNCHANGED <<current, backups, failed, staging, miner, unpacked, edits, hasty>>
    BY <1>2 DEF PlaceFails
  <2>2. update' \in Updates /\ update'.at = "restart" /\ current = NoFolder
    BY <2>1, GotoTyped DEF Replaced
  <2>3. MinerTyped' /\ Apart' /\ InFolder' /\ Missing'
    BY <2>1, <2>2 DEF MinerTyped, Apart, InFolder, Missing, Fresh, Top
  <2>4. Prepared' /\ Replaced' /\ MinerRests'
    BY <2>1, <2>2 DEF Prepared, Replaced, MinerRests
  <2> QED
    BY <2>3, <2>4
<1>3. CASE StartNewFails
  <2>1. /\ update.at = "placed" /\ Goto("roll back")
        /\ UNCHANGED <<current, backups, failed, staging, miner, counters>>
    BY <1>3 DEF StartNewFails
  <2>2. update' \in Updates /\ update'.at = "roll back" /\ update'.before = update.before
    BY <2>1, GotoTyped
  <2>3. MinerTyped' /\ Apart' /\ InFolder' /\ Missing'
    BY <2>1, <2>2 DEF MinerTyped, Apart, InFolder, Missing, Fresh, Top, counters
  <2>4. Prepared' /\ Replaced' /\ MinerRests'
    BY <2>1, <2>2 DEF Prepared, Replaced, MinerRests, Fresh, Top, counters
  <2> QED
    BY <2>3, <2>4
<1>4. CASE RollBackFolder
  <2>1. /\ update.at = "roll back" /\ Goto("restart") /\ failed \cup {current} \in SUBSET Folders
        /\ UNCHANGED <<staging, miner, unpacked, edits, hasty>>
    BY <1>4 DEF RollBackFolder, MinerTyped
  <2>2. update' \in Updates /\ update'.at = "restart" /\ update'.before = update.before
    BY <2>1, GotoTyped
  <2>3. \E f \in backups : f.package = update.before /\ Top(f) /\ Fresh(f)
    BY <2>1 DEF Replaced
  <2>4. CASE /\ current' = Old /\ backups' = backups \ {Old}
             /\ failed' = failed \cup {current} /\ torn' = torn
    BY <2>1, <2>4, PutBackKeeps
  <2>5. CASE UNCHANGED <<current, backups, failed, torn>>
    <3>1. MinerTyped' /\ Apart' /\ InFolder' /\ Missing'
      BY <2>1, <2>2, <2>5 DEF MinerTyped, Apart, InFolder, Missing, Fresh, Top
    <3>2. Prepared' /\ Replaced' /\ MinerRests'
      BY <2>1, <2>2, <2>3, <2>5 DEF Prepared, Replaced, MinerRests, Top
    <3> QED
      BY <3>1, <3>2
  <2>6. CASE /\ current' = NoFolder /\ failed' = failed \cup {current} /\ torn' = TRUE
             /\ UNCHANGED backups
    <3>1. NoFolder \in Folders
      BY PackagesCounted DEF NoFolder, Folders
    <3>2. MinerTyped' /\ Apart'
      BY <2>1, <2>2, <2>6, <3>1 DEF MinerTyped, Apart
    <3>3. InFolder' /\ Missing'
      BY <2>1, <2>3, <2>6 DEF InFolder, Missing, Fresh, Top
    <3>4. Prepared' /\ Replaced' /\ MinerRests'
      BY <2>1, <2>2, <2>6 DEF Prepared, Replaced, MinerRests
    <3> QED
      BY <3>2, <3>3, <3>4
  <2> QED
    BY <1>4, <2>4, <2>5, <2>6 DEF RollBackFolder
<1> QED
  BY <1>1, <1>2, <1>3, <1>4

\* An update that ends prunes, but not the backup that counts.
LEMMA LeaveKeeps ==
  ASSUME MinerInv, Leave, update.at # "moved", miner' \in 0..LastPackage,
         miner' \in {0, current.package}
  PROVE  MinerInv'
<1> USE DEF MinerInv
<1>1. /\ update' = NoUpdate /\ staging' = NoFolder
      /\ backups' \subseteq backups /\ failed' \subseteq failed
      /\ \A f \in backups : Top(f) => f \in backups'
      /\ UNCHANGED <<current, counters>>
  BY NewestKept DEF Leave, PrunedFolders
<1>2. /\ NoUpdate \in Updates /\ update'.at = "none" /\ NoFolder \in Folders
  BY <1>1, PackagesCounted DEF NoUpdate, Updates, NoFolder, Folders
<1>3. MinerTyped'
  BY <1>1, <1>2 DEF MinerTyped, counters
<1>4. Apart' /\ InFolder'
  BY <1>1 DEF Apart, InFolder, Fresh, counters
<1>5. Missing'
  BY <1>1 DEF Missing, Top, Fresh, counters
<1>6. Prepared' /\ Replaced' /\ MinerRests'
  BY <1>1, <1>2 DEF Prepared, Replaced, MinerRests
<1> QED
  BY <1>3, <1>4, <1>5, <1>6

LEMMA EndsKeep ==
  ASSUME MinerInv,
         RefuseUpdate \/ HaltFails \/ StartNew \/ \E ok \in BOOLEAN : StartAgain(ok)
  PROVE  MinerInv'
<1>1. /\ miner \in 0..LastPackage /\ current.package \in 0..LastPackage /\ 0 \in 0..LastPackage
      /\ miner \in {0, current.package}
  BY MinerCounted
<1>2. Leave /\ update.at # "moved" /\ miner' \in {miner, 0, current.package}
  BY DEF RefuseUpdate, HaltFails, StartNew, StartAgain
<1> QED
  BY <1>1, <1>2, LeaveKeeps

LEMMA AroundKeeps ==
  ASSUME MinerInv,
         BeginUpdate \/ StartMiner \/ MinerStops \/ EditScripts \/ AgentDies \/ Repair
  PROVE  MinerInv'
<1> USE DEF MinerInv
<1>1. CASE BeginUpdate
  <2>1. /\ update.at = "none" /\ current # NoFolder
        /\ update' = [NoUpdate EXCEPT !.at = "begun", !.before = current.package]
        /\ backups' \subseteq backups /\ failed' \subseteq failed
        /\ UNCHANGED <<current, staging, miner, counters>>
    BY <1>1, NewestKept DEF BeginUpdate, PrunedFolders
  <2>2. update' = [at |-> "begun", saved |-> 0, before |-> current.package, ran |-> FALSE]
    BY <2>1 DEF NoUpdate
  <2>3. /\ update' \in Updates /\ update'.at = "begun" /\ update'.before = current.package
        /\ update'.ran = FALSE
    BY <2>2, MinerCounted DEF Updates
  <2>4. MinerTyped' /\ Apart' /\ InFolder' /\ Missing'
    BY <2>1, <2>3 DEF MinerTyped, Apart, InFolder, Missing, Fresh, counters
  <2>5. Prepared' /\ Replaced' /\ MinerRests'
    BY <2>1, <2>3 DEF Prepared, Replaced, MinerRests
  <2> QED
    BY <2>4, <2>5
<1>2. CASE StartMiner \/ MinerStops
  <2>1. /\ UNCHANGED <<current, backups, failed, staging, update, counters>>
        /\ miner' \in {0, current.package}
        /\ update.at \in {"stopped", "moved", "placed", "roll back", "restart"} => miner' = 0
    BY <1>2 DEF StartMiner, MinerStops, MinerRests
  <2>2. miner' \in 0..LastPackage
    BY <2>1, MinerCounted
  <2>3. MinerTyped' /\ Apart' /\ InFolder' /\ Missing'
    BY <2>1, <2>2 DEF MinerTyped, Apart, InFolder, Missing, Fresh, Top, counters
  <2>4. Prepared' /\ Replaced' /\ MinerRests'
    BY <2>1 DEF Prepared, Replaced, MinerRests, Fresh, Top, counters
  <2> QED
    BY <2>3, <2>4
<1>3. CASE EditScripts
  <2>1. /\ current # NoFolder /\ edits' = edits + 1 /\ edits < LastEdit
        /\ current' = [current EXCEPT !.scripts = edits']
        /\ hasty' = (update.at \notin {"none", "begun"})
        /\ UNCHANGED <<backups, failed, staging, miner, update, unpacked, torn>>
    BY <1>3 DEF EditScripts
  <2>2. edits' \in 0..LastEdit
    BY <2>1, PackagesCounted DEF MinerTyped
  <2>3. current' \in Folders /\ current'.package = current.package /\ current'.scripts = edits'
    BY <2>1, <2>2 DEF MinerTyped, Folders
  <2>4. current.package \in 1..unpacked /\ current' # NoFolder
    BY <2>1, <2>3 DEF InFolder, NoFolder
  <2>5. MinerTyped' /\ Apart'
    BY <2>1, <2>2, <2>3 DEF MinerTyped, Apart
  <2>6. InFolder' /\ Missing'
    BY <2>1, <2>3, <2>4 DEF InFolder, Missing, Fresh
  <2>7. Prepared' /\ Replaced' /\ MinerRests'
    BY <2>1, <2>3, <2>4 DEF Prepared, Replaced, MinerRests, Fresh, Top
  <2> QED
    BY <2>5, <2>6, <2>7
<1>4. CASE AgentDies
  <2>1. /\ update' = NoUpdate /\ staging' = NoFolder
        /\ torn' = (torn \/ update.at = "moved")
        /\ UNCHANGED <<current, backups, failed, miner, unpacked, edits, hasty>>
    BY <1>4 DEF AgentDies
  <2>2. NoUpdate \in Updates /\ update'.at = "none" /\ NoFolder \in Folders
    BY <2>1, PackagesCounted DEF NoUpdate, Updates, NoFolder, Folders
  <2>3. MinerTyped' /\ Apart' /\ InFolder' /\ Missing'
    BY <2>1, <2>2 DEF MinerTyped, Apart, InFolder, Missing, Fresh, Top
  <2>4. Prepared' /\ Replaced' /\ MinerRests'
    BY <2>1, <2>2 DEF Prepared, Replaced, MinerRests
  <2> QED
    BY <2>3, <2>4
<1>5. CASE Repair
  <2>1. PICK f \in backups :
          /\ \A g \in backups : g.package <= f.package
          /\ current' = f /\ backups' = backups \ {f}
    BY <1>5 DEF Repair
  <2>2. /\ current = NoFolder /\ update.at = "none" /\ torn' = FALSE
        /\ UNCHANGED <<failed, staging, miner, update, unpacked, edits, hasty>>
    BY <1>5 DEF Repair
  <2>3. f \in Folders /\ f.package \in Nat /\ f # NoFolder /\ f.package \in 1..unpacked
    BY BackupCounted DEF NoFolder, Apart
  <2>4. PICK g \in backups : Top(g) /\ Fresh(g)
    BY <2>2 DEF Missing
  <2>5. g = f
    <3>1. g.package \in Nat /\ g.package <= f.package /\ f.package <= g.package
      BY <2>1, <2>4, BackupCounted DEF Top
    <3>2. g.package = f.package
      BY <2>3, <3>1
    <3> QED
      BY <3>2 DEF Apart
  <2>6. ASSUME NEW h \in backups \ {f}
        PROVE  h.package < f.package
    <3>1. h.package \in Nat /\ h.package <= f.package /\ h.package # f.package
      BY <2>1, BackupCounted DEF Apart
    <3> QED
      BY <2>3, <3>1
  <2>7. MinerTyped' /\ Apart'
    BY <2>1, <2>2, <2>3 DEF MinerTyped, Apart
  <2>8. InFolder' /\ Missing'
    BY <2>1, <2>2, <2>3, <2>4, <2>5, <2>6 DEF InFolder, Missing, Fresh
  <2>9. Prepared' /\ Replaced' /\ MinerRests'
    BY <2>2 DEF Prepared, Replaced, MinerRests, NoFolder
  <2> QED
    BY <2>7, <2>8, <2>9
<1> QED
  BY <1>1, <1>2, <1>3, <1>4, <1>5

LEMMA MinerKept ==
  ASSUME MinerInv, [MinerNext]_minerVars
  PROVE  MinerInv'
<1>1. CASE UNCHANGED minerVars
  BY <1>1 DEF minerVars, counters, MinerInv, MinerTyped, Apart, InFolder, Missing, Prepared,
              Replaced, MinerRests, Fresh, Top
<1>2. CASE MinerNext
  BY <1>2, PreparesKeep, MovesKeep, FailuresKeep, EndsKeep, AroundKeeps DEF MinerNext
<1> QED
  BY <1>1, <1>2
-----------------------------------------------------------------------------
\* The package that was to be replaced is in the folder, or in the backup that is kept.
LEMMA ReplacedIsKept ==
  ASSUME MinerInv, update.at # "none", update.at # "moved", current # NoFolder,
         current' = current, backups' \subseteq backups,
         \A f \in backups : Top(f) => f \in backups'
  PROVE  \E f \in backups' \cup {current'} : f.package = update.before
<1>1. update.at \in {"begun", "saved", "staged", "locked", "stopped", "placed",
                     "roll back", "restart"}
  BY DEF MinerInv, MinerTyped, Updates
<1>2. current.package = update.before \/ \E f \in backups : f.package = update.before /\ Top(f)
  BY <1>1 DEF MinerInv, Replaced
<1> QED
  BY <1>2

LEMMA EndsOnlySo ==
  ASSUME MinerInv, MinerNext, update.at # "none", update'.at = "none"
  PROVE  \/ RefuseUpdate \/ HaltFails \/ StartNew \/ AgentDies
         \/ \E ok \in BOOLEAN : StartAgain(ok)
<1>1. update \in Updates
  BY DEF MinerInv, MinerTyped
<1>2. ~BeginUpdate /\ ~StartMiner /\ ~MinerStops /\ ~EditScripts /\ ~Repair
  BY DEF BeginUpdate, StartMiner, MinerStops, EditScripts, Repair
<1>3. \A at \in {"staged", "stopped", "moved", "placed", "roll back", "restart"} : ~Goto(at)
  BY GotoTyped
<1>4. ~Unpack /\ ~Halt /\ ~PlaceFolder /\ ~StartNewFails /\ ~RollBackFolder
  BY <1>3 DEF Unpack, Halt, PlaceFolder, StartNewFails, RollBackFolder
<1>5. \A ok \in BOOLEAN : ~MoveAway(ok) /\ ~PlaceFails(ok)
  BY <1>3 DEF MoveAway, PlaceFails
<1>6. ~Collect /\ ~LockMiner
  BY <1>1 DEF Collect, LockMiner, Updates
<1> QED
  BY <1>2, <1>4, <1>5, <1>6 DEF MinerNext

LEMMA UpdateEnds ==
  ASSUME MinerInv, MinerInv', MinerNext
  PROVE  UpdateSettled
<1> SUFFICES ASSUME update.at # "none", update'.at = "none"
             PROVE  UpdateSettled
  BY DEF UpdateSettled
<1>1. \/ RefuseUpdate \/ HaltFails \/ StartNew \/ AgentDies
      \/ \E ok \in BOOLEAN : StartAgain(ok)
  BY EndsOnlySo
<1>2. current' = NoFolder => torn'
  BY DEF MinerInv, Missing
<1>3. current' # NoFolder =>
        (hasty' \/ current'.scripts = edits') /\ miner' \in {0, current'.package}
  BY DEF MinerInv, InFolder, Fresh, MinerRests
<1>4. current' = current
  BY <1>1 DEF RefuseUpdate, HaltFails, StartNew, AgentDies, StartAgain, Leave
<1>5. current # NoFolder => update.at # "moved"
  BY DEF MinerInv, Replaced
<1>6. backups' \subseteq backups /\ \A f \in backups : Top(f) => f \in backups'
  <2>1. CASE AgentDies
    BY <2>1 DEF AgentDies
  <2>2. CASE Leave
    BY <2>2, NewestKept DEF Leave, PrunedFolders
  <2> QED
    BY <1>1, <2>1, <2>2 DEF RefuseUpdate, HaltFails, StartNew, StartAgain
<1>7. current' # NoFolder => \E f \in backups' \cup {current'} : f.package = update.before
  BY <1>4, <1>5, <1>6, ReplacedIsKept
<1>8. update.ran /\ miner' = 0 => HaltFails \/ StartAgain(FALSE) \/ AgentDies
  <2> SUFFICES ASSUME update.ran
               PROVE  miner' # 0 \/ HaltFails \/ StartAgain(FALSE) \/ AgentDies
    OBVIOUS
  <2>1. ~RefuseUpdate
    BY DEF RefuseUpdate, MinerInv, MinerRests
  <2>2. current # NoFolder => current.package # 0
    BY PackagesCounted DEF MinerInv, InFolder
  <2>3. CASE StartNew
    BY <2>2, <2>3 DEF StartNew, MinerInv, Replaced
  <2>4. CASE StartAgain(TRUE)
    BY <2>2, <2>4 DEF StartAgain
  <2> QED
    BY <1>1, <2>1, <2>3, <2>4
<1> QED
  BY <1>2, <1>3, <1>7, <1>8 DEF UpdateSettled

\* However an update ends, there is a folder unless it was torn, with the operator's last
\* scripts unless they came too late, the replaced package is in it or in a backup, and the
\* miner runs it again unless stopping it, starting it again or the agent failed.
THEOREM UpdatesSettle == MinerSpec => UpdateSettles
<1>1. MinerInit => MinerInv
  BY MinerStarts
<1>2. MinerInv /\ [MinerNext]_minerVars => MinerInv'
  BY MinerKept
<1>3. MinerInv /\ MinerInv' /\ [MinerNext]_minerVars => [UpdateSettled]_minerVars
  BY UpdateEnds
<1> QED
  BY <1>1, <1>2, <1>3, PTL DEF MinerSpec, UpdateSettles
=============================================================================
