---------------------------- MODULE ComfyControl ----------------------------
(***************************************************************************)
(* ComfyUI's one queue behind its own pages: what users post to it through *)
(* the proxy, within limits, and which prompts their controls reach        *)
(* (internal/gateway/comfy_isolation.go, proxy.go, upstream_identity.go    *)
(* and content_capture.go).                                                *)
(*                                                                         *)
(* Every one of these checks compares the path of the request exactly.     *)
(* ComfyUI serves /prompt, /queue and /interrupt under /api as well, and   *)
(* what is posted there reaches it as it came: it is not admitted, counted *)
(* or narrowed to the user.                                                *)
(***************************************************************************)
EXTENDS Naturals, FiniteSets

CONSTANTS
  Prompts,     \* requests for a prompt, by the prompt each becomes
  Users, Admin,
  Owner,       \* whose session posts it
  Calls,       \* control requests at a time
  MaxQueue,    \* maxComfyQueueEntries
  MaxPerUser,  \* maxComfyQueueEntriesPerUser
  MaxWaiting,  \* maxComfyPromptAdmissionWaiters
  Around,      \* bound: the prompts that may come past the admission
  Nobody

ASSUME ControlAssumption ==
  /\ IsFiniteSet(Prompts) /\ Nobody \notin Prompts
  /\ Owner \in [Prompts -> Users] /\ Admin \in Users
  /\ MaxQueue \in Nat /\ MaxPerUser \in Nat /\ MaxWaiting \in Nat

VARIABLES
  stage,    \* each prompt in ComfyUI
  request,  \* its request in the Gateway
  queueMutex, \* comfyPromptAdmissionMu: the prompt whose request holds it
  known,    \* prompts with a row in content_events
  control,  \* each control request the Gateway filters: what it asks of ComfyUI, for whom
  unnamed,  \* prompts that do not carry their owner's client id
  stray     \* history: prompts ComfyUI took that no admission stood for
controlVars == <<stage, request, queueMutex, known, control, unnamed, stray>>

NoCall == [what |-> "nothing", user |-> Nobody, ids |-> {}]

ControlTypeOK ==
  /\ stage \in [Prompts -> {"unsent", "late", "pending", "running", "gone"}]
  /\ request \in [Prompts -> {"new", "waiting", "counted", "sent", "over"}]
  /\ queueMutex \in Prompts \cup {Nobody} /\ known \subseteq Prompts
  /\ unnamed \subseteq stray /\ stray \subseteq Prompts
  /\ control \in [Calls -> [what : {"nothing", "cancel", "delete", "interrupt"},
                            user : Users \cup {Nobody}, ids : SUBSET Prompts]]

ControlInit ==
  /\ stage = [p \in Prompts |-> "unsent"] /\ request = [p \in Prompts |-> "new"]
  /\ queueMutex = Nobody /\ known = {} /\ control = [c \in Calls |-> NoCall]
  /\ unnamed = {} /\ stray = {}

Queued == {p \in Prompts : stage[p] \in {"pending", "running"}}
Of(u) == {p \in Prompts : Owner[p] = u}

\* The prompts of ComfyUI's queue that carry the user's client id.
Named(u) == (Queued \cap Of(u)) \ unnamed

-----------------------------------------------------------------------------
(* POST /prompt: acquireComfyPromptAdmission, the proxy and the capture of the answer. *)

\* The rate limiter, or no free slot within two seconds.
Refuse(p) ==
  /\ request[p] = "new" /\ request' = [request EXCEPT ![p] = "over"]
  /\ UNCHANGED <<stage, queueMutex, known, control, unnamed, stray>>

\* acquireBoundedSlot
TakeSlot(p) ==
  /\ request[p] = "new"
  /\ Cardinality({q \in Prompts : request[q] \in {"waiting", "counted", "sent"}}) < MaxWaiting
  /\ request' = [request EXCEPT ![p] = "waiting"]
  /\ UNCHANGED <<stage, queueMutex, known, control, unnamed, stray>>

\* Mutant of QueueHasRoom: the prompt that runs is not counted.
QueueHasRoom_PendingOnly(u) ==
  LET waiting == {p \in Prompts : stage[p] = "pending"}
  IN  Cardinality(waiting) < MaxQueue /\ Cardinality(waiting \cap Named(u)) < MaxPerUser

QueueHasRoom(u) == Cardinality(Queued) < MaxQueue /\ Cardinality(Named(u)) < MaxPerUser

\* Under the mutex ComfyUI's queue is read and counted; without an answer or without
\* room the request is refused.
Count(p) ==
  /\ request[p] = "waiting" /\ queueMutex = Nobody
  /\ \/ /\ QueueHasRoom(Owner[p])
        /\ request' = [request EXCEPT ![p] = "counted"] /\ queueMutex' = p
     \/ request' = [request EXCEPT ![p] = "over"] /\ queueMutex' = Nobody
  /\ UNCHANGED <<stage, known, control, unnamed, stray>>

\* The request, now with the client id of the user who posted it, reaches ComfyUI, which
\* takes or rejects it, or the caller goes away while it is on its way.
Forward(p) ==
  /\ request[p] = "counted"
  /\ \/ /\ stage' = [stage EXCEPT ![p] = "pending"]
        /\ request' = [request EXCEPT ![p] = "sent"] /\ queueMutex' = queueMutex
     \/ \E s \in {"unsent", "late"} :
          /\ stage' = [stage EXCEPT ![p] = s]
          /\ request' = [request EXCEPT ![p] = "over"] /\ queueMutex' = Nobody
  /\ UNCHANGED <<known, control, unnamed, stray>>

\* persistContentCapture with the prompt id of the answer; the answer may be cut off or
\* the row not be stored.  Then the deferred release.
Capture(p) ==
  /\ request[p] = "sent"
  /\ known' \in {known, known \cup {p}}
  /\ request' = [request EXCEPT ![p] = "over"] /\ queueMutex' = Nobody
  /\ UNCHANGED <<stage, control, unnamed, stray>>

ArriveLate(p) ==
  /\ stage[p] = "late"
  /\ stage' = [stage EXCEPT ![p] = "pending"] /\ stray' = stray \cup {p}
  /\ UNCHANGED <<request, queueMutex, known, control, unnamed>>

\* POST /api/prompt: no admission, no client id of the Gateway's and no capture.  It names
\* its owner when the page has learned the id on its own WebSocket.
PromptAsItCame(p) ==
  /\ request[p] = "new" /\ request' = [request EXCEPT ![p] = "over"]
  /\ stage' = [stage EXCEPT ![p] = "pending"] /\ stray' = stray \cup {p}
  /\ unnamed' \in {unnamed, unnamed \cup {p}}
  /\ UNCHANGED <<queueMutex, known, control>>

-----------------------------------------------------------------------------
(* ComfyUI *)

Run(p) ==
  /\ stage[p] = "pending" /\ \A q \in Prompts : stage[q] # "running"
  /\ stage' = [stage EXCEPT ![p] = "running"]
  /\ UNCHANGED <<request, queueMutex, known, control, unnamed, stray>>

PromptEnds(p) ==
  /\ stage[p] = "running"
  /\ stage' = [stage EXCEPT ![p] = "gone"]
  /\ UNCHANGED <<request, queueMutex, known, control, unnamed, stray>>

-----------------------------------------------------------------------------
(* Controls: enforceComfyControlIsolation decides what is forwarded; it arrives later. *)

Forwarded(c, u, what, ids) ==
  /\ control' = [control EXCEPT ![c] = [what |-> what, user |-> u, ids |-> ids]]
  /\ UNCHANGED <<stage, request, queueMutex, known, unnamed, stray>>

\* ComfyPromptIDsForUser, generationOwned
Owned(u) == known \cap Of(u)

\* POST /queue of anybody: rewriteComfyQueueControl.  A clear becomes the list of the
\* user's own prompts.
QueueControl(c, u) ==
  \E ids \in {Owned(u)} \cup {asked \cap Owned(u) : asked \in SUBSET Prompts} :
    Forwarded(c, u, "delete", ids)

\* POST /api/jobs/<id>/cancel
Cancel(c, u) ==
  \E p \in IF u = Admin THEN Prompts ELSE Owned(u) : Forwarded(c, u, "cancel", {p})

\* comfyRunningJobOwnedBy
RunningOf(u) == {p \in Named(u) : stage[p] = "running"}

\* Mutant of Interrupt: after the check the request is forwarded as it came.
Interrupt_AsItCame(c, u) ==
  /\ u # Admin => RunningOf(u) # {}
  /\ Forwarded(c, u, "interrupt", {})

\* POST /interrupt: a user's becomes the cancellation of the prompt that ran when
\* the queue was read.
Interrupt(c, u) ==
  \/ u = Admin /\ Forwarded(c, u, "interrupt", {})
  \/ u # Admin /\ \E p \in RunningOf(u) : Forwarded(c, u, "cancel", {p})

Ask(c) ==
  /\ control[c] = NoCall
  /\ \E u \in Users : QueueControl(c, u) \/ Cancel(c, u) \/ Interrupt(c, u)

\* What the control removes when ComfyUI gets to it.
Removed(k) ==
  CASE k.what = "delete" -> {p \in k.ids : stage[p] = "pending"}
    [] k.what = "cancel" -> k.ids \cap Queued
    [] OTHER -> {p \in Prompts : stage[p] = "running"}

TakeOut(gone) == stage' = [p \in Prompts |-> IF p \in gone THEN "gone" ELSE stage[p]]

\* ComfyUI obeys, or the request is lost.
Act(c) ==
  /\ control[c] # NoCall
  /\ control' = [control EXCEPT ![c] = NoCall]
  /\ \E gone \in {Removed(control[c]), {}} : TakeOut(gone)
  /\ UNCHANGED <<request, queueMutex, known, unnamed, stray>>

\* POST /api/queue and /api/interrupt, of anybody: the default of the switch lets them by.
\* The Gateway decides nothing for them, so they are the one step in which ComfyUI obeys:
\* a clear is the deletion of all that waits, a list that of its members one by one.
ControlAsItCame ==
  /\ \E gone \in {{p \in Prompts : stage[p] = "pending"}} \cup {{p} : p \in Queued} :
       TakeOut(gone)
  /\ UNCHANGED <<request, queueMutex, known, control, unnamed, stray>>

ControlNext ==
  \/ \E p \in Prompts :
       \/ Refuse(p) \/ TakeSlot(p) \/ Count(p) \/ Forward(p) \/ Capture(p) \/ ArriveLate(p)
       \/ p \in Around /\ PromptAsItCame(p)
       \/ Run(p) \/ PromptEnds(p)
  \/ \E c \in Calls : Ask(c) \/ Act(c)
  \/ ControlAsItCame

ControlSpec == ControlInit /\ [][ControlNext]_controlVars

-----------------------------------------------------------------------------
\* A control at a path the Gateway filters removes prompts of the user who sent it only,
\* unless an administrator did, also when another prompt runs by the time it arrives and
\* whatever was posted beside the admission.
RemovesOwn ==
  \A c \in Calls, p \in Prompts :
    control'[c] # control[c] /\ stage'[p] # stage[p] =>
      control[c].user \in {Owner[p], Admin}
OwnControl == [][RemovesOwn]_controlVars

\* What the admission of /prompt lets into ComfyUI's queue stays within the limits of all
\* and of each user, whatever arrives late or comes past the admission beside it.
QueueBounded ==
  LET admitted == Queued \ stray
  IN  /\ Cardinality(admitted) <= MaxQueue
      /\ \A u \in Users : Cardinality(admitted \cap Of(u)) <= MaxPerUser
=============================================================================
