-------------------------- MODULE GenerationDraft --------------------------
(***************************************************************************)
(* The one unfinished generation of an account, saved by every open tab    *)
(* (internal/store/generation_draft.go, gateway/generation_draft.go and    *)
(* the controller in gateway/static/generation-draft.js).                  *)
(*                                                                         *)
(* A tab saves over the revision it knows; revisions come from one         *)
(* sequence and never repeat, so a draft that was deleted and made again   *)
(* is not taken for the old one.  What a tab has read, or chosen against,  *)
(* it may replace; answers may be lost.                                    *)
(***************************************************************************)
EXTENDS Naturals, FiniteSets

CONSTANTS
  Tabs,
  LastRevision   \* bound: the sequence ends here

VARIABLES
  draft,    \* the row: its revision, 0 for none, what it holds, and whether it has expired
  sequence, \* generation_draft_revision_seq
  tab,      \* each tab's controller
  shown     \* what each tab was shown or has written itself
draftVars == <<draft, sequence, tab, shown>>

NoDraft == [revision |-> 0, content |-> 0, expired |-> FALSE]
FreshTab == [status |-> "loading", revision |-> 0, remote |-> 0, dirty |-> FALSE]

DraftInit ==
  /\ draft = NoDraft /\ sequence = 0
  /\ tab = [t \in Tabs |-> FreshTab] /\ shown = [t \in Tabs |-> {0}]

DraftTypeOK ==
  /\ draft \in [revision : 0..LastRevision, content : 0..LastRevision, expired : BOOLEAN]
  /\ sequence \in 0..LastRevision
  /\ tab \in [Tabs -> [status : {"loading", "ready", "conflict", "error"},
                       revision : 0..LastRevision, remote : 0..LastRevision, dirty : BOOLEAN]]
  /\ shown \in [Tabs -> SUBSET (0..LastRevision)]

-----------------------------------------------------------------------------
(* The table                                                                   *)

Live == draft.revision # 0 /\ ~draft.expired

\* What GenerationDraft returns: 0 for no draft, and for one that has expired.
Current == IF draft.expired THEN 0 ELSE draft.revision
CurrentContent == IF draft.expired THEN 0 ELSE draft.content

\* Mutant of NextRevision: every row counts its own revisions from one.
NextRevision_OfRow == draft.revision + 1

NextRevision == sequence + 1

\* SaveGenerationDraft accepts: a first save where nothing lives, or the live revision.
CanSave(known) == IF known = 0 THEN ~Live ELSE Live /\ draft.revision = known

-----------------------------------------------------------------------------
(* The tabs *)

\* The n-th save writes content n.
Show(t, content) == shown' = [shown EXCEPT ![t] = @ \cup {content}]

\* load: a tab with changes of its own is asked what to keep.
Load(t) ==
  /\ tab[t].status \in {"loading", "error"}
  /\ tab' = [tab EXCEPT ![t] =
       [@ EXCEPT !.remote = Current, !.revision = Current,
                 !.status = IF Current # 0 /\ tab[t].dirty THEN "conflict" ELSE "ready"]]
  /\ Show(t, CurrentContent)
  /\ UNCHANGED <<draft, sequence>>

\* markDirty
Edit(t) ==
  /\ ~tab[t].dirty
  /\ tab' = [tab EXCEPT ![t].dirty = TRUE]
  /\ UNCHANGED <<draft, sequence, shown>>

\* The answer to a save or a removal arrives, or it is lost.
Told(t, revision, dirty, heard) ==
  tab' = [tab EXCEPT ![t] =
    IF heard THEN [status |-> "ready", revision |-> revision, remote |-> revision, dirty |-> dirty]
    ELSE [@ EXCEPT !.status = "error"]]

\* The 409 of writeCurrentGenerationDraft brings what is stored now.
Conflicts(t, heard) ==
  /\ tab' = [tab EXCEPT ![t] = IF heard THEN [@ EXCEPT !.status = "conflict", !.remote = Current]
                               ELSE [@ EXCEPT !.status = "error"]]
  /\ IF heard THEN Show(t, CurrentContent) ELSE UNCHANGED shown
  /\ UNCHANGED <<draft, sequence>>

\* flush and handleGenerationDraft; the tab may have been edited since the capture.
Save(t, heard, edited) ==
  /\ tab[t].status \in {"ready", "error"} /\ tab[t].dirty /\ sequence < LastRevision
  /\ IF CanSave(tab[t].revision)
     THEN /\ draft' = [revision |-> NextRevision, content |-> sequence + 1, expired |-> FALSE]
          /\ sequence' = sequence + 1
          /\ Told(t, NextRevision, edited, heard)
          /\ Show(t, sequence + 1)
     ELSE Conflicts(t, heard)

\* remove and handleDeleteGenerationDraft
RemoveDraft(t, heard) ==
  /\ tab[t].status \in {"ready", "error"} /\ tab[t].revision # 0
  /\ IF Live /\ draft.revision = tab[t].revision
     THEN /\ draft' = NoDraft
          /\ Told(t, 0, FALSE, heard)
          /\ UNCHANGED <<sequence, shown>>
     ELSE Conflicts(t, heard)

\* The owner chooses: useRemote takes what was shown, keepLocal saves over it.
UseRemote(t) ==
  /\ tab[t].status = "conflict"
  /\ tab' = [tab EXCEPT ![t] = [@ EXCEPT !.status = "ready", !.revision = tab[t].remote, !.dirty = FALSE]]
  /\ UNCHANGED <<draft, sequence, shown>>
KeepLocal(t) ==
  /\ tab[t].status = "conflict"
  /\ tab' = [tab EXCEPT ![t] = [@ EXCEPT !.status = "ready", !.revision = tab[t].remote, !.dirty = TRUE]]
  /\ UNCHANGED <<draft, sequence, shown>>

Reload(t) ==
  /\ tab[t] # FreshTab
  /\ tab' = [tab EXCEPT ![t] = FreshTab] /\ shown' = [shown EXCEPT ![t] = {0}]
  /\ UNCHANGED <<draft, sequence>>

-----------------------------------------------------------------------------
DraftExpires ==
  /\ Live /\ draft' = [draft EXCEPT !.expired = TRUE]
  /\ UNCHANGED <<sequence, tab, shown>>

\* DeleteExpiredGenerationDrafts
DeleteExpired ==
  /\ draft.expired /\ draft' = NoDraft
  /\ UNCHANGED <<sequence, tab, shown>>

DraftNext ==
  \/ \E t \in Tabs :
       \/ Load(t) \/ Edit(t) \/ UseRemote(t) \/ KeepLocal(t) \/ Reload(t)
       \/ \E heard, edited \in BOOLEAN : Save(t, heard, edited)
       \/ \E heard \in BOOLEAN : RemoveDraft(t, heard)
  \/ DraftExpires \/ DeleteExpired

DraftSpec == DraftInit /\ [][DraftNext]_draftVars

-----------------------------------------------------------------------------
\* Only an explicit choice replaces remote work: a living draft is overwritten or
\* deleted only from a tab that was shown it or has written it.
ChosenOnly ==
  [][\A t \in Tabs : Live /\ draft' # draft /\ ~draft'.expired /\ tab'[t] # tab[t] =>
       draft.content \in shown[t]]_draftVars
=============================================================================
