-------------------------- MODULE SuggestionBoard --------------------------
(***************************************************************************)
(* A feature suggestion: its draft in the author's tabs, the scans of its  *)
(* attachments by VirusTotal and the decision of an administrator          *)
(* (internal/store/feature_suggestions.go, internal/gateway/suggestions.go *)
(* and admin.go).                                                          *)
(*                                                                         *)
(* An attachment is its position: the index of a link, or the JSON file.   *)
(* What stands at a position cannot change once the suggestion is          *)
(* submitted, and until then every save replaces the attachments.          *)
(* attempt_count is left out: only a retry by hand raises it again, and    *)
(* the limit is 100.                                                       *)
(***************************************************************************)
EXTENDS Naturals

CONSTANTS
  Places,     \* positions an attachment can have
  Scanners,   \* runs of refreshFeatureSuggestionScans, each with its lease token
  MaxRetries, \* bound: repeated scans
  NoToken     \* no lease token, no scanner's work

VARIABLES
  idea,     \* feature_suggestions: status, scan_status, the attachments
  scan,     \* feature_suggestion_scans by position; status "none" where there is no row
  post,     \* a POST /suggestions between its two transactions: what its form had
  scanner,  \* each scanner's work
  retries,
  passed,   \* history: positions whose scan completed without a detection
  crossed   \* history: attachments that another tab saved between the two
            \* transactions, and that the form which is submitted does not have
boardVars == <<idea, scan, post, scanner, retries, passed, crossed>>

Decided == {"accepted", "rejected"}
Statuses == {"absent", "draft", "deleted", "submitted", "scanning", "review"} \cup Decided
ScanStatuses == {"none", "queued", "scanning", "clean", "flagged", "error"}
Answers == {"queued", "in-progress", "completed", "error"}

NoScan == [status |-> "none", found |-> FALSE, asked |-> FALSE, token |-> NoToken, live |-> FALSE]
NewScan == [NoScan EXCEPT !.status = "queued"]
NoWork == [at |-> "idle", todo |-> {}, summary |-> NoToken]

BoardTypeOK ==
  /\ idea \in [status : Statuses, scans : ScanStatuses, places : SUBSET Places]
  /\ scan \in [Places -> [status : Answers \cup {"none"}, found : BOOLEAN, asked : BOOLEAN,
                          token : Scanners \cup {NoToken}, live : BOOLEAN]]
  /\ post \in {NoToken} \cup SUBSET Places
  /\ \A w \in Scanners : scanner[w].at \in {"idle", "scan", "read", "write"}
  /\ retries \in 0 .. MaxRetries /\ passed \subseteq Places /\ crossed \subseteq Places

BoardInit ==
  /\ idea = [status |-> "absent", scans |-> "none", places |-> {}]
  /\ scan = [p \in Places |-> NoScan]
  /\ post = NoToken
  /\ scanner = [w \in Scanners |-> NoWork]
  /\ retries = 0 /\ passed = {} /\ crossed = {}

-----------------------------------------------------------------------------
(* The author: handleSuggestionWrite saves the draft and then submits it.  One post  *)
(* that submits is followed; other tabs save and delete the draft meanwhile.         *)

\* CreateFeatureSuggestionDraft or UpdateFeatureSuggestionDraft
Saved(places) == idea' = [status |-> "draft", scans |-> "none", places |-> places]

SaveDraft(places) ==
  /\ idea.status \in {"absent", "draft"}
  /\ Saved(places)
  /\ crossed' = IF post = NoToken THEN {} ELSE places \ post
  /\ UNCHANGED <<scan, post, scanner, retries, passed>>

Post(places) ==
  /\ post = NoToken /\ idea.status \in {"absent", "draft"}
  /\ Saved(places) /\ post' = places /\ crossed' = {}
  /\ UNCHANGED <<scan, scanner, retries, passed>>

\* suggestionScanRecords: one for every attachment the form had.
ScansFor(places) == [p \in Places |-> IF p \in places THEN NewScan ELSE NoScan]

\* SubmitFeatureSuggestion, with the scans of what this form had, whatever the draft has
\* by now; a conflict if the row is no draft any more, an error if it is deleted.
Submit ==
  /\ post # NoToken /\ post' = NoToken
  /\ IF idea.status = "draft"
     THEN /\ scan' = ScansFor(post)
          /\ idea' = [idea EXCEPT !.status = IF post = {} THEN "review" ELSE "submitted",
                                !.scans = IF post = {} THEN "none" ELSE "queued"]
     ELSE UNCHANGED <<scan, idea>>
  /\ UNCHANGED <<scanner, retries, passed, crossed>>

\* Without VirusTotal, or cut off, the draft stays saved.
StayDraft ==
  /\ post # NoToken /\ post' = NoToken
  /\ UNCHANGED <<idea, scan, scanner, retries, passed, crossed>>

\* DeleteFeatureSuggestionDraft
DeleteDraft ==
  /\ idea.status = "draft"
  /\ idea' = [status |-> "deleted", scans |-> "none", places |-> {}]
  /\ UNCHANGED <<scan, post, scanner, retries, passed, crossed>>

-----------------------------------------------------------------------------
(* refreshFeatureSuggestionScans *)

Claimable ==
  {p \in Places : /\ idea.status \in {"submitted", "scanning"}
                  /\ scan[p].status \in {"queued", "in-progress"} /\ ~scan[p].live}

\* ClaimFeatureSuggestionScans: the limit is as large as a suggestion can be.
ClaimScans(w) ==
  /\ scanner[w].at = "idle" /\ Claimable # {}
  /\ scan' = [p \in Places |-> IF p \in Claimable
                               THEN [scan[p] EXCEPT !.token = w, !.live = TRUE] ELSE scan[p]]
  /\ idea' = [idea EXCEPT !.status = "scanning", !.scans = "scanning"]
  /\ scanner' = [scanner EXCEPT ![w] = [NoWork EXCEPT !.at = "scan", !.todo = Claimable]]
  /\ UNCHANGED <<post, retries, passed, crossed>>

\* A claim that takes longer than its lease; the token stays until another claim.
LeaseExpires(p) ==
  /\ scan[p].live
  /\ scan' = [scan EXCEPT ![p].live = FALSE]
  /\ UNCHANGED <<idea, post, scanner, retries, passed, crossed>>

\* featureSuggestionURL, featureSuggestionJSON: the row has something at the position.
Stored(p) == p \in idea.places

\* SubmitURL, SubmitJSON or Analysis, and then SetFeatureSuggestionScanResult or
\* SetFeatureSuggestionScanError of the lease's holder: until it is stored nobody sees
\* the answer.  An error leaves what was found.
Scan(w, p, answer, found) ==
  /\ scanner[w].at = "scan" /\ p \in scanner[w].todo
  /\ ~Stored(p) => answer = "error"
  /\ found => answer \in {"in-progress", "completed"}
  /\ IF scan[p].token = w
     THEN /\ scan' = [scan EXCEPT ![p] =
                        [status |-> answer, token |-> NoToken, live |-> FALSE,
                         found |-> IF answer = "error" THEN scan[p].found ELSE found,
                         asked |-> scan[p].asked \/ answer # "error"]]
          /\ passed' = IF answer = "completed" /\ ~found THEN passed \cup {p} ELSE passed
     ELSE UNCHANGED <<scan, passed>>
  /\ scanner' = [scanner EXCEPT ![w].at = "read", ![w].todo = @ \ {p}]
  /\ UNCHANGED <<idea, post, retries, crossed>>

\* RefreshFeatureSuggestionStatus is one statement, which may wait for the row's lock:
\* its summary is then older than the row it writes.
Rows == {p \in Places : scan[p].status # "none"}
Failed == \E p \in Rows : scan[p].status = "error"
Completed == \A p \in Rows : scan[p].status = "completed"
Untouched == \A p \in Rows : scan[p].status = "queued" /\ ~scan[p].asked

\* Mutant of ScanStatus: whatever is not pending has been checked.
ScanStatus_NotPending ==
  IF Rows = {} THEN "none"
  ELSE IF \E p \in Rows : scan[p].found THEN "flagged"
  ELSE IF \E p \in Rows : scan[p].status \in {"queued", "in-progress"} THEN "scanning"
  ELSE "clean"

ScanStatus ==
  IF Rows = {} THEN "none"
  ELSE IF \E p \in Rows : scan[p].found THEN "flagged"
  ELSE IF Failed THEN "error"
  ELSE IF Completed THEN "clean"
  ELSE IF Untouched THEN "queued" ELSE "scanning"

Summarise(w) ==
  /\ scanner[w].at = "read"
  /\ scanner' = [scanner EXCEPT ![w].at = "write",
                    ![w].summary = [scans |-> ScanStatus, untouched |-> Untouched,
                                    ended |-> Completed \/ Failed]]
  /\ UNCHANGED <<idea, scan, post, retries, passed, crossed>>

\* What the summary makes of the status the row has now.
StatusAfter(status, summary) ==
  CASE status \in {"draft"} \cup Decided -> status
    [] status \notin {"draft"} \cup Decided /\ summary.ended -> "review"
    [] OTHER -> IF summary.untouched /\ status = "submitted" THEN "submitted" ELSE "scanning"

WriteStatus(w) ==
  LET work == scanner[w]
  IN  /\ work.at = "write"
      /\ idea' = [idea EXCEPT !.status = StatusAfter(@, work.summary), !.scans = work.summary.scans]
      /\ scanner' = [scanner EXCEPT ![w] = IF work.todo = {} THEN NoWork
                                           ELSE [NoWork EXCEPT !.at = "scan", !.todo = work.todo]]
      /\ UNCHANGED <<scan, post, retries, passed, crossed>>

\* The Gateway stops between two steps.  Its leases run out; until then all but a retry
\* waits for them, and a retry removes them.
ScannerDies(w) ==
  /\ scanner[w].at # "idle"
  /\ scanner' = [scanner EXCEPT ![w] = NoWork]
  /\ scan' = [p \in Places |-> IF scan[p].token = w
                               THEN [scan[p] EXCEPT !.token = NoToken, !.live = FALSE] ELSE scan[p]]
  /\ UNCHANGED <<idea, post, retries, passed, crossed>>

-----------------------------------------------------------------------------
(* The administrator. *)

\* RetryFeatureSuggestionScans: also of a page that shows an older status.
Retry ==
  /\ retries < MaxRetries
  /\ idea.status \in {"submitted", "scanning", "review"} /\ Rows # {}
  /\ scan' = [p \in Places |-> IF p \in Rows THEN NewScan ELSE NoScan]
  /\ idea' = [idea EXCEPT !.status = "submitted", !.scans = "queued"]
  /\ retries' = retries + 1
  /\ UNCHANGED <<post, scanner, passed, crossed>>

\* SetFeatureSuggestionDecision
Decide(decision) ==
  /\ idea.status = "review"
  /\ decision = "rejected" \/ idea.scans \in {"none", "clean"}
  /\ idea' = [idea EXCEPT !.status = decision]
  /\ UNCHANGED <<scan, post, scanner, retries, passed, crossed>>

BoardNext ==
  \/ \E places \in SUBSET Places : SaveDraft(places) \/ Post(places)
  \/ Submit \/ StayDraft \/ DeleteDraft \/ Retry
  \/ \E decision \in Decided : Decide(decision)
  \/ \E p \in Places : LeaseExpires(p)
  \/ \E w \in Scanners :
       \/ \E p \in Places, answer \in Answers, found \in BOOLEAN : Scan(w, p, answer, found)
       \/ ClaimScans(w) \/ Summarise(w) \/ WriteStatus(w) \/ ScannerDies(w)

BoardSpec == BoardInit /\ [][BoardNext]_boardVars

-----------------------------------------------------------------------------
\* A suggestion is accepted only after every scan made for it once came back without
\* a detection, whoever claimed, lost, failed, repeated or summarised the scans; and what
\* it has that was never scanned was saved by another tab while it was being submitted.
AcceptedIsClean ==
  idea.status = "accepted" => Rows \subseteq passed /\ idea.places \subseteq Rows \cup crossed
=============================================================================
