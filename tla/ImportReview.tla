---------------------------- MODULE ImportReview ----------------------------
(***************************************************************************)
(* The import of a PDF dataframe: the background worker, the page that     *)
(* keeps the unpublished review and the dialog it is reviewed in           *)
(* (ui/importer), over the review session (dataframe/pdf_importer/review   *)
(* and pipeline), up to DataframeService.publish_import.                   *)
(*                                                                         *)
(* Extraction is outside: a document is the rows it gave.  An import may   *)
(* finish while an older review is open, so dialogs is a stack; the page   *)
(* takes the session of a dialog when the dialog closes.                   *)
(***************************************************************************)
EXTENDS Normalisation

CONSTANTS
  Documents(_),    \* the documents the n-th import may read
  FirstProfile,    \* the profile an import starts with
  FirstWps,
  Profiles, Rates, \* what the dialog may be given
  MaxImports,
  MaxSteps         \* bound on commands of the review, and on further imports

ASSUME ProfilesAssumption == Profiles \cup {FirstProfile} \subseteq ImportProfile

VARIABLES
  worker,     \* the running import, if any
  progress,   \* whether the progress dialog shows
  inbox,      \* signals of workers not yet handled
  queue,      \* the page's session, if any
  dialogs,    \* sessions under review, the topmost last
  workspace,  \* the last published import, if any
  imports,    \* how many were started
  reported,   \* history: the imports whose end was shown
  seen,       \* history: parameters a reviewer approved or entered
  steps

page == <<worker, progress, inbox, queue, imports, reported>>
vars == <<page, dialogs, workspace, seen, steps>>

-----------------------------------------------------------------------------
(* The review session *)

ItemErrors(item) == Errors(item.findings) \cup Errors(item.issues)

\* ImportItem.needs_review and clean
ReviewNeeded(item) ==
  item.candidate = {} \/ NeedsReview(item.findings) \/ Errors(item.issues) # {}
Clean(item) == item.candidate # {} /\ ~NeedsReview(item.findings) /\ item.issues = {}

\* preview_dataframe: the parameters of the rows included, in their order,
\* each under the number of its row
Included(s) == {k \in DOMAIN s.items : ~s.items[k].excluded /\ s.items[k].candidate # {}}
Preview(s) ==
  [wps |-> s.wps,
   parameters |-> [k \in Included(s) |-> CHOOSE p \in s.items[k].candidate : TRUE]]

\* _settle
Settled(item) ==
  CASE item.state = "APPROVED" ->
         IF Errors(item.issues) = {} THEN item
         ELSE [item EXCEPT !.state = "REVIEW_REQUIRED", !.approved = "no"]
    [] item.state # "APPROVED" /\ ReviewNeeded(item) -> [item EXCEPT !.state = "REVIEW_REQUIRED"]
    [] OTHER -> [item EXCEPT !.state = "VALIDATED"]

\* revalidate: a pair's issue shows on both rows; excluded rows are left as
\* they are.
Revalidated(s) ==
  LET issues == Validate(Preview(s))
  IN  [s EXCEPT !.items = [k \in DOMAIN @ |->
         IF @[k].excluded THEN @[k] ELSE Settled([@[k] EXCEPT !.issues = Concerning(issues, s.items[k].id)])]]

\* approve
Approvable(item) == ~item.excluded /\ item.candidate # {} /\ ItemErrors(item) = {}
Approved(item, by) == [item EXCEPT !.state = "APPROVED", !.approved = by]

\* auto_approve, one row
AutoApproved(item) ==
  IF ~item.excluded /\ item.state = "VALIDATED" /\ Clean(item) THEN Approved(item, "auto") ELSE item

\* qualify_duplicate_mnemonics: by the name, or by the position among them
Qualified(items) ==
  LET named(k) == {p.name[1] : p \in items[k].candidate}
      same(k) == {j \in DOMAIN items : items[k].candidate # {} /\ named(j) = named(k)}
      of(k) == Mnemonic(items[k].raw)
      text == [k \in DOMAIN items |-> Description(items[k].raw)]
      name(k) == IF text[k] \notin {"", of(k)} THEN <<of(k), text[k], 0>>
                 ELSE <<of(k), "#", Cardinality({j \in same(k) : j <= k})>>
  IN  [k \in DOMAIN items |->
         IF Cardinality(same(k)) < 2 THEN items[k]
         ELSE [items[k] EXCEPT !.candidate = {[p EXCEPT !.name = name(k)] : p \in @},
                               !.findings = @ \cup {Information("mnemonic_qualified")}]]

\* build_session
BuildSession(number, rows, profile, wps) ==
  LET effective == Effective(rows, profile)
      item(k) ==
        LET id == <<"pdf", "", k>>
            read == Normalised(rows[k], id, effective, wps)
        IN  [id |-> id, raw |-> rows[k], candidate |-> read.parameter, findings |-> read.findings,
             issues |-> {}, state |-> "NORMALIZED", excluded |-> FALSE, approved |-> "no"]
      session == Revalidated([number |-> number, wps |-> wps, readWps |-> wps, profile |-> profile,
                              effective |-> effective,
                              items |-> Qualified([k \in DOMAIN rows |-> item(k)])])
  IN  [session EXCEPT !.items = [k \in DOMAIN @ |-> AutoApproved(@[k])]]

\* set_metadata: a rate that is not positive is refused
WithMetadata(s, wps) == IF wps > 0 THEN Revalidated([s EXCEPT !.wps = wps]) ELSE s

\* Slip: what is shown of the other rows stays as it was.
MarkedOnly(s, rows, excluded) ==
  [s EXCEPT !.items = [k \in DOMAIN @ |->
    IF k \in rows THEN [@[k] EXCEPT !.excluded = excluded] ELSE @[k]]]

\* exclude and include, row after row; rows disturb each other by warnings
\* only, so validating once is the same.
Marked(s, rows, excluded) ==
  Revalidated([s EXCEPT !.items = [k \in DOMAIN @ |->
    IF k \in rows THEN [@[k] EXCEPT !.excluded = excluded] ELSE @[k]]])

\* Slip: decisions on rows survive a change of the conventions.
Reread(s, profile) ==
  LET fresh == BuildSession(s.number, [k \in DOMAIN s.items |-> s.items[k].raw], profile, s.wps)
  IN  [fresh EXCEPT !.items = [k \in DOMAIN @ |->
         [@[k] EXCEPT !.state = s.items[k].state, !.approved = s.items[k].approved,
                      !.excluded = s.items[k].excluded]]]

\* renormalize_session: decisions and edits go, exclusions stay
Renormalised(s, profile) ==
  LET fresh == BuildSession(s.number, [k \in DOMAIN s.items |-> s.items[k].raw], profile, s.wps)
  IN  Marked(fresh, {k \in DOMAIN s.items : s.items[k].excluded}, TRUE)

\* update_candidate: an edited row without errors counts as approved
Updated(s, i, p) ==
  LET t == Revalidated([s EXCEPT !.items[i] =
             [@ EXCEPT !.candidate = {p}, !.findings = {}, !.state = "NORMALIZED",
                       !.approved = "no", !.excluded = FALSE]])
  IN  [t EXCEPT !.items[i] = IF @.state = "VALIDATED" THEN Approved(@, "edit") ELSE @]

Pending(s) == {k \in DOMAIN s.items : ~s.items[k].excluded /\ s.items[k].state # "APPROVED"}
ToPublish(s) == {k \in DOMAIN s.items : ~s.items[k].excluded /\ s.items[k].state = "APPROVED"}

-----------------------------------------------------------------------------
(* The page and its worker *)

Init ==
  /\ worker = {} /\ progress = FALSE /\ inbox = <<>> /\ queue = {} /\ dialogs = <<>>
  /\ workspace = {} /\ imports = 0 /\ reported = {} /\ seen = {} /\ steps = 0

\* import_pdf: the window takes no input while a dialog is open
StartImport(document) ==
  /\ dialogs = <<>> /\ worker = {} /\ imports < MaxImports
  /\ steps + imports <= MaxSteps /\ steps' = steps + imports
  /\ imports' = imports + 1
  /\ worker' = {[number |-> imports + 1, rows |-> document]}
  /\ progress' = TRUE
  /\ UNCHANGED <<inbox, queue, reported, dialogs, workspace, seen>>

\* Slip: an unexpected error ends the worker without a word.
KnownOnly(outcome, number) == IF outcome = "unexpected" THEN <<>> ELSE <<[outcome |-> outcome, number |-> number]>>

\* What the worker's thread signals at its end
Signalled(outcome, number) == <<[outcome |-> outcome, number |-> number]>>

\* run: finished_ok, failed, or failed by an unexpected error.  The session
\* travels with the signal.
WorkerEnds(outcome) ==
  \E w \in worker :
    /\ inbox' = inbox \o [k \in DOMAIN Signalled(outcome, w.number) |->
                            [number |-> w.number, session |->
                               IF outcome = "ok" THEN {BuildSession(w.number, w.rows, FirstProfile, FirstWps)}
                               ELSE {}]]
    /\ worker' = {}
    /\ UNCHANGED <<progress, queue, imports, reported, dialogs, workspace, seen, steps>>

\* _on_imported opens the review, on top of one that is open; or
\* _on_import_failed says why not.
Deliver ==
  /\ inbox # <<>>
  /\ LET signal == Head(inbox)
     IN  /\ inbox' = Tail(inbox)
         /\ reported' = reported \cup {signal.number}
         /\ queue' = IF signal.session = {} THEN queue ELSE signal.session
         /\ dialogs' = IF signal.session = {} THEN dialogs
                       ELSE Append(dialogs, CHOOSE s \in signal.session : TRUE)
  /\ progress' = FALSE
  /\ UNCHANGED <<worker, imports, workspace, seen, steps>>

\* open_review from the queue
OpenReview ==
  /\ dialogs = <<>>
  /\ \E s \in queue : dialogs' = <<s>>
  /\ UNCHANGED <<page, workspace, seen, steps>>

-----------------------------------------------------------------------------
(* The review dialog *)

Open == dialogs # <<>>
Top == dialogs[Len(dialogs)]
Step == Open /\ steps < MaxSteps /\ steps' = steps + 1

Shows(s) == dialogs' = [dialogs EXCEPT ![Len(dialogs)] = s]

\* _apply_filter
Shown(item, filter) ==
  CASE filter = "all" -> TRUE
    [] filter = "review" -> ~item.excluded /\ item.state = "REVIEW_REQUIRED"
    [] filter = "validated" -> ~item.excluded /\ item.state = "VALIDATED"
    [] filter = "approved" -> ~item.excluded /\ item.state = "APPROVED"
    [] filter = "excluded" -> item.excluded

Filters == {"all", "review", "validated", "approved", "excluded"}

\* selected_indexes: of the rows marked in the table, those the filter shows
Selections(s) == {rows \ {k \in rows : ~Shown(s.items[k], filter)} :
                    rows \in SUBSET DOMAIN s.items, filter \in Filters} \ {{}}

\* _approve_selected: rows that may not be approved are refused one by one
ApproveSelected(rows) ==
  LET approved == {k \in rows : Top.items[k].state # "APPROVED" /\ Approvable(Top.items[k])}
  IN  /\ Step
      /\ Shows([Top EXCEPT !.items = [k \in DOMAIN @ |->
                  IF k \in approved THEN Approved(@[k], "reviewer") ELSE @[k]]])
      /\ seen' = seen \cup UNION {{<<Top.number, p>> : p \in Top.items[k].candidate} : k \in approved}
      /\ UNCHANGED <<page, workspace>>

\* _approve_all_validated
ApproveAllValidated ==
  ApproveSelected({k \in DOMAIN Top.items : Top.items[k].state = "VALIDATED"})

\* _toggle_exclude_selected: the current row says which way
ToggleExclude(rows, current) ==
  /\ Step
  /\ Shows(Marked(Top, rows, ~Top.items[current].excluded))
  /\ UNCHANGED <<page, workspace, seen>>

\* _blank_candidate, with the row the dialog asks for
BlankCandidate(item) ==
  [id |-> item.id, name |-> Plainly(item.raw.name), source |-> item.raw.type, type |-> Canonical(item.raw.type),
   scale |-> 10, offset |-> 0, states |-> Labelled(NoLabel, NoLabel),
   occurrences |-> <<Occurrence(1, <<Segment(1, Subframes, 1, 1, WordBits, NoWeight, {})>>)>>,
   record |-> <<>>]

\* What OK in the parameter editor makes of a row: the type always follows
\* its text; a word may be another one.
Entered(item) ==
  LET p == IF item.candidate = {} THEN BlankCandidate(item) ELSE CHOOSE p \in item.candidate : TRUE
  IN  {[p EXCEPT !.type = Canonical(p.source)]}
      \cup {[p EXCEPT !.type = Canonical(p.source), !.occurrences[1].segments[1].word = 1]}

Edit(i, p) ==
  /\ Step
  /\ Shows(Updated(Top, i, p))
  /\ seen' = seen \cup {<<Top.number, p>>}
  /\ UNCHANGED <<page, workspace>>

ApplyMetadata(wps) ==
  /\ Step
  /\ Shows(WithMetadata(Top, wps))
  /\ UNCHANGED <<page, workspace, seen>>

\* _renormalize, once confirmed
Renormalise(profile, wps) ==
  /\ Step /\ wps > 0
  /\ Shows(Renormalised(WithMetadata(Top, wps), profile))
  /\ UNCHANGED <<page, workspace, seen>>

Close(q) ==
  /\ dialogs' = SubSeq(dialogs, 1, Len(dialogs) - 1)
  /\ queue' = q
  /\ UNCHANGED <<worker, progress, inbox, imports, reported, seen, steps>>

Cancel == Open /\ Close({Top}) /\ UNCHANGED workspace

\* Slip: the metadata of the form is applied after the rows were judged.
JudgedFirst(s, wps) == [s EXCEPT !.wps = IF wps > 0 THEN wps ELSE @]

\* _try_publish applies the metadata of the form first.
Judged(s, wps) == WithMetadata(s, wps)

\* publish_import takes nothing while a row is pending; the page then has no
\* session.
Publish(wps) ==
  LET s == Judged(Top, wps)
  IN  /\ Open /\ wps > 0 /\ Pending(s) = {} /\ ToPublish(s) # {}
      /\ workspace' = {[number |-> s.number, wps |-> s.wps,
                        items |-> [k \in ToPublish(s) |-> s.items[k]]]}
      /\ Close({})

PublishRefused(wps) ==
  LET s == Judged(Top, wps)
  IN  /\ Step /\ (Pending(s) # {} \/ ToPublish(s) = {})
      /\ Shows(s)
      /\ UNCHANGED <<page, workspace, seen>>

Review ==
  \/ ApproveAllValidated
  \/ \E rows \in Selections(Top) :
       \/ ApproveSelected(rows)
       \/ \E current \in rows : ToggleExclude(rows, current)
  \/ \E i \in DOMAIN Top.items : \E p \in Entered(Top.items[i]) : Edit(i, p)
  \/ \E wps \in Rates :
       \/ ApplyMetadata(wps) \/ Publish(wps) \/ PublishRefused(wps)
       \/ \E profile \in Profiles : Renormalise(profile, wps)
  \/ Cancel

Next ==
  \/ \E document \in Documents(imports + 1) : StartImport(document)
  \/ \E outcome \in {"ok", "failed", "unexpected"} : WorkerEnds(outcome)
  \/ Deliver
  \/ OpenReview
  \/ Open /\ Review

\* A worker's thread ends, and the event loop handles its signals, also that
\* of an open dialog.
Fairness == WF_vars(\E outcome \in {"ok", "failed", "unexpected"} : WorkerEnds(outcome)) /\ WF_vars(Deliver)

Spec == Init /\ [][Next]_vars /\ Fairness

-----------------------------------------------------------------------------
(* Properties *)

Sessions == queue \cup {dialogs[d] : d \in DOMAIN dialogs}

\* A row approved without a person having looked at it is what was read, but
\* for its name, and was read in the only way the document's conventions
\* leave open ("ambiguous extraction is never silently repaired",
\* normalize.py).
AutoMeansUnambiguous ==
  \A s \in Sessions : \A k \in DOMAIN s.items :
    LET item == s.items[k]
        read == Normalised(item.raw, item.id, s.effective, s.readWps)
    IN  item.approved = "auto" =>
          /\ TheOnlyReading(item.raw, item.id, s.effective, s.readWps)
          /\ \A p \in item.candidate : \E q \in read.parameter : p = [q EXCEPT !.name = p.name]

\* What a row shows, and the state it is in, is what validating the rows now
\* included would say: no decision on one row leaves another one stale.
IssuesCurrent ==
  \A d \in DOMAIN dialogs : \A k \in DOMAIN dialogs[d].items :
    LET s == dialogs[d]
        item == s.items[k]
    IN  ~item.excluded =>
          /\ item.issues = Concerning(Validate(Preview(s)), item.id)
          /\ item.state = "APPROVED" => Errors(item.issues) = {}
          /\ item.state = "VALIDATED" => ~ReviewNeeded(item)

\* What reaches the workspace has no validation error at the words per
\* subframe it is published with, and nothing pending or excluded.
PublishedWithoutErrors ==
  \A w \in workspace :
    /\ \A k \in DOMAIN w.items : ~w.items[k].excluded /\ w.items[k].candidate # {}
    /\ Errors(Validate(Preview(w))) = {}

\* A published parameter was in front of a reviewer just as it is, unless
\* its row was read without any finding to review.
SeenOrClean ==
  \A w \in workspace : \A k \in DOMAIN w.items :
    LET item == w.items[k]
    IN  \/ \E p \in item.candidate : <<w.number, p>> \in seen
        \/ item.approved = "auto" /\ ~NeedsReview(item.findings)

\* The end of every import is shown: a review opens or a message says why
\* not.
ImportReported == \A n \in 1..MaxImports : imports >= n ~> n \in reported

\* Documentation (07-pdf-import.md, decimal_comma): "Read 0,0625 as a
\* decimal".  Where the profile declares it, a resolution "a,b" of a row
\* approved as read is that decimal.
DecimalCommaRead ==
  \A s \in Sessions : \A k \in DOMAIN s.items :
    LET item == s.items[k]
        cell == item.raw.resolution
    IN  s.profile.comma /\ cell.read = "comma" /\ item.approved = "auto" =>
          \A p \in item.candidate : p.scale = 10 * cell.a + cell.b
=============================================================================
