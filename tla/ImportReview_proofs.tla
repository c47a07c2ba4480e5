------------------------ MODULE ImportReview_proofs ------------------------
(***************************************************************************)
(* Proofs about ImportReview, for any documents, any profiles and rates,   *)
(* and every bound on imports and steps.  Of the validator they use only   *)
(* that an error names the parameter it is about.  What a cell reads as is *)
(* left closed, save in the part about the conventions left open, which    *)
(* shows of the normaliser that a row read without a finding to review is  *)
(* read so in one way only.                                                *)
(***************************************************************************)
EXTENDS ImportReview, SequenceTheorems, TLAPS
LOCAL INSTANCE SequencesExt
LOCAL INSTANCE FiniteSetsExt

Item(id, raw, candidate, findings, issues, state, excluded, approved) ==
  [id |-> id, raw |-> raw, candidate |-> candidate, findings |-> findings, issues |-> issues,
   state |-> state, excluded |-> excluded, approved |-> approved]

Session(number, wps, readWps, profile, effective, items) ==
  [number |-> number, wps |-> wps, readWps |-> readWps, profile |-> profile,
   effective |-> effective, items |-> items]

\* The shape of a row and of a session
IsItem(x) ==
  x = Item(x.id, x.raw, x.candidate, x.findings, x.issues, x.state, x.excluded, x.approved)

AreItems(items) ==
  items = [k \in DOMAIN items |-> items[k]] /\ \A k \in DOMAIN items : IsItem(items[k])

IsSession(s) ==
  /\ s = Session(s.number, s.wps, s.readWps, s.profile, s.effective, s.items)
  /\ AreItems(s.items)

\* What IssuesCurrent asks of one row of a session
CurrentItem(s, item) ==
  ~item.excluded =>
    /\ item.issues = Concerning(Validate(Preview(s)), item.id)
    /\ item.state = "APPROVED" => Errors(item.issues) = {}
    /\ item.state = "VALIDATED" => ~ReviewNeeded(item)

Good(s) == IsSession(s) /\ \A k \in DOMAIN s.items : CurrentItem(s, s.items[k])

\* The parameter of a row is the row's own, and
Own(x) == \A p \in x.candidate : "id" \in DOMAIN p /\ p.id = x.id

\* an approved row has one, which a reviewer judged as it is or which was
\* read without a finding to review.
Judgement(x, number, judged) ==
  x.state = "APPROVED" =>
    /\ x.candidate # {}
    /\ \/ \E p \in x.candidate : <<number, p>> \in judged
       \/ x.approved = "auto" /\ ~NeedsReview(x.findings)

\* What is read of row x asks for no review, and is the row's parameter but
\* for its name.
ReadOf(x, profile, wps) ==
  LET read == Normalised(x.raw, x.id, profile, wps)
  IN  /\ ~NeedsReview(read.findings)
      /\ \A p \in x.candidate : \E q \in read.parameter : p = [q EXCEPT !.name = p.name]

\* A row approved by no one is as it was read.
AsRead(x, profile, wps) == x.approved = "auto" => ReadOf(x, profile, wps)

Grounded(s, judged) ==
  /\ s.effective \in ImportProfile
  /\ \A k \in DOMAIN s.items : /\ Own(s.items[k]) /\ Judgement(s.items[k], s.number, judged)
                               /\ AsRead(s.items[k], s.effective, s.readWps)

Sound(s, judged) == Good(s) /\ Grounded(s, judged)

\* A row that was only judged again, and not approved by that
Kept(x, y) ==
  /\ y.id = x.id /\ y.raw = x.raw /\ y.candidate = x.candidate /\ y.findings = x.findings
  /\ y.approved = "auto" => x.approved = "auto"
  /\ y.state = "APPROVED" => x.state = "APPROVED" /\ y.approved = x.approved

\* What was judged of a row holds of the row it is kept as.
LEMMA KeptGrounded ==
  ASSUME NEW x, NEW y, Kept(x, y), NEW number, NEW judged
  PROVE  /\ Own(x) => Own(y)
         /\ Judgement(x, number, judged) => Judgement(y, number, judged)
         /\ \A profile, wps : AsRead(x, profile, wps) => AsRead(y, profile, wps)
<1>1. Own(x) => Own(y)
  BY DEF Kept, Own
<1>2. Judgement(x, number, judged) => Judgement(y, number, judged)
  BY DEF Kept, Judgement
<1>3. \A profile, wps : AsRead(x, profile, wps) => AsRead(y, profile, wps)
  BY DEF Kept, AsRead, ReadOf
<1>4. QED
  BY <1>1, <1>2, <1>3

-----------------------------------------------------------------------------
(* Rows *)

\* The preview depends on which rows are included and what they hold.
LEMMA PreviewSame ==
  ASSUME NEW s, NEW t, t.wps = s.wps, DOMAIN t.items = DOMAIN s.items,
         \A k \in DOMAIN s.items : /\ t.items[k].excluded = s.items[k].excluded
                                   /\ t.items[k].candidate = s.items[k].candidate
  PROVE  Preview(t) = Preview(s)
<1> DEFINE first(x) == CHOOSE p \in x.candidate : TRUE
           chosen(u) == [k \in Included(u) |-> first(u.items[k])]
<1>1. Included(t) = Included(s) /\ Included(s) \subseteq DOMAIN s.items
  BY DEF Included
<1>2. ASSUME NEW x, NEW y, x.candidate = y.candidate PROVE first(x) = first(y)
  BY <1>2
<1>3. \A u : Preview(u) = [wps |-> u.wps, parameters |-> chosen(u)]
  BY DEF Preview
<1> HIDE DEF first
<1>4. chosen(t) = chosen(s)
  BY <1>1, <1>2
<1> HIDE DEF chosen
<1>5. QED
  BY <1>3, <1>4

\* _settle changes the state only, and to one the row's issues allow.
LEMMA SettledFacts ==
  ASSUME NEW x, IsItem(x), NEW y, y = Settled(x)
  PROVE  /\ IsItem(y)
         /\ y.id = x.id /\ y.candidate = x.candidate /\ y.issues = x.issues
         /\ y.excluded = x.excluded
         /\ y.state = "APPROVED" => Errors(y.issues) = {}
         /\ y.state = "VALIDATED" => ~ReviewNeeded(y)
         /\ Kept(x, y)
<1>1. CASE x.state = "APPROVED" /\ Errors(x.issues) = {}
  <2>1. y = x
    BY <1>1 DEF Settled
  <2>2. QED
    BY <1>1, <2>1 DEF Kept
<1>2. CASE x.state = "APPROVED" /\ Errors(x.issues) # {}
  <2>1. y = [x EXCEPT !.state = "REVIEW_REQUIRED", !.approved = "no"]
    BY <1>2 DEF Settled
  <2>2. y = Item(x.id, x.raw, x.candidate, x.findings, x.issues, "REVIEW_REQUIRED", x.excluded, "no")
    BY <2>1 DEF IsItem, Item
  <2>3. QED
    BY <2>2 DEF IsItem, Item, Kept
<1>3. CASE x.state # "APPROVED" /\ ReviewNeeded(x)
  <2>1. y = [x EXCEPT !.state = "REVIEW_REQUIRED"]
    BY <1>3 DEF Settled
  <2>2. y = Item(x.id, x.raw, x.candidate, x.findings, x.issues, "REVIEW_REQUIRED", x.excluded,
                 x.approved)
    BY <2>1 DEF IsItem, Item
  <2>3. QED
    BY <2>2 DEF IsItem, Item, Kept
<1>4. CASE x.state # "APPROVED" /\ ~ReviewNeeded(x)
  <2>1. y = [x EXCEPT !.state = "VALIDATED"]
    BY <1>4 DEF Settled
  <2>2. y = Item(x.id, x.raw, x.candidate, x.findings, x.issues, "VALIDATED", x.excluded,
                 x.approved)
    BY <2>1 DEF IsItem, Item
  <2>3. /\ IsItem(y) /\ y.id = x.id /\ y.candidate = x.candidate /\ y.issues = x.issues
        /\ y.excluded = x.excluded /\ y.findings = x.findings /\ y.state = "VALIDATED"
        /\ y.raw = x.raw /\ y.approved = x.approved
    BY <2>2 DEF IsItem, Item
  <2>4. ~ReviewNeeded(y)
    BY <1>4, <2>3 DEF ReviewNeeded
  <2>5. QED
    BY <2>3, <2>4 DEF Kept
<1>5. QED
  BY <1>1, <1>2, <1>3, <1>4

\* approve
LEMMA ApprovedFacts ==
  ASSUME NEW x, IsItem(x), NEW by
  PROVE  Approved(x, by) = Item(x.id, x.raw, x.candidate, x.findings, x.issues, "APPROVED",
                                x.excluded, by)
<1> DEFINE half == [x EXCEPT !.state = "APPROVED"]
<1>1. half = Item(x.id, x.raw, x.candidate, x.findings, x.issues, "APPROVED", x.excluded,
                  x.approved)
  BY DEF IsItem, Item
<1>2. Approved(x, by) = [half EXCEPT !.approved = by]
  BY DEF Approved
<1> HIDE DEF half
<1>3. [half EXCEPT !.approved = by]
        = Item(x.id, x.raw, x.candidate, x.findings, x.issues, "APPROVED", x.excluded, by)
  BY <1>1 DEF Item
<1>4. QED
  BY <1>2, <1>3

-----------------------------------------------------------------------------
(* Sessions *)

\* A session whose rows are replaced
LEMMA WithItems ==
  ASSUME NEW s, IsSession(s), NEW items, AreItems(items), NEW t, t = [s EXCEPT !.items = items]
  PROVE  IsSession(t) /\ t.items = items /\ t.wps = s.wps /\ t.number = s.number
         /\ t.effective = s.effective /\ t.readWps = s.readWps
<1>1. t = Session(s.number, s.wps, s.readWps, s.profile, s.effective, items)
  BY DEF IsSession, Session
<1>2. QED
  BY <1>1 DEF IsSession, Session

\* revalidate leaves nothing stale.
LEMMA RevalidatedGood ==
  ASSUME NEW s, IsSession(s)
  PROVE  /\ Good(Revalidated(s))
         /\ DOMAIN Revalidated(s).items = DOMAIN s.items
         /\ Revalidated(s).number = s.number
         /\ Revalidated(s).effective = s.effective /\ Revalidated(s).readWps = s.readWps
         /\ \A k \in DOMAIN s.items : Kept(s.items[k], Revalidated(s).items[k])
<1> DEFINE issues == Validate(Preview(s))
           fresh(k) == [s.items[k] EXCEPT !.issues = Concerning(issues, s.items[k].id)]
           items == [k \in DOMAIN s.items |->
                       IF s.items[k].excluded THEN s.items[k] ELSE Settled(fresh(k))]
           t == Revalidated(s)
<1>1. t = [s EXCEPT !.items = items]
  BY DEF Revalidated
<1> HIDE DEF issues, t
<1>2. ASSUME NEW k \in DOMAIN s.items
      PROVE  /\ IsItem(items[k])
             /\ items[k].candidate = s.items[k].candidate /\ items[k].excluded = s.items[k].excluded
             /\ ~items[k].excluded =>
                  /\ items[k].issues = Concerning(issues, items[k].id)
                  /\ items[k].state = "APPROVED" => Errors(items[k].issues) = {}
                  /\ items[k].state = "VALIDATED" => ~ReviewNeeded(items[k])
             /\ Kept(s.items[k], items[k])
  <2>1. IsItem(s.items[k])
    BY DEF IsSession, AreItems
  <2>2. CASE s.items[k].excluded
    BY <2>1, <2>2 DEF Kept
  <2>3. CASE ~s.items[k].excluded
    <3>1. items[k] = Settled(fresh(k))
      BY <2>3
    <3>2. /\ IsItem(fresh(k)) /\ fresh(k).id = s.items[k].id
          /\ fresh(k).candidate = s.items[k].candidate /\ fresh(k).excluded = s.items[k].excluded
          /\ fresh(k).issues = Concerning(issues, s.items[k].id)
          /\ Kept(s.items[k], fresh(k))
      <4>1. fresh(k) = Item(s.items[k].id, s.items[k].raw, s.items[k].candidate,
                            s.items[k].findings, Concerning(issues, s.items[k].id),
                            s.items[k].state, s.items[k].excluded, s.items[k].approved)
        BY <2>1 DEF IsItem, Item
      <4> HIDE DEF fresh
      <4>2. QED
        BY <4>1 DEF IsItem, Item, Kept
    <3> HIDE DEF fresh, items
    <3>3. Kept(fresh(k), items[k])
      BY <3>1, <3>2, SettledFacts
    <3>4. Kept(s.items[k], items[k])
      BY <3>2, <3>3 DEF Kept
    <3>5. QED
      BY <3>1, <3>2, <3>4, SettledFacts
  <2>4. QED
    BY <2>2, <2>3
<1>3. DOMAIN items = DOMAIN s.items /\ items = [k \in DOMAIN items |-> items[k]]
  OBVIOUS
<1> HIDE DEF items
<1>4. AreItems(items)
  BY <1>2, <1>3 DEF AreItems
<1>5. IsSession(t) /\ t.items = items /\ t.wps = s.wps /\ t.number = s.number
      /\ t.effective = s.effective /\ t.readWps = s.readWps
  BY <1>1, <1>4, WithItems
<1>6. Preview(t) = Preview(s)
  BY <1>2, <1>3, <1>5, PreviewSame
<1>7. \A k \in DOMAIN t.items : CurrentItem(t, t.items[k])
  BY <1>2, <1>3, <1>5, <1>6 DEF CurrentItem, issues
<1>8. Good(t) /\ DOMAIN t.items = DOMAIN s.items
  BY <1>3, <1>5, <1>7 DEF Good
<1>9. \A k \in DOMAIN s.items : Kept(s.items[k], t.items[k])
  BY <1>2, <1>3, <1>5
<1>10. QED
  BY <1>5, <1>8, <1>9 DEF t

\* Nor does it take the ground from a decision.
LEMMA RevalidatedSound ==
  ASSUME NEW s, IsSession(s), NEW judged, Grounded(s, judged)
  PROVE  Sound(Revalidated(s), judged) /\ DOMAIN Revalidated(s).items = DOMAIN s.items
         /\ Revalidated(s).number = s.number
<1> DEFINE t == Revalidated(s)
<1>1. Good(t) /\ DOMAIN t.items = DOMAIN s.items /\ t.number = s.number
      /\ t.effective = s.effective /\ t.readWps = s.readWps
      /\ \A k \in DOMAIN s.items : Kept(s.items[k], t.items[k])
  BY RevalidatedGood
<1> HIDE DEF t
<1>2. Grounded(t, judged)
  BY <1>1, KeptGrounded DEF Grounded
<1>3. QED
  BY <1>1, <1>2 DEF Sound, t

\* Approving rows without errors disturbs nothing.
LEMMA ApprovingGood ==
  ASSUME NEW s, Good(s), NEW items, items = [k \in DOMAIN items |-> items[k]],
         DOMAIN items = DOMAIN s.items,
         \A k \in DOMAIN items :
           \/ items[k] = s.items[k]
           \/ /\ \E by : items[k] = Approved(s.items[k], by)
              /\ s.items[k].excluded \/ Errors(s.items[k].issues) = {},
         NEW t, t = [s EXCEPT !.items = items]
  PROVE  Good(t) /\ t.items = items /\ t.number = s.number
         /\ t.effective = s.effective /\ t.readWps = s.readWps
<1>1. ASSUME NEW k \in DOMAIN items
      PROVE  /\ IsItem(items[k])
             /\ items[k].candidate = s.items[k].candidate /\ items[k].excluded = s.items[k].excluded
             /\ items[k].id = s.items[k].id /\ items[k].issues = s.items[k].issues
             /\ \/ items[k] = s.items[k]
                \/ /\ items[k].state = "APPROVED"
                   /\ s.items[k].excluded \/ Errors(s.items[k].issues) = {}
  <2>1. IsItem(s.items[k])
    BY DEF Good, IsSession, AreItems
  <2>2. CASE items[k] = s.items[k]
    BY <2>1, <2>2
  <2>3. ASSUME NEW by, items[k] = Approved(s.items[k], by),
               s.items[k].excluded \/ Errors(s.items[k].issues) = {}
        PROVE  <1>1!2
    <3>1. items[k] = Item(s.items[k].id, s.items[k].raw, s.items[k].candidate,
                          s.items[k].findings, s.items[k].issues, "APPROVED",
                          s.items[k].excluded, by)
      BY <2>1, <2>3, ApprovedFacts
    <3>2. QED
      BY <2>3, <3>1 DEF IsItem, Item
  <2>4. QED
    BY <2>2, <2>3
<1>2. AreItems(items)
  BY <1>1 DEF AreItems
<1>3. IsSession(t) /\ t.items = items /\ t.wps = s.wps /\ t.number = s.number
      /\ t.effective = s.effective /\ t.readWps = s.readWps
  <2>1. IsSession(s)
    BY DEF Good
  <2>2. QED
    BY <1>2, <2>1, WithItems
<1>4. Preview(t) = Preview(s)
  <2>1. DOMAIN t.items = DOMAIN s.items /\ t.wps = s.wps
    BY <1>3
  <2>2. ASSUME NEW k \in DOMAIN s.items
        PROVE  /\ t.items[k].excluded = s.items[k].excluded
               /\ t.items[k].candidate = s.items[k].candidate
    BY <1>1, <1>3
  <2>3. QED
    BY <2>1, <2>2, PreviewSame
<1>5. ASSUME NEW k \in DOMAIN items PROVE CurrentItem(t, items[k])
  <2>1. CurrentItem(s, s.items[k])
    BY DEF Good
  <2>2. QED
    BY <1>1, <1>4, <2>1 DEF CurrentItem
<1>6. QED
  BY <1>3, <1>5 DEF Good

\* The ground there is for approving row x of review s
Ground(x, by, s, judged) ==
  \/ by # "auto" /\ \E p \in x.candidate : <<s.number, p>> \in judged
  \/ by = "auto" /\ ~NeedsReview(x.findings) /\ ReadOf(x, s.effective, s.readWps)

\* Row x of review s approved, with its ground
ApprovedRow(x, y, s, judged) ==
  /\ x.candidate # {} /\ (x.excluded \/ Errors(x.issues) = {})
  /\ \E by : y = Approved(x, by) /\ Ground(x, by, s, judged)

\* Nor does an approval that has its ground.
LEMMA ApprovingSound ==
  ASSUME NEW s, NEW judged, Sound(s, judged),
         NEW items, items = [k \in DOMAIN items |-> items[k]],
         DOMAIN items = DOMAIN s.items,
         \A k \in DOMAIN items :
           items[k] = s.items[k] \/ ApprovedRow(s.items[k], items[k], s, judged),
         NEW t, t = [s EXCEPT !.items = items]
  PROVE  Sound(t, judged) /\ DOMAIN t.items = DOMAIN s.items /\ t.number = s.number
<1>1. Good(s) /\ Grounded(s, judged)
  BY DEF Sound
<1>2. Good(t) /\ t.items = items /\ t.number = s.number
      /\ t.effective = s.effective /\ t.readWps = s.readWps
  <2>1. ASSUME NEW k \in DOMAIN items
        PROVE  \/ items[k] = s.items[k]
               \/ /\ \E by : items[k] = Approved(s.items[k], by)
                  /\ s.items[k].excluded \/ Errors(s.items[k].issues) = {}
    BY DEF ApprovedRow
  <2>2. QED
    BY <1>1, <2>1, ApprovingGood
<1>3. ASSUME NEW k \in DOMAIN items
      PROVE  /\ Own(items[k]) /\ Judgement(items[k], s.number, judged)
             /\ AsRead(items[k], s.effective, s.readWps)
  <2>1. /\ IsItem(s.items[k]) /\ Own(s.items[k]) /\ Judgement(s.items[k], s.number, judged)
        /\ AsRead(s.items[k], s.effective, s.readWps)
    BY <1>1 DEF Good, IsSession, AreItems, Grounded
  <2>2. CASE items[k] = s.items[k]
    BY <2>1, <2>2
  <2>3. ASSUME NEW by, items[k] = Approved(s.items[k], by), s.items[k].candidate # {},
               Ground(s.items[k], by, s, judged)
        PROVE  <1>3!2
    <3>1. items[k] = Item(s.items[k].id, s.items[k].raw, s.items[k].candidate,
                          s.items[k].findings, s.items[k].issues, "APPROVED",
                          s.items[k].excluded, by)
      BY <2>1, <2>3, ApprovedFacts
    <3>2. /\ items[k].id = s.items[k].id /\ items[k].candidate = s.items[k].candidate
          /\ items[k].findings = s.items[k].findings /\ items[k].approved = by
          /\ items[k].raw = s.items[k].raw
      BY <3>1 DEF Item
    <3>3. Own(items[k]) /\ Judgement(items[k], s.number, judged)
      BY <2>1, <2>3, <3>2 DEF Own, Judgement, Ground
    <3>4. AsRead(items[k], s.effective, s.readWps)
      BY <2>3, <3>2 DEF AsRead, ReadOf, Ground
    <3>5. QED
      BY <3>3, <3>4
  <2>4. QED
    BY <2>2, <2>3 DEF ApprovedRow
<1>4. QED
  BY <1>1, <1>2, <1>3 DEF Sound, Grounded

-----------------------------------------------------------------------------
(* What a row reads as under the conventions left open *)

\* A completion decides what is open and changes nothing else.
LEMMA CompletionFields ==
  ASSUME NEW profile \in ImportProfile, NEW p \in Completions(profile)
  PROVE  /\ p.unit = profile.unit /\ p.blankAll = profile.blankAll /\ p.zeroAll = profile.zeroAll
         /\ p.comma = profile.comma /\ p.confidence = profile.confidence
         /\ p.meaning = profile.meaning
              \/ (profile.meaning = "auto" /\ p.meaning \in {"segments", "occurrences"})
         /\ p.pair = profile.pair \/ profile.pair = "auto"
         /\ p.bits = profile.bits \/ profile.bits = "auto"
  BY DEF Completions

\* The layout of the bits is read alike, but for the warning that the
\* document does not declare it.
LEMMA BitsEither ==
  ASSUME NEW row, NEW groups, NEW repaired, NEW profile, NEW p
  PROVE  LET first == BitsAsWritten(row, groups, profile, repaired)
             second == BitsAsWritten(row, groups, p, repaired)
         IN  \/ first = second
             \/ \E x : first = {x} /\ (profile.bits # "range_per_word" => NeedsReview(x.findings))
<1> DEFINE A(f) == BitsAsWritten(row, groups, f, repaired)
           msb == row.msb.tokens
           lsb == row.lsb.tokens
           singles(tokens) == \A k \in DOMAIN tokens : Len(tokens[k]) = 1
           apart == row.bits.read = "blank" /\ Legible(row.msb, repaired) /\ Legible(row.lsb, repaired)
<1>1. CASE row.bits.read # "blank"
  <2>1. A(profile) = A(p)
    BY <1>1, Zenon DEF BitsAsWritten
  <2>2. QED
    BY <2>1
<1>2. CASE row.bits.read = "blank" /\ ~apart
  <2>1. A(profile) = {} /\ A(p) = {}
    BY <1>2 DEF BitsAsWritten
  <2>2. QED
    BY <2>1
<1>3. CASE apart /\ singles(msb) /\ singles(lsb)
  <2>1. A(profile) = A(p)
    BY <1>3, Zenon DEF BitsAsWritten
  <2>2. QED
    BY <2>1
<1>4. CASE apart /\ ~(singles(msb) /\ singles(lsb))
  <2> DEFINE noted(f) == {IF f.bits = "range_per_word" THEN Information("bits_layout")
                          ELSE Warning("bits_layout")}
  <2>1. \E layout : \/ \A f : A(f) = {}
                    \/ \A f : A(f) = Reading(layout, noted(f))
    BY <1>4, Zenon DEF BitsAsWritten
  <2> HIDE DEF A
  <2>2. CASE \A f : A(f) = {}
    BY <2>2 DEF A
  <2>3. ASSUME NEW layout, \A f : A(f) = Reading(layout, noted(f)) 
        PROVE  \E x : A(profile) = {x} /\ (profile.bits # "range_per_word" => NeedsReview(x.findings))
    <3> DEFINE x == [value |-> layout, findings |-> noted(profile)]
    <3>1. A(profile) = {x}
      BY <2>3 DEF Reading
    <3>2. profile.bits # "range_per_word" => NeedsReview(x.findings)
      BY DEF NeedsReview, Warning, Finding
    <3>3. QED
      BY <3>1, <3>2
  <2>4. QED
    BY <2>1, <2>2, <2>3 DEF A
<1>5. QED
  BY <1>1, <1>2, <1>3, <1>4

\* A reading of the bits has findings.
LEMMA BitsFindings ==
  ASSUME NEW row, NEW groups, NEW profile, NEW repaired,
         NEW x \in BitsAsWritten(row, groups, profile, repaired)
  PROVE  "findings" \in DOMAIN x
<1> DEFINE Read == BitsAsWritten(row, groups, profile, repaired)
           count == Len(FlattenSeq(groups))
           field(token) == <<Max(ToSet(token)), Min(ToSet(token))>>
           msb == row.msb.tokens
           lsb == row.lsb.tokens
           plainly(fields, findings) ==
             {[value |-> Layout(specs, groups, FALSE), findings |-> findings] :
                specs \in SpreadOver(fields, count)}
<1>1. \/ Read = {}
      \/ \E fields, findings : Read = plainly(fields, findings)
      \/ \E layout, findings : Read = Reading(layout, findings)
  <2>1. CASE row.bits.read # "blank"
    <3>1. CASE ~Legible(row.bits, repaired)
      BY <2>1, <3>1, Zenon DEF BitsAsWritten
    <3>2. CASE Legible(row.bits, repaired)
      <4>1. Read = plainly([k \in DOMAIN row.bits.tokens |-> field(row.bits.tokens[k])],
                           If({row.msb.read, row.lsb.read} # {"blank"}, Information("bits_precedence")))
        BY <2>1, <3>2, Zenon DEF BitsAsWritten
      <4> HIDE DEF Read, plainly
      <4>2. QED
        BY <4>1
    <3>3. QED
      BY <3>1, <3>2
  <2>2. CASE row.bits.read = "blank"
    <3>1. CASE ~(Legible(row.msb, repaired) /\ Legible(row.lsb, repaired))
      BY <2>2, <3>1, Zenon DEF BitsAsWritten
    <3>2. CASE Legible(row.msb, repaired) /\ Legible(row.lsb, repaired)
               /\ \A tokens \in {msb, lsb} : \A k \in DOMAIN tokens : Len(tokens[k]) = 1
      <4>1. \/ Read = {}
            \/ Read = plainly([k \in DOMAIN msb |-> <<msb[k][1], lsb[k][1]>>], {})
        BY <2>2, <3>2, Zenon DEF BitsAsWritten
      <4> HIDE DEF Read, plainly
      <4>2. QED
        BY <4>1
    <3>3. CASE Legible(row.msb, repaired) /\ Legible(row.lsb, repaired)
               /\ ~\A tokens \in {msb, lsb} : \A k \in DOMAIN tokens : Len(tokens[k]) = 1
      BY <2>2, <3>3, Zenon DEF BitsAsWritten
    <3>4. QED
      BY <3>1, <3>2, <3>3
  <2>3. QED
    BY <2>1, <2>2
<1>2. x \in Read
  OBVIOUS
<1> HIDE DEF Read
<1>3. \E value, findings : x = [value |-> value, findings |-> findings]
  <2>1. CASE Read = {}
    BY <2>1, <1>2
  <2>2. ASSUME NEW fields, NEW findings, Read = plainly(fields, findings)
        PROVE  \E specs : x = [value |-> Layout(specs, groups, FALSE), findings |-> findings]
    BY <2>2, <1>2
  <2>3. ASSUME NEW layout, NEW findings, Read = Reading(layout, findings)
        PROVE  x = [value |-> layout, findings |-> findings]
    BY <2>3, <1>2 DEF Reading
  <2>4. QED
    BY <1>1, <2>1, <2>2, <2>3, Zenon
<1>4. QED
  BY <1>3

\* Where the bits are read without a warning they are read in one way.
LEMMA BitsSame ==
  ASSUME NEW row, NEW groups, NEW profile \in ImportProfile, NEW p \in Completions(profile),
         BitsRead(row, groups, profile) # {},
         ~NeedsReview((CHOOSE b \in BitsRead(row, groups, profile) : TRUE).findings)
  PROVE  BitsRead(row, groups, p) = BitsRead(row, groups, profile)
<1> DEFINE A(f, repaired) == BitsAsWritten(row, groups, f, repaired)
           misread == "misread" \in {row.msb.read, row.lsb.read, row.bits.read}
           second(f) == IF misread THEN A(f, TRUE) ELSE {}
           b == CHOOSE b \in BitsRead(row, groups, profile) : TRUE
<1>1. \A f : BitsRead(row, groups, f) = OrRepaired(A(f, FALSE), second(f), "bits_repaired")
  BY DEF BitsRead
<1>2. b \in BitsRead(row, groups, profile)
  OBVIOUS
<1>3. CASE p.bits = profile.bits
  BY <1>3, Zenon DEF BitsRead, BitsAsWritten
<1>4. CASE p.bits # profile.bits
  <2>1. profile.bits = "auto"
    BY <1>4, CompletionFields
  <2>2. \A repaired : A(profile, repaired) = A(p, repaired)
                       \/ \E x : A(profile, repaired) = {x} /\ NeedsReview(x.findings)
    BY <2>1, BitsEither
  <2> HIDE DEF A, b
  <2>3. A(profile, FALSE) = A(p, FALSE)
    <3> SUFFICES ASSUME NEW x, A(profile, FALSE) = {x}, NeedsReview(x.findings) PROVE FALSE
      BY <2>2
    <3>1. BitsRead(row, groups, profile) = {x}
      BY <1>1 DEF OrRepaired
    <3>2. QED
      BY <1>2, <3>1
  <2>4. CASE A(profile, FALSE) # {}
    BY <1>1, <2>3, <2>4 DEF OrRepaired
  <2>5. CASE A(profile, FALSE) = {} /\ ~misread
    BY <1>1, <2>3, <2>5 DEF OrRepaired
  <2>6. CASE A(profile, FALSE) = {} /\ misread
    <3> DEFINE mend(r) == [r EXCEPT !.findings = @ \cup {Warning("bits_repaired")}]
    <3>1. \A f : A(f, FALSE) = {} => BitsRead(row, groups, f) = {mend(r) : r \in A(f, TRUE)}
      BY <1>1, <2>6 DEF OrRepaired
    <3>2. b \in {mend(r) : r \in A(profile, TRUE)}
      BY <1>2, <2>6, <3>1
    <3> HIDE DEF mend
    <3>3. PICK r \in A(profile, TRUE) : b = mend(r)
      BY <3>2, Zenon
    <3>4. Warning("bits_repaired") \in b.findings
      BY <3>3, BitsFindings DEF mend, A
    <3>5. QED
      BY <3>4 DEF NeedsReview, Warning, Finding, b
  <2>7. QED
    BY <2>4, <2>5, <2>6
<1>5. QED
  BY <1>3, <1>4

\* The order of a pair only matters where a pair is read, which is a warning
\* unless it is declared.
LEMMA ConversionSame ==
  ASSUME NEW row, NEW type, NEW profile \in ImportProfile, NEW p \in Completions(profile),
         ~NeedsReview(ConversionRead(row, type, profile).findings)
  PROVE  /\ ConversionRead(row, type, p).scale = ConversionRead(row, type, profile).scale
         /\ ConversionRead(row, type, p).offset = ConversionRead(row, type, profile).offset
<1>1. p.comma = profile.comma /\ (p.pair = profile.pair \/ profile.pair = "auto")
  BY CompletionFields
<1> DEFINE r == row.resolution
           o == row.offset
           asWritten == PairRead(r.read, r.a, r.b)
           pairs == IF asWritten # {} THEN asWritten ELSE PairRead(Corrected(r.read), r.a, r.b)
           pair == CHOOSE x \in pairs : TRUE
           number(f) == NumberOrRepaired(r, f, "resolution_repaired")
           shift(f) == NumberOrRepaired(o, f, "offset_repaired")
           or(reading, default) == IF reading = {} THEN default ELSE (CHOOSE x \in reading : TRUE).value
<1>2. \A f : pairs # {} =>
        /\ ConversionRead(row, type, f).scale = IF f.pair = "resolution_offset" THEN pair[1] ELSE pair[2]
        /\ ConversionRead(row, type, f).offset = IF f.pair = "resolution_offset" THEN pair[2] ELSE pair[1]
        /\ f.pair = "auto" => Warning("resolution_pair") \in ConversionRead(row, type, f).findings
  BY DEF ConversionRead
<1>3. \A f : pairs = {} =>
        /\ ConversionRead(row, type, f).scale = or(number(f), 10)
        /\ ConversionRead(row, type, f).offset = or(shift(f), 0)
  BY DEF ConversionRead
<1>4. number(p) = number(profile) /\ shift(p) = shift(profile)
  <2>1. \A a, b, read : NumberRead(read, a, b, p) = NumberRead(read, a, b, profile)
    BY <1>1, Zenon DEF NumberRead
  <2>2. \A cell, rule : NumberOrRepaired(cell, p, rule) = NumberOrRepaired(cell, profile, rule)
    BY <2>1, Zenon DEF NumberOrRepaired
  <2>3. QED
    BY <2>2
<1> HIDE DEF pairs, pair, number, shift, or
<1>5. CASE pairs = {}
  BY <1>3, <1>4, <1>5
<1>6. CASE pairs # {} /\ p.pair = profile.pair
  BY <1>2, <1>6
<1>7. CASE pairs # {} /\ profile.pair = "auto"
  <2>1. Warning("resolution_pair") \in ConversionRead(row, type, profile).findings
    BY <1>2, <1>7
  <2>2. QED
    BY <2>1 DEF NeedsReview, Warning, Finding
<1>8. QED
  BY <1>1, <1>5, <1>6, <1>7

\* The findings about the source of a row depend on the threshold only.
LEMMA SourceSame ==
  ASSUME NEW row, NEW profile, NEW p, p.confidence = profile.confidence
  PROVE  SourceFindings(row, p) = SourceFindings(row, profile)
  BY Zenon DEF SourceFindings

\* The unit of rates is not left open.
LEMMA RateSame ==
  ASSUME NEW profile, NEW p, p.unit = profile.unit
  PROVE  Unit(p) = Unit(profile)
  BY DEF Unit

\* The subframes a row is in depend on what blank and zero mean only.
LEMMA SubframesSame ==
  ASSUME NEW cell, NEW profile, NEW p, p.blankAll = profile.blankAll, p.zeroAll = profile.zeroAll
  PROVE  SubframesRead(cell, p) = SubframesRead(cell, profile)
<1>1. \A read : SubframeField(read, cell.stated, p) = SubframeField(read, cell.stated, profile)
  BY Zenon DEF SubframeField
<1>2. SubframeField(cell.read, cell.stated, p) = SubframeField(cell.read, cell.stated, profile)
  BY <1>1
<1>3. SubframeField("plain", cell.stated, p) = SubframeField("plain", cell.stated, profile)
  BY <1>1
<1>4. QED
  BY <1>2, <1>3 DEF SubframesRead

\* A finding that needs review is one of more findings too.
LEMMA ReviewMore ==
  ASSUME NEW F, NEW G, F \subseteq G, NeedsReview(F)
  PROVE  NeedsReview(G)
  BY DEF NeedsReview

\* A warning is to be reviewed,
LEMMA WarningReviewed == \A rule : \A F : Warning(rule) \in F => NeedsReview(F)
  BY DEF NeedsReview, Warning, Finding

\* and so is an error.
LEMMA ErrorReviewed == \A rule : \A F : Error(rule) \in F => NeedsReview(F)
  BY DEF NeedsReview, Error, Finding

\* Of the meanings several words can have, the rate contradicts all but one,
\* or the reading is provisional.
LEMMA MeaningSame ==
  ASSUME NEW layout, NEW hz, NEW expected,
         NEW profile \in ImportProfile, NEW p \in Completions(profile),
         ~NeedsReview(LayoutFindings(layout, MeaningOf(layout, expected, profile), hz, expected, profile)),
         ~NeedsReview(LayoutFindings(layout, MeaningOf(layout, expected, p), hz, expected, p))
  PROVE  MeaningOf(layout, expected, p) = MeaningOf(layout, expected, profile)
<1> DEFINE count == WordCount(layout)
           several == ~Grouped(layout) /\ count # 1
<1>1. CASE ~several
  <2>1. CASE Grouped(layout)
    BY <2>1 DEF MeaningOf
  <2>2. CASE ~Grouped(layout) /\ count = 1
    BY <2>2 DEF MeaningOf
  <2>3. QED
    BY <1>1, <2>1, <2>2
<1>2. CASE several /\ p.meaning = profile.meaning
  BY <1>2 DEF MeaningOf
<1>3. CASE several /\ profile.meaning = "auto" /\ p.meaning \in {"segments", "occurrences"}
  <2>1. MeaningOf(layout, expected, p) = p.meaning
    BY <1>3 DEF MeaningOf
  <2>2. expected \in {{count}, {1}}
    <3>1. ~Provisional(layout, expected, profile)
      BY WarningReviewed DEF LayoutFindings, If
    <3>2. QED
      BY <1>3, <3>1 DEF Provisional
  <2>3. {count} # {1} /\ expected # {}
    BY <1>3, <2>2
  <2>4. MeaningOf(layout, expected, profile) = IF expected = {1} THEN "segments" ELSE "occurrences"
    BY <1>3, <2>2, <2>3 DEF MeaningOf
  <2>5. expected \in {{}, {IF p.meaning = "segments" THEN 1 ELSE count}}
    <3>1. \A meaning : meaning \in {"segments", "occurrences"} =>
            \/ expected \in {{}, {IF meaning = "segments" THEN 1 ELSE count}}
            \/ Warning("frequency") \in LayoutFindings(layout, meaning, hz, expected, p)
      BY DEF LayoutFindings, If
    <3>2. QED
      BY <1>3, <2>1, <3>1, WarningReviewed
  <2>6. QED
    BY <1>3, <2>1, <2>2, <2>3, <2>4, <2>5
<1>4. QED
  BY <1>1, <1>2, <1>3, CompletionFields

\* From one layout, two readings without a finding are one.
LEMMA BuiltSame ==
  ASSUME NEW row, NEW id, NEW type, NEW subframes, NEW layout, NEW wps, NEW findings,
         NEW profile \in ImportProfile, NEW p \in Completions(profile),
         ~NeedsReview(Built(row, id, type, subframes, layout, profile, wps, findings).findings),
         ~NeedsReview(Built(row, id, type, subframes, layout, p, wps, findings).findings)
  PROVE  Built(row, id, type, subframes, layout, p, wps, findings).parameter
           = Built(row, id, type, subframes, layout, profile, wps, findings).parameter
<1> DEFINE B(f) == Built(row, id, type, subframes, layout, f, wps, findings)
           rate(f) == FrequencyRead(row.frequency, Unit(f))
           expected(f) == UNION {WholeExpected(hz, subframes) : hz \in rate(f).value}
           meaning(f) == MeaningOf(layout, expected(f), f)
           conversion(f) == ConversionRead(row, type.type, f)
           states == StatesOf(row, type.type, layout.specs)
           found(f) == LayoutFindings(layout, meaning(f), rate(f).value, expected(f), f)
<1>1. \A f : found(f) \subseteq B(f).findings /\ conversion(f).findings \subseteq B(f).findings
  BY DEF Built
<1>2. \A f : B(f).parameter =
        {[id |-> id, name |-> Plainly(Mnemonic(row)), source |-> type.source, type |-> type.type,
          scale |-> conversion(f).scale, offset |-> conversion(f).offset, states |-> states.labels,
          occurrences |-> OccurrencesOf(layout, subframes, meaning(f)), record |-> <<>>]}
  BY DEF Built
<1>3. rate(p) = rate(profile)
  BY CompletionFields, RateSame
<1>4. expected(p) = expected(profile)
  BY <1>3
<1>5. meaning(p) = meaning(profile)
  <2>1. ~NeedsReview(found(profile)) /\ ~NeedsReview(found(p))
    BY <1>1, ReviewMore
  <2> DEFINE e == expected(profile)
             hz == rate(profile).value
  <2>2. /\ found(profile) = LayoutFindings(layout, MeaningOf(layout, e, profile), hz, e, profile)
        /\ found(p) = LayoutFindings(layout, MeaningOf(layout, e, p), hz, e, p)
    BY <1>3, <1>4
  <2> HIDE DEF e, hz, found
  <2>3. MeaningOf(layout, e, p) = MeaningOf(layout, e, profile)
    BY <2>1, <2>2, MeaningSame
  <2>4. QED
    BY <1>4, <2>3 DEF e
<1>6. conversion(p).scale = conversion(profile).scale /\ conversion(p).offset = conversion(profile).offset
  <2>1. ~NeedsReview(conversion(profile).findings)
    BY <1>1, ReviewMore
  <2>2. QED
    BY <2>1, ConversionSame
<1> HIDE DEF B, conversion, meaning, states
<1>7. B(p).parameter = B(profile).parameter
  BY <1>2, <1>5, <1>6
<1>8. QED
  BY <1>7 DEF B

\* How a row that can be read is read, cell by cell.
LEMMA ReadSteps ==
  ASSUME NEW row, NEW id, NEW profile, NEW wps,
         ~NeedsReview(Normalised(row, id, profile, wps).findings)
  PROVE  LET words == WordsRead(row.words)
             w == CHOOSE w \in words : TRUE
             subframes == SubframesRead(row.subframe, profile)
             s == CHOOSE s \in subframes : TRUE
             bits == BitsRead(row, w.value, profile)
             b == CHOOSE b \in bits : TRUE
             type == TypeRead(row.type, row.sign)
             findings == SourceFindings(row, profile) \cup type.findings
                           \cup w.findings \cup s.findings \cup b.findings
         IN  /\ Mnemonic(row) # "" /\ words # {} /\ subframes # {} /\ bits # {}
             /\ Normalised(row, id, profile, wps)
                  = Built(row, id, type, s.value, b.value, profile, wps, findings)
<1> DEFINE read == Normalised(row, id, profile, wps)
           words == WordsRead(row.words)
           w == CHOOSE w \in words : TRUE
           subframes == SubframesRead(row.subframe, profile)
           s == CHOOSE s \in subframes : TRUE
           bits == BitsRead(row, w.value, profile)
           b == CHOOSE b \in bits : TRUE
           type == TypeRead(row.type, row.sign)
           early == SourceFindings(row, profile) \cup type.findings
<1>1. ~\E rule : Error(rule) \in read.findings
  BY ErrorReviewed
<1>2. Mnemonic(row) # ""
  BY <1>1 DEF Normalised
<1>3. words # {}
  BY <1>1, <1>2 DEF Normalised
<1>4. subframes # {}
  BY <1>1, <1>2, <1>3 DEF Normalised
<1>5. bits # {}
  BY <1>1, <1>2, <1>3, <1>4 DEF Normalised
<1>6. read = Built(row, id, type, s.value, b.value, profile, wps,
                   early \cup w.findings \cup s.findings \cup b.findings)
  BY <1>2, <1>3, <1>4, <1>5 DEF Normalised
<1>7. QED
  BY <1>2, <1>3, <1>4, <1>5, <1>6

\* The findings about the cells stay with the row.
LEMMA BuiltFindings ==
  ASSUME NEW row, NEW id, NEW type, NEW subframes, NEW layout, NEW profile, NEW wps, NEW findings
  PROVE  findings \subseteq Built(row, id, type, subframes, layout, profile, wps, findings).findings
  BY DEF Built

\* A row read without a finding to review is read so in one way only.
LEMMA CleanIsTheOnlyReading ==
  ASSUME NEW row, NEW id, NEW profile \in ImportProfile, NEW wps,
         ~NeedsReview(Normalised(row, id, profile, wps).findings)
  PROVE  TheOnlyReading(row, id, profile, wps)
<1> SUFFICES ASSUME NEW p \in Completions(profile),
                    ~NeedsReview(Normalised(row, id, p, wps).findings)
             PROVE  Normalised(row, id, p, wps).parameter = Normalised(row, id, profile, wps).parameter
  BY DEF TheOnlyReading
<1> DEFINE words == WordsRead(row.words)
           w == CHOOSE w \in words : TRUE
           subframes(f) == SubframesRead(row.subframe, f)
           s(f) == CHOOSE s \in subframes(f) : TRUE
           bits(f) == BitsRead(row, w.value, f)
           b(f) == CHOOSE b \in bits(f) : TRUE
           type == TypeRead(row.type, row.sign)
           findings(f) == SourceFindings(row, f) \cup type.findings
                           \cup w.findings \cup s(f).findings \cup b(f).findings
           B(f) == Built(row, id, type, s(f).value, b(f).value, f, wps, findings(f))
<1>1. bits(profile) # {} /\ Normalised(row, id, profile, wps) = B(profile)
  BY ReadSteps
<1>2. Normalised(row, id, p, wps) = B(p)
  BY ReadSteps
<1>3. s(p) = s(profile) /\ SourceFindings(row, p) = SourceFindings(row, profile)
  BY CompletionFields, SubframesSame, SourceSame
<1>4. ~NeedsReview(b(profile).findings)
  <2>1. findings(profile) \subseteq B(profile).findings
    BY BuiltFindings
  <2>2. b(profile).findings \subseteq B(profile).findings
    BY <2>1
  <2>3. QED
    BY <1>1, <2>2, ReviewMore
<1>5. b(p) = b(profile)
  BY <1>1, <1>4, BitsSame
<1> DEFINE e == findings(profile)
           v == s(profile).value
           c == b(profile).value
<1>6. s(p).value = v /\ b(p).value = c /\ findings(p) = e
  BY <1>3, <1>5
<1> HIDE DEF s, b, findings, v, c, e, type
<1>7. /\ Normalised(row, id, profile, wps) = Built(row, id, type, v, c, profile, wps, e)
      /\ Normalised(row, id, p, wps) = Built(row, id, type, v, c, p, wps, e)
  BY <1>1, <1>2, <1>6 DEF v, c, e
<1>8. QED
  BY <1>7, BuiltSame

\* The shape of what a row is read as.
LEMMA ReadShape ==
  ASSUME NEW row, NEW id, NEW profile, NEW wps,
         NEW q \in Normalised(row, id, profile, wps).parameter
  PROVE  q = [id |-> q.id, name |-> q.name, source |-> q.source, type |-> q.type,
              scale |-> q.scale, offset |-> q.offset, states |-> q.states,
              occurrences |-> q.occurrences, record |-> q.record]
<1>1. ASSUME NEW type, NEW subframes, NEW layout, NEW findings,
             NEW x \in Built(row, id, type, subframes, layout, profile, wps, findings).parameter
      PROVE  x = [id |-> x.id, name |-> x.name, source |-> x.source, type |-> x.type,
              scale |-> x.scale, offset |-> x.offset, states |-> x.states,
              occurrences |-> x.occurrences, record |-> x.record]
  BY <1>1 DEF Built
<1>2. QED
  BY <1>1 DEF Normalised

-----------------------------------------------------------------------------
(* The operations of a session *)

\* A parameter that was read bears the identity of its row.
LEMMA NormalisedId ==
  ASSUME NEW row, NEW id, NEW profile, NEW wps,
         NEW p \in Normalised(row, id, profile, wps).parameter
  PROVE  "id" \in DOMAIN p /\ p.id = id
<1>1. ASSUME NEW type, NEW subframes, NEW layout, NEW findings,
             NEW q \in Built(row, id, type, subframes, layout, profile, wps, findings).parameter
      PROVE  "id" \in DOMAIN q /\ q.id = id
  BY <1>1 DEF Built
<1>2. \/ Normalised(row, id, profile, wps).parameter = {}
      \/ \E type, subframes, layout, findings :
           Normalised(row, id, profile, wps)
             = Built(row, id, type, subframes, layout, profile, wps, findings)
  BY ZenonT(60) DEF Normalised
<1>3. QED
  BY <1>1, <1>2

\* Row x with another name
NamedApart(x, y) ==
  /\ y.id = x.id /\ y.raw = x.raw /\ y.approved = x.approved /\ x.findings \subseteq y.findings
  /\ \A p \in y.candidate :
       p \in x.candidate \/ \E q \in x.candidate : p = [q EXCEPT !.name = p.name]

\* Names made unlike leave the rows rows.
LEMMA QualifiedItems ==
  ASSUME NEW items, AreItems(items), \A k \in DOMAIN items : Own(items[k])
  PROVE  /\ AreItems(Qualified(items)) /\ DOMAIN Qualified(items) = DOMAIN items
         /\ \A k \in DOMAIN items : /\ Own(Qualified(items)[k])
                                    /\ Qualified(items)[k].state = items[k].state
                                    /\ NamedApart(items[k], Qualified(items)[k])
<1>1. DOMAIN Qualified(items) = DOMAIN items
      /\ Qualified(items) = [k \in DOMAIN Qualified(items) |-> Qualified(items)[k]]
  BY DEF Qualified
<1>2. ASSUME NEW k \in DOMAIN items 
      PROVE  /\ IsItem(Qualified(items)[k]) /\ Own(Qualified(items)[k])
             /\ Qualified(items)[k].state = items[k].state
             /\ NamedApart(items[k], Qualified(items)[k])
  <2>1. IsItem(items[k]) /\ Own(items[k])
    BY DEF AreItems
  <2> DEFINE named(j) == {p.name[1] : p \in items[j].candidate}
             same(j) == {l \in DOMAIN items : items[j].candidate # {} /\ named(l) = named(j)}
             of(j) == Mnemonic(items[j].raw)
             text == [j \in DOMAIN items |-> Description(items[j].raw)]
             name(j) == IF text[j] \notin {"", of(j)} THEN <<of(j), text[j], 0>>
                        ELSE <<of(j), "#", Cardinality({l \in same(j) : l <= j})>>
             few(j) == Cardinality(same(j)) < 2
             candidate(j) == {[p EXCEPT !.name = name(j)] : p \in items[j].candidate}
             findings(j) == items[j].findings \cup {Information("mnemonic_qualified")}
  <2>2. Qualified(items) = [j \in DOMAIN items |->
          IF few(j) THEN items[j]
          ELSE [items[j] EXCEPT !.candidate = candidate(j), !.findings = findings(j)]]
    BY DEF Qualified
  <2> HIDE DEF name
  <2>own. ASSUME NEW p \in candidate(k) PROVE "id" \in DOMAIN p /\ p.id = items[k].id
    <3>1. PICK q \in items[k].candidate : p = [q EXCEPT !.name = name(k)]
      OBVIOUS
    <3>2. "id" \in DOMAIN q /\ q.id = items[k].id
      BY <2>1 DEF Own
    <3>3. QED
      BY <3>1, <3>2
  <2>named. ASSUME NEW p \in candidate(k)
            PROVE  \E q \in items[k].candidate : p = [q EXCEPT !.name = p.name]
    <3>1. PICK q \in items[k].candidate : p = [q EXCEPT !.name = name(k)]
      OBVIOUS
    <3>2. p = [q EXCEPT !.name = p.name]
      BY <3>1
    <3>3. QED
      BY <3>2
  <2>more. items[k].findings \subseteq findings(k)
    OBVIOUS
  <2> HIDE DEF few, candidate, findings
  <2>3. CASE few(k)
    <3>1. Qualified(items)[k] = items[k]
      BY <2>2, <2>3
    <3>2. QED
      BY <2>1, <3>1 DEF NamedApart
  <2>4. CASE ~few(k)
    <3>1. Qualified(items)[k] = [items[k] EXCEPT !.candidate = candidate(k), !.findings = findings(k)]
      BY <2>2, <2>4
    <3> DEFINE half == [items[k] EXCEPT !.candidate = candidate(k)]
    <3>2. half = Item(items[k].id, items[k].raw, candidate(k), items[k].findings,
                      items[k].issues, items[k].state, items[k].excluded, items[k].approved)
      BY <2>1 DEF IsItem, Item
    <3>3. Qualified(items)[k] = [half EXCEPT !.findings = findings(k)]
      BY <3>1
    <3> HIDE DEF half
    <3>4. Qualified(items)[k]
            = Item(items[k].id, items[k].raw, candidate(k), findings(k),
                   items[k].issues, items[k].state, items[k].excluded, items[k].approved)
      BY <3>2, <3>3 DEF Item
    <3>5. /\ IsItem(Qualified(items)[k]) /\ Qualified(items)[k].id = items[k].id
          /\ Qualified(items)[k].candidate = candidate(k)
          /\ Qualified(items)[k].state = items[k].state
          /\ Qualified(items)[k].raw = items[k].raw
          /\ Qualified(items)[k].approved = items[k].approved
          /\ Qualified(items)[k].findings = findings(k)
      BY <3>4 DEF IsItem, Item
    <3>6. Own(Qualified(items)[k])
      BY <2>own, <3>5 DEF Own
    <3>7. NamedApart(items[k], Qualified(items)[k])
      BY <2>named, <2>more, <3>5 DEF NamedApart
    <3>8. QED
      BY <3>5, <3>6, <3>7
  <2>5. QED
    BY <2>3, <2>4
<1>3. QED
  BY <1>1, <1>2 DEF AreItems

\* A row read, named and validated is still what was read of it.
LEMMA ReadKept ==
  ASSUME NEW x, NEW profile, NEW wps,
         x.candidate = Normalised(x.raw, x.id, profile, wps).parameter,
         x.findings = Normalised(x.raw, x.id, profile, wps).findings,
         NEW y, NamedApart(x, y), NEW z, Kept(y, z), ~NeedsReview(z.findings)
  PROVE  ReadOf(z, profile, wps)
<1> DEFINE read == Normalised(x.raw, x.id, profile, wps)
<1>1. read = Normalised(z.raw, z.id, profile, wps)
  BY DEF NamedApart, Kept
<1>2. read.findings \subseteq z.findings
  BY DEF NamedApart, Kept
<1>3. ~NeedsReview(read.findings)
  BY <1>2, ReviewMore
<1>4. ASSUME NEW p \in z.candidate
      PROVE  \E q \in read.parameter : p = [q EXCEPT !.name = p.name]
  <2>1. p \in y.candidate
    BY DEF Kept
  <2>2. CASE p \in x.candidate
    <3>1. p = [id |-> p.id, name |-> p.name, source |-> p.source, type |-> p.type,
               scale |-> p.scale, offset |-> p.offset, states |-> p.states,
               occurrences |-> p.occurrences, record |-> p.record]
      BY <2>2, ReadShape
    <3>2. p = [p EXCEPT !.name = p.name]
      BY <3>1
    <3>3. QED
      BY <2>2, <3>2
  <2>3. QED
    BY <2>1, <2>2 DEF NamedApart
<1> HIDE DEF read
<1>5. QED
  BY <1>1, <1>3, <1>4 DEF ReadOf

\* effective_profile makes of a profile another one.
LEMMA EffectiveProfile ==
  ASSUME NEW rows, NEW profile \in ImportProfile
  PROVE  Effective(rows, profile) \in ImportProfile
<1>1. PICK unit \in {"auto", "hz", "seconds"}, bits \in {"auto", "per_word", "range_per_word"} :
        Effective(rows, profile) = [profile EXCEPT !.unit = unit, !.bits = bits]
  BY DEF Effective, ImportProfile
<1>2. QED
  BY <1>1 DEF ImportProfile

\* build_session
LEMMA BuildSound ==
  ASSUME NEW number, NEW rows, NEW profile \in ImportProfile, NEW wps, NEW judged
  PROVE  /\ Sound(BuildSession(number, rows, profile, wps), judged)
         /\ BuildSession(number, rows, profile, wps).number = number
<1> DEFINE effective == Effective(rows, profile)
           id(k) == <<"pdf", "", k>>
           read(k) == Normalised(rows[k], id(k), effective, wps)
           item(k) == Item(id(k), rows[k], read(k).parameter, read(k).findings, {},
                           "NORMALIZED", FALSE, "no")
           raw == [k \in DOMAIN rows |-> item(k)]
           first == Session(number, wps, wps, profile, effective, Qualified(raw))
           session == Revalidated(first)
           items == [k \in DOMAIN session.items |-> AutoApproved(session.items[k])]
<1>1. BuildSession(number, rows, profile, wps) = [session EXCEPT !.items = items]
  BY DEF BuildSession, Item, Session
<1>2. /\ AreItems(raw)
      /\ \A k \in DOMAIN raw : 
           /\ Own(raw[k]) /\ raw[k].state = "NORMALIZED" /\ raw[k].approved = "no"
           /\ raw[k].candidate = Normalised(raw[k].raw, raw[k].id, effective, wps).parameter
           /\ raw[k].findings = Normalised(raw[k].raw, raw[k].id, effective, wps).findings
  <2> HIDE DEF id
  <2>1. ASSUME NEW k, NEW p \in read(k).parameter PROVE "id" \in DOMAIN p /\ p.id = id(k)
    BY NormalisedId
  <2>2. \A k : item(k) = Item(id(k), rows[k], read(k).parameter, read(k).findings, {},
                              "NORMALIZED", FALSE, "no")
    OBVIOUS
  <2>n. \A k : read(k) = Normalised(rows[k], id(k), effective, wps)
    OBVIOUS
  <2> HIDE DEF effective, read, item
  <2>3. ASSUME NEW k
        PROVE  /\ IsItem(item(k)) /\ item(k).id = id(k) /\ item(k).candidate = read(k).parameter
               /\ item(k).state = "NORMALIZED" /\ item(k).approved = "no"
               /\ item(k).raw = rows[k] /\ item(k).findings = read(k).findings
    BY <2>2 DEF IsItem, Item
  <2>4. \A k : Own(item(k))
    BY <2>1, <2>3 DEF Own
  <2>5. \A k : read(k) = Normalised(item(k).raw, item(k).id, effective, wps)
    BY <2>n, <2>3
  <2>6. QED
    BY <2>3, <2>4, <2>5 DEF AreItems
<1>eff. effective \in ImportProfile
  BY EffectiveProfile
<1> HIDE DEF raw, effective, id
<1>3. /\ IsSession(first) /\ Grounded(first, judged) /\ first.number = number
      /\ first.effective = effective /\ first.readWps = wps
      /\ DOMAIN first.items = DOMAIN raw
      /\ \A k \in DOMAIN raw : NamedApart(raw[k], first.items[k])
  <2> DEFINE qualified == Qualified(raw)
  <2>1. AreItems(qualified) /\ DOMAIN qualified = DOMAIN raw
        /\ \A k \in DOMAIN raw : /\ Own(qualified[k]) /\ qualified[k].state = "NORMALIZED"
                                /\ NamedApart(raw[k], qualified[k])
    BY <1>2, QualifiedItems
  <2> HIDE DEF qualified
  <2>2. first = Session(number, wps, wps, profile, effective, qualified)
    BY DEF qualified
  <2> HIDE DEF first
  <2>3. IsSession(first) /\ first.items = qualified /\ first.number = number
        /\ first.effective = effective /\ first.readWps = wps
    BY <2>1, <2>2 DEF IsSession, Session
  <2>4. \A k \in DOMAIN raw : qualified[k].approved = "no"
    BY <1>2, <2>1 DEF NamedApart
  <2>5. QED
    BY <1>eff, <2>1, <2>3, <2>4 DEF Grounded, Judgement, AsRead
<1> HIDE DEF first
<1>4. Sound(session, judged) /\ session.number = number
  BY <1>3, RevalidatedSound
<1>read. ASSUME NEW k \in DOMAIN session.items, ~NeedsReview(session.items[k].findings)
         PROVE  ReadOf(session.items[k], session.effective, session.readWps)
  <2>1. /\ session.effective = effective /\ session.readWps = wps
        /\ DOMAIN session.items = DOMAIN raw
        /\ Kept(first.items[k], session.items[k])
    BY <1>3, RevalidatedGood
  <2>2. NamedApart(raw[k], first.items[k])
    BY <1>3, <2>1
  <2> HIDE DEF session
  <2>3. QED
    BY <1>2, <1>read, <2>1, <2>2, ReadKept
<1> HIDE DEF session
<1>5. ASSUME NEW k \in DOMAIN items
      PROVE  \/ items[k] = session.items[k]
             \/ ApprovedRow(session.items[k], items[k], session, judged)
  <2> DEFINE x == session.items[k]
  <2>1. CASE ~x.excluded /\ x.state = "VALIDATED" /\ Clean(x)
    <3>1. /\ items[k] = Approved(x, "auto") /\ x.candidate # {} /\ x.issues = {}
          /\ ~NeedsReview(x.findings)
      BY <2>1 DEF AutoApproved, Clean
    <3>2. Ground(x, "auto", session, judged)
      BY <1>read, <3>1 DEF Ground
    <3>3. Errors(x.issues) = {}
      BY <3>1 DEF Errors
    <3>4. QED
      BY <3>1, <3>2, <3>3 DEF ApprovedRow
  <2>2. CASE ~(~x.excluded /\ x.state = "VALIDATED" /\ Clean(x))
    BY <2>2 DEF AutoApproved
  <2>3. QED
    BY <2>1, <2>2
<1>6. DOMAIN items = DOMAIN session.items /\ items = [k \in DOMAIN items |-> items[k]]
  OBVIOUS
<1> HIDE DEF items
<1> DEFINE t == [session EXCEPT !.items = items]
<1>7. Sound(t, judged) /\ t.number = session.number
  BY <1>4, <1>5, <1>6, ApprovingSound
<1>8. QED
  BY <1>1, <1>4, <1>7

\* set_metadata
LEMMA MetadataSound ==
  ASSUME NEW s, NEW judged, Sound(s, judged), NEW wps
  PROVE  Sound(WithMetadata(s, wps), judged) /\ WithMetadata(s, wps).number = s.number
         /\ DOMAIN WithMetadata(s, wps).items = DOMAIN s.items
<1> DEFINE t == [s EXCEPT !.wps = wps]
<1>1. IsSession(t) /\ t.items = s.items /\ t.number = s.number
      /\ t.effective = s.effective /\ t.readWps = s.readWps
  <2>1. t = Session(s.number, wps, s.readWps, s.profile, s.effective, s.items)
    BY DEF Sound, Good, IsSession, Session
  <2>2. AreItems(s.items)
    BY DEF Sound, Good, IsSession
  <2>3. QED
    BY <2>1, <2>2 DEF IsSession, Session
<1>2. WithMetadata(s, wps) = Revalidated(t) \/ WithMetadata(s, wps) = s
  BY DEF WithMetadata
<1> HIDE DEF t
<1>3. Grounded(t, judged)
  BY <1>1 DEF Sound, Grounded
<1>4. QED
  BY <1>1, <1>2, <1>3, RevalidatedSound

\* exclude and include
LEMMA MarkedSound ==
  ASSUME NEW s, NEW judged, Sound(s, judged), NEW rows, NEW excluded
  PROVE  Sound(Marked(s, rows, excluded), judged) /\ Marked(s, rows, excluded).number = s.number
<1> DEFINE items == [k \in DOMAIN s.items |->
                       IF k \in rows THEN [s.items[k] EXCEPT !.excluded = excluded] ELSE s.items[k]]
           t == [s EXCEPT !.items = items]
<1>1. Marked(s, rows, excluded) = Revalidated(t)
  BY DEF Marked
<1>2. ASSUME NEW k \in DOMAIN s.items PROVE IsItem(items[k]) /\ Kept(s.items[k], items[k])
  <2>1. IsItem(s.items[k])
    BY DEF Sound, Good, IsSession, AreItems
  <2>2. CASE k \in rows
    <3>1. items[k] = [s.items[k] EXCEPT !.excluded = excluded]
      BY <2>2
    <3> HIDE DEF items
    <3>2. items[k] = Item(s.items[k].id, s.items[k].raw, s.items[k].candidate,
                          s.items[k].findings, s.items[k].issues, s.items[k].state, excluded,
                          s.items[k].approved)
      BY <2>1, <3>1 DEF IsItem, Item
    <3>3. QED
      BY <3>2 DEF IsItem, Item, Kept
  <2>3. CASE k \notin rows
    BY <2>1, <2>3 DEF Kept
  <2>4. QED
    BY <2>2, <2>3
<1>3. DOMAIN items = DOMAIN s.items /\ items = [k \in DOMAIN items |-> items[k]]
  OBVIOUS
<1> HIDE DEF items
<1>4. AreItems(items)
  BY <1>2, <1>3 DEF AreItems
<1>5. IsSession(t) /\ t.items = items /\ t.number = s.number
      /\ t.effective = s.effective /\ t.readWps = s.readWps
  BY <1>4, WithItems DEF Sound, Good
<1> HIDE DEF t
<1>6. Grounded(t, judged)
  BY <1>2, <1>3, <1>5, KeptGrounded DEF Sound, Grounded
<1>7. QED
  BY <1>1, <1>5, <1>6, RevalidatedSound

\* renormalize_session
LEMMA RenormalisedSound ==
  ASSUME NEW s, NEW profile \in ImportProfile, NEW judged
  PROVE  Sound(Renormalised(s, profile), judged) /\ Renormalised(s, profile).number = s.number
<1> DEFINE raw == [k \in DOMAIN s.items |-> s.items[k].raw]
           fresh == BuildSession(s.number, raw, profile, s.wps)
           rows == {k \in DOMAIN s.items : s.items[k].excluded}
<1>1. PICK yes : yes = TRUE
  OBVIOUS
<1>2. Renormalised(s, profile) = Marked(fresh, rows, yes)
  BY <1>1 DEF Renormalised
<1> HIDE DEF raw
<1>3. Sound(fresh, judged) /\ fresh.number = s.number
  BY BuildSound
<1> HIDE DEF fresh, rows
<1>4. QED
  BY <1>2, <1>3, MarkedSound

\* update_candidate
LEMMA UpdatedSound ==
  ASSUME NEW s, NEW judged, Sound(s, judged), NEW i \in DOMAIN s.items,
         NEW p, "id" \in DOMAIN p, p.id = s.items[i].id, <<s.number, p>> \in judged
  PROVE  Sound(Updated(s, i, p), judged) /\ Updated(s, i, p).number = s.number
<1> DEFINE x == s.items[i]
           edited == [x EXCEPT !.candidate = {p}, !.findings = {}, !.state = "NORMALIZED",
                               !.approved = "no", !.excluded = FALSE]
           items == [s.items EXCEPT ![i] = edited]
           u == [s EXCEPT !.items = items]
           t == Revalidated(u)
           settled == IF t.items[i].state = "VALIDATED" THEN Approved(t.items[i], "edit")
                      ELSE t.items[i]
           approved == [t.items EXCEPT ![i] = settled]
<1>1. Updated(s, i, p) = [t EXCEPT !.items = approved]
  BY DEF Updated
<1>2. IsItem(edited) /\ edited.id = x.id /\ edited.candidate = {p} /\ edited.state = "NORMALIZED"
      /\ edited.approved = "no"
  <2> DEFINE a == [x EXCEPT !.candidate = {p}]
             b == [a EXCEPT !.findings = {}]
             c == [b EXCEPT !.state = "NORMALIZED"]
             d == [c EXCEPT !.approved = "no"]
  <2>1. edited = [d EXCEPT !.excluded = FALSE]
    OBVIOUS
  <2>2. IsItem(x)
    BY DEF Sound, Good, IsSession, AreItems
  <2> HIDE DEF x
  <2>3. a = Item(x.id, x.raw, {p}, x.findings, x.issues, x.state, x.excluded, x.approved)
    BY <2>2 DEF IsItem, Item
  <2> HIDE DEF a
  <2>4. b = Item(x.id, x.raw, {p}, {}, x.issues, x.state, x.excluded, x.approved)
    BY <2>3 DEF Item
  <2> HIDE DEF b
  <2>5. c = Item(x.id, x.raw, {p}, {}, x.issues, "NORMALIZED", x.excluded, x.approved)
    BY <2>4 DEF Item
  <2> HIDE DEF c
  <2>6. d = Item(x.id, x.raw, {p}, {}, x.issues, "NORMALIZED", x.excluded, "no")
    BY <2>5 DEF Item
  <2> HIDE DEF d
  <2>7. ASSUME NEW excluded
        PROVE  [d EXCEPT !.excluded = excluded]
                 = Item(x.id, x.raw, {p}, {}, x.issues, "NORMALIZED", excluded, "no")
    BY <2>6 DEF Item
  <2>8. [d EXCEPT !.excluded = FALSE]
          = Item(x.id, x.raw, {p}, {}, x.issues, "NORMALIZED", FALSE, "no")
    BY <2>7
  <2>9. edited = Item(x.id, x.raw, {p}, {}, x.issues, "NORMALIZED", FALSE, "no")
    BY <2>1, <2>8
  <2> HIDE DEF edited
  <2>10. QED
    BY <2>9 DEF IsItem, Item
<1>3. Own(edited) /\ Judgement(edited, s.number, judged)
      /\ AsRead(edited, s.effective, s.readWps)
  BY <1>2 DEF Own, Judgement, AsRead
<1> HIDE DEF edited, x
<1>4. AreItems(items) /\ DOMAIN items = DOMAIN s.items
      /\ \A k \in DOMAIN items : items[k] = IF k = i THEN edited ELSE s.items[k]
  BY <1>2 DEF Sound, Good, IsSession, AreItems
<1> HIDE DEF items
<1>5. IsSession(u) /\ u.items = items /\ u.number = s.number
      /\ u.effective = s.effective /\ u.readWps = s.readWps
  BY <1>4, WithItems DEF Sound, Good
<1> HIDE DEF u
<1>6. Grounded(u, judged)
  BY <1>3, <1>4, <1>5 DEF Sound, Grounded
<1>7. Sound(t, judged) /\ DOMAIN t.items = DOMAIN s.items /\ t.number = s.number
      /\ Kept(u.items[i], t.items[i])
  BY <1>4, <1>5, <1>6, RevalidatedGood, RevalidatedSound
<1>8. t.items[i].candidate = {p}
  BY <1>2, <1>4, <1>5, <1>7 DEF Kept
<1> HIDE DEF t
<1>9. t.items = [k \in DOMAIN t.items |-> t.items[k]]
  BY <1>7 DEF Sound, Good, IsSession, AreItems
<1>10. DOMAIN approved = DOMAIN t.items /\ approved = [k \in DOMAIN approved |-> approved[k]]
       /\ approved[i] = settled /\ \A k \in DOMAIN t.items \ {i} : approved[k] = t.items[k]
  BY <1>7, <1>9
<1>11. \/ settled = t.items[i]
       \/ /\ settled = Approved(t.items[i], "edit")
          /\ t.items[i].excluded \/ Errors(t.items[i].issues) = {}
  <2>1. CurrentItem(t, t.items[i])
    BY <1>7 DEF Sound, Good
  <2>2. CASE t.items[i].state = "VALIDATED" /\ ~t.items[i].excluded
    BY <2>1, <2>2 DEF CurrentItem, ReviewNeeded
  <2>3. CASE t.items[i].state # "VALIDATED"
    BY <2>3
  <2>4. CASE t.items[i].state = "VALIDATED" /\ t.items[i].excluded
    BY <2>4
  <2>5. QED
    BY <2>2, <2>3, <2>4
<1> HIDE DEF settled, approved
<1>12. ASSUME NEW k \in DOMAIN approved
       PROVE  \/ approved[k] = t.items[k]
              \/ ApprovedRow(t.items[k], approved[k], t, judged)
  <2>1. CASE k = i
    <3>1. Ground(t.items[i], "edit", t, judged) /\ t.items[i].candidate # {}
      BY <1>7, <1>8 DEF Ground
    <3>2. QED
      BY <1>10, <1>11, <2>1, <3>1 DEF ApprovedRow
  <2>2. CASE k # i
    BY <1>10, <2>2
  <2>3. QED
    BY <2>1, <2>2
<1>13. Sound(t, judged) /\ DOMAIN approved = DOMAIN t.items
       /\ approved = [k \in DOMAIN approved |-> approved[k]]
  BY <1>7, <1>10
<1> DEFINE v == [t EXCEPT !.items = approved]
<1>14. v = [t EXCEPT !.items = approved]
  OBVIOUS
<1> HIDE DEF v
<1>15. Sound(v, judged) /\ v.number = t.number
  BY <1>12, <1>13, <1>14, ApprovingSound
<1>16. QED
  BY <1>1, <1>7, <1>15 DEF v

\* The dialog makes of a row a parameter of that row.
LEMMA EnteredId ==
  ASSUME NEW x, Own(x), NEW p \in Entered(x)
  PROVE  "id" \in DOMAIN p /\ p.id = x.id
<1> DEFINE q == IF x.candidate = {} THEN BlankCandidate(x) ELSE CHOOSE r \in x.candidate : TRUE
           typed == [q EXCEPT !.type = Canonical(q.source)]
<1>1. "id" \in DOMAIN q /\ q.id = x.id
  <2>1. CASE x.candidate = {}
    BY <2>1 DEF BlankCandidate
  <2>2. CASE x.candidate # {}
    BY <2>2 DEF Own
  <2>3. QED
    BY <2>1, <2>2
<1>2. p = typed \/ \E occurrences : p = [typed EXCEPT !.occurrences = occurrences]
  BY DEF Entered
<1> HIDE DEF q
<1>3. QED
  BY <1>1, <1>2

-----------------------------------------------------------------------------
(* What is published *)

\* An error names the parameter it is about.
LEMMA ErrorsNamed ==
  ASSUME NEW d, NEW e \in Errors(Validate(d))
  PROVE  \E i \in DOMAIN d.parameters : e.id = d.parameters[i].id
<1>1. e \in Validate(d) /\ e.severity = "error"
  BY DEF Errors
<1>2. ASSUME NEW p, NEW wps, e \in Structural(p, wps) PROVE e.id = p.id
  BY <1>2 DEF Structural, When, Issue
<1>3. ASSUME NEW p, e \in Mapping(p) PROVE e.id = p.id
  BY <1>3 DEF Mapping, When, Issue
<1>4. ASSUME NEW p, e \in Semantic(p) PROVE e.id = p.id
  BY <1>4 DEF Semantic, When, Issue
<1>5. e \notin Overlaps(d)
  BY <1>1 DEF Overlaps, Issue
<1>6. PICK i \in DOMAIN d.parameters :
        e \in Structural(d.parameters[i], d.wps) \cup Mapping(d.parameters[i])
               \cup Semantic(d.parameters[i])
  BY <1>1, <1>5 DEF Validate
<1>7. QED
  BY <1>2, <1>3, <1>4, <1>6

\* A review without a pending row is published as it was validated: with no
\* error, and with the ground of every decision.
LEMMA PublishedSound ==
  ASSUME NEW s, NEW judged, Sound(s, judged), Pending(s) = {},
         NEW w, w = [number |-> s.number, wps |-> s.wps,
                     items |-> [k \in ToPublish(s) |-> s.items[k]]]
  PROVE  /\ \A k \in DOMAIN w.items : /\ ~w.items[k].excluded /\ w.items[k].candidate # {}
                                       /\ Judgement(w.items[k], w.number, judged)
                                       /\ w.items[k].state = "APPROVED"
         /\ Errors(Validate(Preview(w))) = {}
<1>1. /\ w.number = s.number /\ w.wps = s.wps /\ DOMAIN w.items = ToPublish(s)
      /\ \A k \in ToPublish(s) : w.items[k] = s.items[k]
  OBVIOUS
<1>2. \A k \in DOMAIN s.items :
        /\ Own(s.items[k]) /\ Judgement(s.items[k], s.number, judged)
        /\ CurrentItem(s, s.items[k])
  BY DEF Sound, Good, Grounded
<1>3. ASSUME NEW k \in ToPublish(s)
      PROVE  /\ k \in DOMAIN s.items /\ ~s.items[k].excluded /\ s.items[k].state = "APPROVED"
             /\ s.items[k].candidate # {}
  BY <1>2 DEF ToPublish, Judgement
<1>4. Included(s) = ToPublish(s)
  BY <1>3 DEF Included, ToPublish, Pending
<1>5. Included(w) = ToPublish(s)
  BY <1>1, <1>3 DEF Included
<1>6. Preview(w) = Preview(s)
  <2> DEFINE first(x) == CHOOSE p \in x.candidate : TRUE
             chosen(u) == [k \in Included(u) |-> first(u.items[k])]
  <2>1. \A u : Preview(u) = [wps |-> u.wps, parameters |-> chosen(u)]
    BY DEF Preview
  <2> HIDE DEF first
  <2>2. chosen(w) = chosen(s)
    BY <1>1, <1>4, <1>5
  <2> HIDE DEF chosen
  <2>3. QED
    BY <1>1, <2>1, <2>2
<1>7. ASSUME NEW e \in Errors(Validate(Preview(s))) PROVE FALSE
  <2>1. PICK k \in DOMAIN Preview(s).parameters : e.id = Preview(s).parameters[k].id
    BY ErrorsNamed
  <2>2. k \in Included(s) /\ Preview(s).parameters[k] = CHOOSE p \in s.items[k].candidate : TRUE
    BY <2>1 DEF Preview
  <2>3. k \in ToPublish(s) /\ Preview(s).parameters[k] \in s.items[k].candidate
    BY <1>3, <1>4, <2>2
  <2>4. e.id = s.items[k].id
    BY <1>2, <1>3, <2>1, <2>3 DEF Own
  <2>5. e \in Errors(Concerning(Validate(Preview(s)), s.items[k].id))
    BY <2>4 DEF Errors, Concerning
  <2>6. Errors(Concerning(Validate(Preview(s)), s.items[k].id)) = {}
    BY <1>2, <1>3, <2>3 DEF CurrentItem
  <2>7. QED
    BY <2>5, <2>6
<1>8. QED
  BY <1>1, <1>2, <1>3, <1>6, <1>7

-----------------------------------------------------------------------------
(* The page and its dialogs *)

\* Every session under review is sound,
Reviews(q, judged) == \E S : q \in Seq(S) /\ \A s \in S : Sound(s, judged)

\* every session that travels with a signal,
Mail(q, judged) == \E S : q \in Seq(S) /\ \A x \in S : \A s \in x.session : Sound(s, judged)

\* and the one the page keeps; with what was published, the inductive
\* invariant.
IInv ==
  /\ Reviews(dialogs, seen) /\ Mail(inbox, seen) /\ \A s \in queue : Sound(s, seen)
  /\ PublishedWithoutErrors /\ SeenOrClean

\* What a reviewer has judged, stays judged.
LEMMA SoundMore ==
  ASSUME NEW judged, NEW more, judged \subseteq more
  PROVE  /\ \A s : Sound(s, judged) => Sound(s, more)
         /\ \A q : Reviews(q, judged) => Reviews(q, more)
         /\ \A q : Mail(q, judged) => Mail(q, more)
<1>1. ASSUME NEW s, Sound(s, judged) PROVE Sound(s, more)
  BY <1>1 DEF Sound, Grounded, Judgement
<1>2. QED
  BY <1>1 DEF Reviews, Mail

\* What was published stays judged when more is seen.
LEMMA PublishedMore ==
  ASSUME PublishedWithoutErrors, SeenOrClean, workspace' = workspace, seen \subseteq seen'
  PROVE  PublishedWithoutErrors' /\ SeenOrClean'
  BY DEF PublishedWithoutErrors, SeenOrClean

\* The topmost session, and the stack after it changed
LEMMA TopFacts ==
  ASSUME NEW judged, Reviews(dialogs, judged), dialogs # <<>>
  PROVE  /\ Sound(dialogs[Len(dialogs)], judged)
         /\ \A s : Sound(s, judged) => Reviews([dialogs EXCEPT ![Len(dialogs)] = s], judged)
         /\ Reviews(SubSeq(dialogs, 1, Len(dialogs) - 1), judged)
<1>1. PICK S : dialogs \in Seq(S) /\ \A s \in S : Sound(s, judged)
  BY DEF Reviews
<1>2. Len(dialogs) \in 1 .. Len(dialogs) /\ Len(dialogs) \in Nat
  BY <1>1, EmptySeq, LenProperties
<1>3. Sound(dialogs[Len(dialogs)], judged)
  BY <1>1, <1>2, ElementOfSeq
<1>4. ASSUME NEW s, Sound(s, judged) PROVE Reviews([dialogs EXCEPT ![Len(dialogs)] = s], judged)
  <2> DEFINE T == S \cup {s}
  <2>1. dialogs \in Seq(T) /\ s \in T
    BY <1>1, SeqMonotonic
  <2>2. \A x \in T : Sound(x, judged)
    BY <1>1, <1>4
  <2> HIDE DEF T
  <2>3. [dialogs EXCEPT ![Len(dialogs)] = s] \in Seq(T)
    BY <1>2, <2>1, ExceptSeq
  <2>4. QED
    BY <2>2, <2>3 DEF Reviews
<1>5. Reviews(SubSeq(dialogs, 1, Len(dialogs) - 1), judged)
  <2>1. \A i \in 1 .. Len(dialogs) - 1 : dialogs[i] \in S
    BY <1>1, <1>2, ElementOfSeq
  <2>2. SubSeq(dialogs, 1, Len(dialogs) - 1) \in Seq(S)
    BY <1>2, <2>1, SubSeqProperties
  <2>3. QED
    BY <1>1, <2>2 DEF Reviews
<1>6. QED
  BY <1>3, <1>4, <1>5

\* A review is opened on top.
LEMMA OpenedOn ==
  ASSUME NEW judged, NEW q, Reviews(q, judged), NEW s, Sound(s, judged)
  PROVE  Reviews(Append(q, s), judged)
<1>1. PICK S : q \in Seq(S) /\ \A x \in S : Sound(x, judged)
  BY DEF Reviews
<1> DEFINE T == S \cup {s}
<1>2. q \in Seq(T) /\ s \in T
  BY <1>1, SeqMonotonic
<1>3. \A x \in T : Sound(x, judged)
  BY <1>1
<1> HIDE DEF T
<1>4. Append(q, s) \in Seq(T)
  BY <1>2, AppendProperties
<1>5. QED
  BY <1>3, <1>4 DEF Reviews

\* A dialog's action that shows a sound session keeps the invariant.
LEMMA ShownSound ==
  ASSUME IInv, Open, NEW s, Sound(s, seen'), seen \subseteq seen', Shows(s),
         UNCHANGED page, workspace' = workspace
  PROVE  IInv'
<1>1. dialogs' = [dialogs EXCEPT ![Len(dialogs)] = s]
  BY DEF Shows
<1>2. Reviews(dialogs, seen') /\ Mail(inbox, seen') /\ \A t \in queue : Sound(t, seen')
  BY SoundMore DEF IInv
<1>3. Reviews(dialogs', seen')
  BY <1>1, <1>2, TopFacts DEF Open
<1>4. inbox' = inbox /\ queue' = queue
  BY DEF page
<1>5. PublishedWithoutErrors' /\ SeenOrClean'
  BY PublishedMore DEF IInv
<1>6. QED
  BY <1>2, <1>3, <1>4, <1>5 DEF IInv

\* Every command of the review dialog keeps the invariant.
LEMMA ReviewStep ==
  ASSUME IInv, Open, Review
  PROVE  IInv'
<1>1. Sound(Top, seen)
  BY TopFacts DEF IInv, Open, Top
<1>2. ASSUME NEW rows, ApproveSelected(rows) PROVE IInv'
  <2> DEFINE approved == {k \in rows : Top.items[k].state # "APPROVED" /\ Approvable(Top.items[k])}
             items == [k \in DOMAIN Top.items |->
                         IF k \in approved THEN Approved(Top.items[k], "reviewer") ELSE Top.items[k]]
             t == [Top EXCEPT !.items = items]
  <2>1. Shows(t) /\ UNCHANGED page /\ workspace' = workspace
        /\ seen' = seen \cup UNION {{<<Top.number, p>> : p \in Top.items[k].candidate} : k \in approved}
    BY <1>2 DEF ApproveSelected
  <2>2. ASSUME NEW k \in approved
        PROVE  /\ Errors(Top.items[k].issues) = {} /\ Top.items[k].candidate # {}
               /\ \E p \in Top.items[k].candidate : <<Top.number, p>> \in seen'
    <3>1. Errors(Top.items[k].issues) = {} /\ Top.items[k].candidate # {}
      BY DEF Approvable, ItemErrors
    <3>2. \A p \in Top.items[k].candidate : <<Top.number, p>> \in seen'
      BY <2>1
    <3>3. QED
      BY <3>1, <3>2
  <2> HIDE DEF approved
  <2>3. DOMAIN items = DOMAIN Top.items /\ items = [k \in DOMAIN items |-> items[k]]
    OBVIOUS
  <2>4. ASSUME NEW k \in DOMAIN items
        PROVE  \/ items[k] = Top.items[k]
               \/ k \in approved /\ items[k] = Approved(Top.items[k], "reviewer")
    OBVIOUS
  <2> HIDE DEF items
  <2>5. seen \subseteq seen' /\ Sound(Top, seen')
    BY <1>1, <2>1, SoundMore
  <2>6. \A k \in approved : ApprovedRow(Top.items[k], Approved(Top.items[k], "reviewer"), Top, seen')
    <3>1. \A k \in approved : Ground(Top.items[k], "reviewer", Top, seen')
      BY <2>2 DEF Ground
    <3>2. QED
      BY <2>2, <3>1 DEF ApprovedRow
  <2>7. Sound(t, seen')
    BY <2>3, <2>4, <2>5, <2>6, ApprovingSound
  <2> HIDE DEF t
  <2>8. QED
    BY <2>1, <2>5, <2>7, ShownSound
<1>3. ASSUME NEW rows, NEW current, ToggleExclude(rows, current) PROVE IInv'
  BY <1>1, <1>3, MarkedSound, ShownSound DEF ToggleExclude
<1>4. ASSUME NEW i \in DOMAIN Top.items, NEW p \in Entered(Top.items[i]), Edit(i, p) PROVE IInv'
  <2>1. /\ Shows(Updated(Top, i, p)) /\ seen' = seen \cup {<<Top.number, p>>}
        /\ UNCHANGED page /\ workspace' = workspace
    BY <1>4 DEF Edit
  <2>2. "id" \in DOMAIN p /\ p.id = Top.items[i].id
    BY <1>1, EnteredId DEF Sound, Grounded
  <2>3. seen \subseteq seen' /\ <<Top.number, p>> \in seen' /\ Sound(Top, seen')
    BY <1>1, <2>1, SoundMore
  <2>4. Sound(Updated(Top, i, p), seen')
    BY <2>2, <2>3, UpdatedSound
  <2>5. QED
    BY <2>1, <2>3, <2>4, ShownSound
<1>5. ASSUME NEW wps, ApplyMetadata(wps) PROVE IInv'
  BY <1>1, <1>5, MetadataSound, ShownSound DEF ApplyMetadata
<1>6. ASSUME NEW wps, NEW profile \in Profiles, Renormalise(profile, wps) PROVE IInv'
  <2>1. profile \in ImportProfile
    BY ProfilesAssumption
  <2>2. QED
    BY <1>6, <2>1, RenormalisedSound, ShownSound DEF Renormalise
<1>7. ASSUME NEW wps, PublishRefused(wps) PROVE IInv'
  BY <1>1, <1>7, MetadataSound, ShownSound DEF PublishRefused, Judged
<1>8. ASSUME NEW q, Close(q), \A s \in q : Sound(s, seen), PublishedWithoutErrors', SeenOrClean'
      PROVE  IInv'
  <2>1. /\ dialogs' = SubSeq(dialogs, 1, Len(dialogs) - 1) /\ queue' = q /\ inbox' = inbox
        /\ seen' = seen
    BY <1>8 DEF Close
  <2>2. Reviews(dialogs', seen')
    BY <2>1, TopFacts DEF IInv, Open
  <2>3. QED
    BY <1>8, <2>1, <2>2 DEF IInv
<1>9. ASSUME NEW wps, Publish(wps) PROVE IInv'
  <2> DEFINE s == Judged(Top, wps)
             w == [number |-> s.number, wps |-> s.wps,
                   items |-> [k \in ToPublish(s) |-> s.items[k]]]
  <2>1. Pending(s) = {} /\ workspace' = {w} /\ Close({})
    BY <1>9 DEF Publish
  <2>2. Sound(s, seen)
    BY <1>1, MetadataSound DEF Judged
  <2> HIDE DEF s
  <2>3. /\ \A k \in DOMAIN w.items : /\ ~w.items[k].excluded /\ w.items[k].candidate # {}
                                      /\ Judgement(w.items[k], w.number, seen)
                                      /\ w.items[k].state = "APPROVED"
        /\ Errors(Validate(Preview(w))) = {}
    BY <2>1, <2>2, PublishedSound
  <2> HIDE DEF w
  <2>4. seen' = seen
    BY <2>1 DEF Close
  <2>5. PublishedWithoutErrors'
    BY <2>1, <2>3 DEF PublishedWithoutErrors
  <2>6. SeenOrClean'
    BY <2>1, <2>3, <2>4 DEF SeenOrClean, Judgement
  <2>7. QED
    BY <1>8, <2>1, <2>5, <2>6
<1>10. CASE Cancel
  <2>1. Close({Top}) /\ workspace' = workspace /\ seen' = seen
    BY <1>10 DEF Cancel, Close
  <2>2. PublishedWithoutErrors' /\ SeenOrClean'
    BY <2>1, PublishedMore DEF IInv
  <2>3. QED
    BY <1>1, <1>8, <2>1, <2>2
<1>11. CASE ApproveAllValidated
  BY <1>2, <1>11 DEF ApproveAllValidated
<1>12. QED
  BY <1>2, <1>3, <1>4, <1>5, <1>6, <1>7, <1>9, <1>10, <1>11 DEF Review

\* So do the import thread, its signals and the page.
LEMMA PageStep ==
  ASSUME IInv,
         \/ \E document \in Documents(imports + 1) : StartImport(document)
         \/ \E outcome \in {"ok", "failed", "unexpected"} : WorkerEnds(outcome)
         \/ Deliver \/ OpenReview
  PROVE  IInv'
<1>0. seen' = seen /\ workspace' = workspace
  BY DEF StartImport, WorkerEnds, Deliver, OpenReview
<1>pub. PublishedWithoutErrors' /\ SeenOrClean'
  BY <1>0, PublishedMore DEF IInv
<1>1. ASSUME NEW document, StartImport(document) PROVE IInv'
  BY <1>0, <1>pub, <1>1 DEF StartImport, IInv
<1>2. ASSUME NEW outcome, WorkerEnds(outcome) PROVE IInv'
  <2>1. PICK w \in worker :
          inbox' = inbox \o [k \in DOMAIN Signalled(outcome, w.number) |->
                              [number |-> w.number, session |->
                                 IF outcome = "ok"
                                 THEN {BuildSession(w.number, w.rows, FirstProfile, FirstWps)}
                                 ELSE {}]]
    BY <1>2 DEF WorkerEnds
  <2> DEFINE built == BuildSession(w.number, w.rows, FirstProfile, FirstWps)
             signal == [number |-> w.number, session |-> IF outcome = "ok" THEN {built} ELSE {}]
             more == [k \in DOMAIN Signalled(outcome, w.number) |-> signal]
  <2>2. \A s \in signal.session : Sound(s, seen)
    <3>1. FirstProfile \in ImportProfile
      BY ProfilesAssumption
    <3>2. QED
      BY <3>1, BuildSound
  <2>3. PICK S : inbox \in Seq(S) /\ \A x \in S : \A s \in x.session : Sound(s, seen)
    BY DEF IInv, Mail
  <2> DEFINE T == S \cup {signal}
  <2>4. \A x \in T : \A s \in x.session : Sound(s, seen)
    BY <2>2, <2>3
  <2> HIDE DEF signal
  <2>5. inbox \in Seq(T) /\ signal \in T
    BY <2>3, SeqMonotonic
  <2> HIDE DEF T
  <2>6. more \in Seq(T)
    <3>1. DOMAIN Signalled(outcome, w.number) = 1 .. 1
      BY DEF Signalled
    <3>2. more \in [1 .. 1 -> T]
      BY <2>5, <3>1
    <3> HIDE DEF more
    <3>3. QED
      BY <3>2, SeqDef
  <2>7. inbox' = inbox \o more
    BY <2>1 DEF signal
  <2> HIDE DEF more
  <2>8. inbox' \in Seq(T)
    BY <2>5, <2>6, <2>7, ConcatProperties
  <2>9. Mail(inbox', seen)
    BY <2>4, <2>8 DEF Mail
  <2>10. dialogs' = dialogs /\ queue' = queue
    BY <1>2 DEF WorkerEnds
  <2>11. QED
    BY <1>0, <1>pub, <2>9, <2>10 DEF IInv
<1>3. CASE Deliver
  <2> DEFINE signal == Head(inbox)
  <2>1. /\ inbox # <<>> /\ inbox' = Tail(inbox)
        /\ queue' = IF signal.session = {} THEN queue ELSE signal.session
        /\ dialogs' = IF signal.session = {} THEN dialogs
                      ELSE Append(dialogs, CHOOSE s \in signal.session : TRUE)
    BY <1>3 DEF Deliver
  <2>2. PICK S : inbox \in Seq(S) /\ \A x \in S : \A s \in x.session : Sound(s, seen)
    BY DEF IInv, Mail
  <2>3. signal \in S /\ Tail(inbox) \in Seq(S)
    BY <2>1, <2>2, HeadTailProperties
  <2>4. Mail(inbox', seen) /\ \A s \in signal.session : Sound(s, seen)
    BY <2>1, <2>2, <2>3 DEF Mail
  <2> HIDE DEF signal
  <2>5. CASE signal.session = {}
    BY <1>0, <1>pub, <2>1, <2>4, <2>5 DEF IInv
  <2>6. CASE signal.session # {}
    <3>1. PICK s \in signal.session : dialogs' = Append(dialogs, s)
      BY <2>1, <2>6
    <3>2. Reviews(dialogs', seen)
      BY <2>4, <3>1, OpenedOn DEF IInv
    <3>3. QED
      BY <1>0, <1>pub, <2>1, <2>4, <2>6, <3>2 DEF IInv
  <2>7. QED
    BY <2>5, <2>6
<1>4. CASE OpenReview
  <2>1. PICK s \in queue : dialogs' = <<s>>
    BY <1>4 DEF OpenReview
  <2>2. Sound(s, seen) /\ inbox' = inbox /\ queue' = queue
    BY <1>4 DEF IInv, OpenReview, page
  <2> DEFINE S == {s}
  <2>3. <<s>> \in Seq(S) /\ \A x \in S : Sound(x, seen)
    BY <2>2
  <2> HIDE DEF S
  <2>4. Reviews(dialogs', seen)
    BY <2>1, <2>3 DEF Reviews
  <2>5. QED
    BY <1>0, <1>pub, <2>2, <2>4 DEF IInv
<1>5. QED
  BY <1>1, <1>2, <1>3, <1>4

\* There is no session in the beginning.
LEMMA InitReview == Init => IInv
<1> SUFFICES ASSUME Init PROVE IInv
  OBVIOUS
<1>1. dialogs = <<>> /\ inbox = <<>> /\ queue = {} /\ workspace = {}
  BY DEF Init
<1> DEFINE S == {}
<1>2. /\ <<>> \in Seq(S)
      /\ \A s \in S : Sound(s, seen)
      /\ \A x \in S : \A s \in x.session : Sound(s, seen)
  BY EmptySeq
<1> HIDE DEF S
<1>3. Reviews(dialogs, seen) /\ Mail(inbox, seen)
  BY <1>1, <1>2 DEF Reviews, Mail
<1>4. QED
  BY <1>1, <1>3 DEF IInv, PublishedWithoutErrors, SeenOrClean

\* Every step keeps the sessions sound, wherever they rest.
LEMMA NextReview == IInv /\ [Next]_vars => IInv'
<1>1. IInv /\ UNCHANGED vars => IInv'
  BY DEF IInv, vars, page, PublishedWithoutErrors, SeenOrClean
<1>2. QED
  BY <1>1, ReviewStep, PageStep DEF Next

\* What a row under review shows, and the state it is in, is what validating
\* the rows now included would say, whatever was imported, approved,
\* excluded, edited or read again, and in whatever order.
THEOREM ReviewCurrent == Spec => []IssuesCurrent
<1>1. IInv => IssuesCurrent
  <2> SUFFICES ASSUME IInv, NEW d \in DOMAIN dialogs PROVE Good(dialogs[d])
    BY DEF IssuesCurrent, Good, CurrentItem
  <2>1. PICK S : dialogs \in Seq(S) /\ \A s \in S : Sound(s, seen)
    BY DEF IInv, Reviews
  <2>2. d \in 1 .. Len(dialogs)
    BY <2>1, LenProperties
  <2>3. QED
    BY <2>1, <2>2, ElementOfSeq DEF Sound
<1>2. QED
  BY <1>1, InitReview, NextReview, PTL DEF Spec

\* What reaches the workspace has no pending or excluded row and no
\* validation error at the words per subframe it is published with: the rows
\* were validated at that rate before they were taken.
THEOREM PublishedValid == Spec => []PublishedWithoutErrors
<1>1. IInv => PublishedWithoutErrors
  BY DEF IInv
<1>2. QED
  BY <1>1, InitReview, NextReview, PTL DEF Spec

\* What reaches the workspace was judged by a reviewer just as it is, or was
\* read without a finding to review; no edit, reading or inclusion carries a
\* decision over to a parameter it was not taken on.
THEOREM PublishedJudged == Spec => []SeenOrClean
<1>1. IInv => SeenOrClean
  BY DEF IInv
<1>2. QED
  BY <1>1, InitReview, NextReview, PTL DEF Spec

\* What is approved without a person is what was read, and was read in the
\* only way the conventions of the document leave open.
THEOREM AutoIsUnambiguous == Spec => []AutoMeansUnambiguous
<1>1. IInv => AutoMeansUnambiguous
  <2> SUFFICES ASSUME IInv, NEW s \in Sessions, NEW k \in DOMAIN s.items,
                      s.items[k].approved = "auto"
               PROVE  LET item == s.items[k]
                          read == Normalised(item.raw, item.id, s.effective, s.readWps)
                      IN  /\ TheOnlyReading(item.raw, item.id, s.effective, s.readWps)
                          /\ \A p \in item.candidate :
                               \E q \in read.parameter : p = [q EXCEPT !.name = p.name]
    BY DEF AutoMeansUnambiguous
  <2>1. Sound(s, seen)
    <3>1. CASE s \in queue
      BY <3>1 DEF IInv
    <3>2. ASSUME NEW d \in DOMAIN dialogs, s = dialogs[d] PROVE Sound(s, seen)
      <4>1. PICK S : dialogs \in Seq(S) /\ \A t \in S : Sound(t, seen)
        BY DEF IInv, Reviews
      <4>2. d \in 1 .. Len(dialogs)
        BY <4>1, LenProperties
      <4>3. QED
        BY <3>2, <4>1, <4>2, ElementOfSeq
    <3>3. QED
      BY <3>1, <3>2 DEF Sessions
  <2>2. s.effective \in ImportProfile /\ ReadOf(s.items[k], s.effective, s.readWps)
    BY <2>1 DEF Sound, Grounded, AsRead
  <2>3. QED
    BY <2>2, CleanIsTheOnlyReading DEF ReadOf
<1>2. QED
  BY <1>1, InitReview, NextReview, PTL DEF Spec
=============================================================================
