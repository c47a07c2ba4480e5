------------------------- MODULE DataframeRepository -------------------------
(***************************************************************************)
(* dataframe/repository/repository.py: dataframes saved row by row over    *)
(* one SQLite connection, and built again from the rows.  A save that      *)
(* fails leaves its rows in the open transaction of the connection.        *)
(***************************************************************************)
EXTENDS AdbCodec
LOCAL INSTANCE SequencesExt

CONSTANTS MaxDocuments

ASSUME RepositoryAssumption == MaxDocuments \in Nat

VARIABLES
  committed,     \* the documents in the database
  pending,       \* those of the open transaction
  given          \* history: what each row of either was saved from, and whether wholly

repository == <<committed, pending, given>>

\* _save_parameter: a segment's subframes are stored as the selector text it
\* was read with, or as their own.
StoredSegment(s) ==
  [sequence |-> s.sequence, selector |-> IF s.raw # {} THEN s.raw ELSE s.subframes,
   word |-> s.word, lsb |-> s.lsb, msb |-> s.msb, weight |-> s.weight]

StoredParameter(p) ==
  [p EXCEPT !.occurrences =
     [k \in DOMAIN @ |-> Occurrence(@[k].index,
                           [s \in DOMAIN @[k].segments |-> StoredSegment(@[k].segments[s])])]]

StoredDocument(d) ==
  [wps |-> d.wps, parameters |-> [i \in DOMAIN d.parameters |-> StoredParameter(d.parameters[i])]]

\* _load_parameter and load_dataframe
LoadedSegment(s) ==
  Segment(s.sequence, Decoded(s.selector), s.word, s.lsb, s.msb, s.weight, s.selector)

LoadedParameter(p) ==
  [p EXCEPT !.occurrences =
     [k \in DOMAIN @ |-> Occurrence(@[k].index,
                           [s \in DOMAIN @[k].segments |-> LoadedSegment(@[k].segments[s])])]]

LoadDataframe(row) ==
  [wps |-> row.wps, parameters |-> [i \in DOMAIN row.parameters |-> LoadedParameter(row.parameters[i])]]

\* What the connection itself sees
Documents == committed \o pending

InitRepository == committed = <<>> /\ pending = <<>> /\ given = <<>>

\* save_dataframe: the commit takes what an earlier save left pending.
SaveDataframe(d) ==
  /\ Len(Documents) < MaxDocuments
  /\ committed' = Append(Documents, StoredDocument(d))
  /\ pending' = <<>>
  /\ given' = Append(given, [document |-> d, whole |-> TRUE])

\* ... which an error ends after n parameters
SaveFails(d, n) ==
  /\ Len(Documents) < MaxDocuments
  /\ pending' = Append(pending, StoredDocument([d EXCEPT !.parameters = SubSeq(@, 1, n)]))
  /\ given' = Append(given, [document |-> d, whole |-> FALSE])
  /\ UNCHANGED committed

\* save_validation_issues commits as well.
SaveIssues ==
  /\ Documents # <<>> /\ pending # <<>>
  /\ committed' = Documents
  /\ pending' = <<>>
  /\ UNCHANGED given

\* The connection is closed, with or without the program: the open
\* transaction is rolled back.
Reopen ==
  /\ pending # <<>>
  /\ pending' = <<>>
  /\ given' = SubSeq(given, 1, Len(committed))
  /\ UNCHANGED committed

\* A document that was saved without an error is the dataframe it was saved
\* from, whatever edits its segments and their stored selectors went through
\* (repository.py:118).
StoredAsGiven ==
  \A k \in DOMAIN given :
    given[k].whole =>
      LET loaded == LoadDataframe(Documents[k])
          d == given[k].document
      IN  /\ loaded.wps = d.wps /\ Len(loaded.parameters) = Len(d.parameters)
          /\ \A i \in DOMAIN d.parameters :
               /\ loaded.parameters[i].id = d.parameters[i].id
               /\ SameParameter(loaded.parameters[i], d.parameters[i])
               /\ Record(loaded.parameters[i], d.wps) = Record(d.parameters[i], d.wps)
=============================================================================
