----------------------------- MODULE SetupProofs -----------------------------
(***************************************************************************)
(* For any export options, any edits beside the export and any faults: an  *)
(* imported project has all rows of its file with their references, or     *)
(* none.  For any wizards that try one after the other, beside the import  *)
(* of their records: what they queue is in order, and what one that ended  *)
(* was to make is there, once.                                             *)
(***************************************************************************)
EXTENDS ProjectTransfer, Wizard, FiniteSetTheorems, SequenceTheorems, TLAPS

\* The specification without fairness.
Transfer == TransferInit /\ [][TransferNext]_vars

-----------------------------------------------------------------------------
(* The data: rows, and the order of the sections.                            *)

Universe == ProjectRows \cup RecordRows(2) \cup {NewProject}
Place == [project |-> 1, attribute |-> 2, labeling_task |-> 3, label |-> 4, record |-> 5,
          token_statistics |-> 6, embedding |-> 7, tensor |-> 8, source |-> 9, user |-> 10, slice |-> 11,
          payload |-> 12, statistics |-> 13, slice_record |-> 14, weak_supervision |-> 15,
          association |-> 16, token |-> 17, knowledge_base |-> 18, term |-> 19, comment |-> 20]
Carries(k) == Sections[Place[k]].refs

LEMMA Order ==
  /\ Len(Sections) = 20
  /\ \A i \in 1..20 : Sections[i].kind \in DOMAIN Place /\ Place[Sections[i].kind] = i
<1>1. Len(Sections) = 20
  BY DEF Sections
<1>2. ASSUME NEW i \in 1..20 PROVE Sections[i].kind \in DOMAIN Place /\ Place[Sections[i].kind] = i
  BY DEF Sections, Place, Section, project_details, attributes, labeling_tasks, labeling_task_labels, records,
     token_statistics, embeddings, embedding_tensors, information_sources, used_users, data_slices,
     information_source_payloads, information_source_statistics, data_slice_record_association,
     weak_supervision_tasks, record_label_associations, record_label_association_tokens,
     slice_columns, knowledge_bases, terms, comments
<1> QED
  BY <1>1, <1>2

LEMMA Placed == \A k \in DOMAIN Place : Place[k] \in 1..20 /\ Sections[Place[k]].kind = k
  BY DEF Sections, Place, Section, project_details, attributes, labeling_tasks, labeling_task_labels, records,
     token_statistics, embeddings, embedding_tensors, information_sources, used_users, data_slices,
     information_source_payloads, information_source_statistics, data_slice_record_association,
     weak_supervision_tasks, record_label_associations, record_label_association_tokens,
     slice_columns, knowledge_bases, terms, comments

LEMMA UserColumns ==
  ASSUME NEW i \in 1..20, "created_by" \in Sections[i].refs
  PROVE  Sections[i].kind \in {"slice", "association", "weak_supervision", "comment"} /\ i > 10
  BY DEF Sections, Place, Section, project_details, attributes, labeling_tasks, labeling_task_labels, records,
     token_statistics, embeddings, embedding_tensors, information_sources, used_users, data_slices,
     information_source_payloads, information_source_statistics, data_slice_record_association,
     weak_supervision_tasks, record_label_associations, record_label_association_tokens,
     slice_columns, knowledge_bases, terms, comments

LEMMA Columns ==
  /\ Carries("token_statistics") = {"record_id", "attribute_id"}
  /\ Carries("tensor") = {"record_id", "embedding_id"}
  /\ Carries("slice_record") = {"data_slice_id", "record_id"}
  /\ Carries("association") =
       {"record_id", "labeling_task_label_id", "source_id", "weak_supervision_id", "created_by"}
  /\ Carries("token") = {"record_label_association_id"}
  /\ Carries("labeling_task") = {"attribute_id"}
  /\ Carries("label") = {"labeling_task_id"}
  /\ Carries("embedding") = {"attribute_id", "name"}
  /\ Carries("source") = {"labeling_task_id", "source_code"}
  /\ Carries("payload") = {"source_id"}
  /\ Carries("statistics") = {"source_id", "labeling_task_label_id"}
  /\ Carries("weak_supervision") = {"created_by"}
  /\ Carries("slice") = {"created_by", "info", "filter_data", "count_sql", "filter_raw"}
  /\ Carries("project") = {"tokenizer"}
  /\ Carries("term") = {"knowledge_base_id"}
  /\ Carries("comment") = {"xfkey", "created_by"}
  BY DEF Carries, Place, Sections, Section, project_details, slice_columns, labeling_tasks, labeling_task_labels,
     token_statistics, embeddings, embedding_tensors, information_sources, data_slices,
     information_source_payloads, information_source_statistics, data_slice_record_association,
     weak_supervision_tasks, record_label_associations, record_label_association_tokens,
     terms, comments

LEMMA Reads == Len(ReadOrder) = 19
  BY DEF ReadOrder

LEMMA AllRead ==
  ASSUME NEW k \in DOMAIN Place \ {"user"} PROVE k \in {ReadOrder[i] : i \in 1..19}
  BY DEF Place, ReadOrder

(* What the references refer to.                                             *)
Fixed == {"attribute", "labeling_task", "label", "slice", "weak_supervision",
          "knowledge_base"}
Several == {"project", "source", "embedding", "record", "association"}
Targets == Fixed \cup Several
TargetIds == (Fixed \X {1}) \cup (Several \X {1, 2})
TextColumns == {"name", "source_code", "info", "tokenizer"}
Texts == TextColumns \cup {"created_by"}
Points(r, ref) ==
  /\ ref = <<ref[1], ref[2]>> /\ ref[1] \in Carries(Kind(r))
  /\ \/ ref[1] = "created_by"
     \/ ref[1] = "name" /\ Kind(r) = "embedding" /\ ref[2] = Name(r.id[2])
     \/ ref[1] = "source_code" /\ Kind(r) = "source" /\ ref[2] \in {Name(1), <<"slice", 1>>}
     \/ ref[1] \in {"info", "tokenizer"}
     \/ /\ ref[1] \notin Texts /\ ref[2] \in TargetIds
        /\ Place[ref[2][1]] < Place[Kind(r)]
WellFormed(r) ==
  /\ Kind(r) \in DOMAIN Place \ {"user"} /\ r.id = <<Kind(r), r.id[2]>>
  /\ r.id[2] \in IF Kind(r) = "comment" THEN DOMAIN Place ELSE {1, 2}
  /\ Written(r) = r
  /\ \A ref \in r.refs : Points(r, ref)
  /\ Kind(r) \in Targets => r.id \in TargetIds

(* The exported columns of a kind, as the export writes them.                *)
LEMMA Writes ==
  ASSUME NEW k, NEW n, NEW refs,
         \A ref \in refs : ref[1] \in IF k \in DOMAIN written_joins THEN written_joins[k]
                                      ELSE written_entities[k]
  PROVE  Written(Row(k, n, refs)) = Row(k, n, refs)
  BY DEF Written, Row, Kind

LEMMA RowsOfRecord ==
  ASSUME NEW n \in {1, 2}, NEW r \in RecordRows(n) PROVE WellFormed(r)
<1>1. CASE r = Row("record", n, {})
  <2>1. r = Row("record", n, r.refs) /\ Kind(r) = "record" /\ r.id = <<"record", n>>
    BY <1>1 DEF Row, Kind
  <2>2. \A ref \in r.refs : Points(r, ref)
    BY <1>1, <2>1, Columns DEF Row, Points, TargetIds, Fixed, Several, Texts, TextColumns, Place
  <2>3. Written(r) = r
    BY <1>1, <2>1, Writes DEF Row, written_entities, written_joins
  <2> QED
    BY <2>1, <2>2, <2>3 DEF WellFormed, Place, Targets, TargetIds, Fixed, Several
<1>2. CASE r = Row("token_statistics", n, {<<"record_id", <<"record", n>> >>, <<"attribute_id", <<"attribute", 1>> >>})
  <2>1. r = Row("token_statistics", n, r.refs) /\ Kind(r) = "token_statistics" /\ r.id = <<"token_statistics", n>>
    BY <1>2 DEF Row, Kind
  <2>2. \A ref \in r.refs : Points(r, ref)
    BY <1>2, <2>1, Columns DEF Row, Points, TargetIds, Fixed, Several, Texts, TextColumns, Place
  <2>3. Written(r) = r
    BY <1>2, <2>1, Writes DEF Row, written_entities, written_joins
  <2> QED
    BY <2>1, <2>2, <2>3 DEF WellFormed, Place, Targets, TargetIds, Fixed, Several
<1>3. CASE r = Row("tensor", n, {<<"record_id", <<"record", n>> >>, <<"embedding_id", <<"embedding", 1>> >>})
  <2>1. r = Row("tensor", n, r.refs) /\ Kind(r) = "tensor" /\ r.id = <<"tensor", n>>
    BY <1>3 DEF Row, Kind
  <2>2. \A ref \in r.refs : Points(r, ref)
    BY <1>3, <2>1, Columns DEF Row, Points, TargetIds, Fixed, Several, Texts, TextColumns, Place
  <2>3. Written(r) = r
    BY <1>3, <2>1, Writes DEF Row, written_entities, written_joins
  <2> QED
    BY <2>1, <2>2, <2>3 DEF WellFormed, Place, Targets, TargetIds, Fixed, Several
<1>4. CASE r = Row("slice_record", n, {<<"record_id", <<"record", n>> >>, <<"data_slice_id", <<"slice", 1>> >>})
  <2>1. r = Row("slice_record", n, r.refs) /\ Kind(r) = "slice_record" /\ r.id = <<"slice_record", n>>
    BY <1>4 DEF Row, Kind
  <2>2. \A ref \in r.refs : Points(r, ref)
    BY <1>4, <2>1, Columns DEF Row, Points, TargetIds, Fixed, Several, Texts, TextColumns, Place
  <2>3. Written(r) = r
    BY <1>4, <2>1, Writes DEF Row, written_entities, written_joins
  <2> QED
    BY <2>1, <2>2, <2>3 DEF WellFormed, Place, Targets, TargetIds, Fixed, Several
<1>5. CASE r = Row("association", n, {<<"record_id", <<"record", n>> >>, <<"labeling_task_label_id", <<"label", 1>> >>, <<"source_id", <<"source", 1>> >>, <<"created_by", Stranger>>, <<"weak_supervision_id", <<"weak_supervision", 1>> >>})
  <2>1. r = Row("association", n, r.refs) /\ Kind(r) = "association" /\ r.id = <<"association", n>>
    BY <1>5 DEF Row, Kind
  <2>2. \A ref \in r.refs : Points(r, ref)
    BY <1>5, <2>1, Columns DEF Row, Points, TargetIds, Fixed, Several, Texts, TextColumns, Place
  <2>3. Written(r) = r
    BY <1>5, <2>1, Writes DEF Row, written_entities, written_joins
  <2> QED
    BY <2>1, <2>2, <2>3 DEF WellFormed, Place, Targets, TargetIds, Fixed, Several
<1>6. CASE r = Row("token", n, {<<"record_label_association_id", <<"association", n>> >>})
  <2>1. r = Row("token", n, r.refs) /\ Kind(r) = "token" /\ r.id = <<"token", n>>
    BY <1>6 DEF Row, Kind
  <2>2. \A ref \in r.refs : Points(r, ref)
    BY <1>6, <2>1, Columns DEF Row, Points, TargetIds, Fixed, Several, Texts, TextColumns, Place
  <2>3. Written(r) = r
    BY <1>6, <2>1, Writes DEF Row, written_entities, written_joins
  <2> QED
    BY <2>1, <2>2, <2>3 DEF WellFormed, Place, Targets, TargetIds, Fixed, Several
<1> QED
  BY <1>1, <1>2, <1>3, <1>4, <1>5, <1>6 DEF RecordRows

LEMMA RowsOfProject ==
  ASSUME NEW r \in ProjectRows PROVE WellFormed(r)
<1>1. CASE r = Row("attribute", 1, {})
  <2>1. r = Row("attribute", 1, r.refs) /\ Kind(r) = "attribute" /\ r.id = <<"attribute", 1>>
    BY <1>1 DEF Row, Kind
  <2>2. \A ref \in r.refs : Points(r, ref)
    BY <1>1, <2>1, Columns DEF Row, Points, TargetIds, Fixed, Several, Texts, TextColumns, Place
  <2>3. Written(r) = r
    BY <1>1, <2>1, Writes DEF Row, written_entities, written_joins
  <2> QED
    BY <2>1, <2>2, <2>3 DEF WellFormed, Place, Targets, TargetIds, Fixed, Several
<1>2. CASE r = Row("labeling_task", 1, {<<"attribute_id", <<"attribute", 1>> >>})
  <2>1. r = Row("labeling_task", 1, r.refs) /\ Kind(r) = "labeling_task" /\ r.id = <<"labeling_task", 1>>
    BY <1>2 DEF Row, Kind
  <2>2. \A ref \in r.refs : Points(r, ref)
    BY <1>2, <2>1, Columns DEF Row, Points, TargetIds, Fixed, Several, Texts, TextColumns, Place
  <2>3. Written(r) = r
    BY <1>2, <2>1, Writes DEF Row, written_entities, written_joins
  <2> QED
    BY <2>1, <2>2, <2>3 DEF WellFormed, Place, Targets, TargetIds, Fixed, Several
<1>3. CASE r = Row("label", 1, {<<"labeling_task_id", <<"labeling_task", 1>> >>})
  <2>1. r = Row("label", 1, r.refs) /\ Kind(r) = "label" /\ r.id = <<"label", 1>>
    BY <1>3 DEF Row, Kind
  <2>2. \A ref \in r.refs : Points(r, ref)
    BY <1>3, <2>1, Columns DEF Row, Points, TargetIds, Fixed, Several, Texts, TextColumns, Place
  <2>3. Written(r) = r
    BY <1>3, <2>1, Writes DEF Row, written_entities, written_joins
  <2> QED
    BY <2>1, <2>2, <2>3 DEF WellFormed, Place, Targets, TargetIds, Fixed, Several
<1>4. CASE r = Row("embedding", 1, {<<"attribute_id", <<"attribute", 1>> >>, <<"name", Name(1)>>})
  <2>1. r = Row("embedding", 1, r.refs) /\ Kind(r) = "embedding" /\ r.id = <<"embedding", 1>>
    BY <1>4 DEF Row, Kind
  <2>2. \A ref \in r.refs : Points(r, ref)
    BY <1>4, <2>1, Columns DEF Row, Points, TargetIds, Fixed, Several, Texts, TextColumns, Place
  <2>3. Written(r) = r
    BY <1>4, <2>1, Writes DEF Row, written_entities, written_joins
  <2> QED
    BY <2>1, <2>2, <2>3 DEF WellFormed, Place, Targets, TargetIds, Fixed, Several
<1>5. CASE r = Row("source", 1, {<<"labeling_task_id", <<"labeling_task", 1>> >>, <<"source_code", Name(1)>>})
  <2>1. r = Row("source", 1, r.refs) /\ Kind(r) = "source" /\ r.id = <<"source", 1>>
    BY <1>5 DEF Row, Kind
  <2>2. \A ref \in r.refs : Points(r, ref)
    BY <1>5, <2>1, Columns DEF Row, Points, TargetIds, Fixed, Several, Texts, TextColumns, Place
  <2>3. Written(r) = r
    BY <1>5, <2>1, Writes DEF Row, written_entities, written_joins
  <2> QED
    BY <2>1, <2>2, <2>3 DEF WellFormed, Place, Targets, TargetIds, Fixed, Several
<1>6. CASE r = Row("payload", 1, {<<"source_id", <<"source", 1>> >>})
  <2>1. r = Row("payload", 1, r.refs) /\ Kind(r) = "payload" /\ r.id = <<"payload", 1>>
    BY <1>6 DEF Row, Kind
  <2>2. \A ref \in r.refs : Points(r, ref)
    BY <1>6, <2>1, Columns DEF Row, Points, TargetIds, Fixed, Several, Texts, TextColumns, Place
  <2>3. Written(r) = r
    BY <1>6, <2>1, Writes DEF Row, written_entities, written_joins
  <2> QED
    BY <2>1, <2>2, <2>3 DEF WellFormed, Place, Targets, TargetIds, Fixed, Several
<1>7. CASE r = Row("statistics", 1, {<<"source_id", <<"source", 1>> >>, <<"labeling_task_label_id", <<"label", 1>> >>})
  <2>1. r = Row("statistics", 1, r.refs) /\ Kind(r) = "statistics" /\ r.id = <<"statistics", 1>>
    BY <1>7 DEF Row, Kind
  <2>2. \A ref \in r.refs : Points(r, ref)
    BY <1>7, <2>1, Columns DEF Row, Points, TargetIds, Fixed, Several, Texts, TextColumns, Place
  <2>3. Written(r) = r
    BY <1>7, <2>1, Writes DEF Row, written_entities, written_joins
  <2> QED
    BY <2>1, <2>2, <2>3 DEF WellFormed, Place, Targets, TargetIds, Fixed, Several
<1>8. CASE r = Row("weak_supervision", 1, {<<"created_by", Member>>})
  <2>1. r = Row("weak_supervision", 1, r.refs) /\ Kind(r) = "weak_supervision" /\ r.id = <<"weak_supervision", 1>>
    BY <1>8 DEF Row, Kind
  <2>2. \A ref \in r.refs : Points(r, ref)
    BY <1>8, <2>1, Columns DEF Row, Points, TargetIds, Fixed, Several, Texts, TextColumns, Place
  <2>3. Written(r) = r
    BY <1>8, <2>1, Writes DEF Row, written_entities, written_joins
  <2> QED
    BY <2>1, <2>2, <2>3 DEF WellFormed, Place, Targets, TargetIds, Fixed, Several
<1>9. CASE r = Row("slice", 1, {<<"created_by", Member>>, <<"info", Name(1)>>, <<"count_sql", <<"project", 1>> >>} \cup (slice_columns \X {<<k, 1>> : k \in {"attribute", "labeling_task", "label", "source", "record"}}))
  <2>1. r = Row("slice", 1, r.refs) /\ Kind(r) = "slice" /\ r.id = <<"slice", 1>>
    BY <1>9 DEF Row, Kind
  <2>2. \A ref \in r.refs : Points(r, ref)
    BY <1>9, <2>1, Columns DEF Row, Points, TargetIds, Fixed, Several, Texts, TextColumns, Place, slice_columns
  <2>3. Written(r) = r
    BY <1>9, <2>1, Writes DEF Row, written_entities, written_joins, slice_columns
  <2> QED
    BY <2>1, <2>2, <2>3 DEF WellFormed, Place, Targets, TargetIds, Fixed, Several
<1>10. CASE r = Row("knowledge_base", 1, {})
  <2>1. r = Row("knowledge_base", 1, r.refs) /\ Kind(r) = "knowledge_base" /\ r.id = <<"knowledge_base", 1>>
    BY <1>10 DEF Row, Kind
  <2>2. \A ref \in r.refs : Points(r, ref)
    BY <1>10, <2>1, Columns DEF Row, Points, TargetIds, Fixed, Several, Texts, TextColumns, Place
  <2>3. Written(r) = r
    BY <1>10, <2>1, Writes DEF Row, written_entities, written_joins
  <2> QED
    BY <2>1, <2>2, <2>3 DEF WellFormed, Place, Targets, TargetIds, Fixed, Several
<1>11. CASE r = Row("term", 1, {<<"knowledge_base_id", <<"knowledge_base", 1>> >>})
  <2>1. r = Row("term", 1, r.refs) /\ Kind(r) = "term" /\ r.id = <<"term", 1>>
    BY <1>11 DEF Row, Kind
  <2>2. \A ref \in r.refs : Points(r, ref)
    BY <1>11, <2>1, Columns DEF Row, Points, TargetIds, Fixed, Several, Texts, TextColumns, Place
  <2>3. Written(r) = r
    BY <1>11, <2>1, Writes DEF Row, written_entities, written_joins
  <2> QED
    BY <2>1, <2>2, <2>3 DEF WellFormed, Place, Targets, TargetIds, Fixed, Several
<1>12. ASSUME NEW k \in Commented, r = Row("comment", k, {<<"xfkey", <<k, 1>> >>, <<"created_by", Stranger>>})
      PROVE  WellFormed(r)
  <2>1. r = Row("comment", k, r.refs) /\ Kind(r) = "comment" /\ r.id = <<"comment", k>>
    BY <1>12 DEF Row, Kind
  <2>2. \A ref \in r.refs : Points(r, ref)
    BY <1>12, <2>1, Columns DEF Row, Points, TargetIds, Fixed, Several, Texts, TextColumns, Place, Commented
  <2>3. Written(r) = r
    BY <1>12, <2>1, Writes DEF Row, written_entities, written_joins
  <2> QED
    BY <2>1, <2>2, <2>3 DEF WellFormed, Place, Targets, TargetIds, Fixed, Several, Commented
<1>13. CASE r \in RecordRows(1)
  BY <1>13, RowsOfRecord
<1>14. CASE r = Row("project", 1, {<<"tokenizer", Language>>})
  <2>1. r = Row("project", 1, r.refs) /\ Kind(r) = "project" /\ r.id = <<"project", 1>>
    BY <1>14 DEF Row, Kind
  <2>2. \A ref \in r.refs : Points(r, ref)
    BY <1>14, <2>1, Columns DEF Row, Points, TargetIds, Fixed, Several, Texts, TextColumns, Place
  <2>3. Written(r) = r
    BY <1>14, <2>1, Writes DEF Row, written_entities, written_joins
  <2> QED
    BY <2>1, <2>2, <2>3 DEF WellFormed, Place, Targets, TargetIds, Fixed, Several
<1>15. CASE r = Row("embedding", 2, {<<"attribute_id", <<"attribute", 1>> >>, <<"name", Name(2)>>})
  <2>1. r = Row("embedding", 2, r.refs) /\ Kind(r) = "embedding" /\ r.id = <<"embedding", 2>>
    BY <1>15 DEF Row, Kind
  <2>2. \A ref \in r.refs : Points(r, ref)
    BY <1>15, <2>1, Columns DEF Row, Points, TargetIds, Fixed, Several, Texts, TextColumns, Place
  <2>3. Written(r) = r
    BY <1>15, <2>1, Writes DEF Row, written_entities, written_joins
  <2> QED
    BY <2>1, <2>2, <2>3 DEF WellFormed, Place, Targets, TargetIds, Fixed, Several
<1>16. CASE r = Row("source", 2, {<<"labeling_task_id", <<"labeling_task", 1>> >>, <<"source_code", <<"slice", 1>> >>})
  <2>1. r = Row("source", 2, r.refs) /\ Kind(r) = "source" /\ r.id = <<"source", 2>>
    BY <1>16 DEF Row, Kind
  <2>2. \A ref \in r.refs : Points(r, ref)
    BY <1>16, <2>1, Columns DEF Row, Points, TargetIds, Fixed, Several, Texts, TextColumns, Place
  <2>3. Written(r) = r
    BY <1>16, <2>1, Writes DEF Row, written_entities, written_joins
  <2> QED
    BY <2>1, <2>2, <2>3 DEF WellFormed, Place, Targets, TargetIds, Fixed, Several
<1> QED
  BY <1>14, <1>15, <1>16, <1>1, <1>2, <1>3, <1>4, <1>5, <1>6, <1>7, <1>8, <1>9, <1>10, <1>11, <1>12, <1>13 DEF ProjectRows

LEMMA NewRow == WellFormed(NewProject)
<1>1. NewProject = Row("project", 2, NewProject.refs) /\ Kind(NewProject) = "project" /\ NewProject.id = <<"project", 2>>
  BY DEF NewProject, Row, Kind
<1>2. NewProject.refs = {}
  BY DEF NewProject, Row
<1>3. Written(NewProject) = NewProject
  BY <1>1, <1>2, Writes
<1> QED
  BY <1>1, <1>2, <1>3 DEF WellFormed, Place, Targets, TargetIds, Fixed, Several

(* An id belongs to one row.                                                 *)
LEMMA Single ==
  ASSUME NEW r \in Universe, NEW x \in Universe, r.id = x.id PROVE r = x
  BY SMTT(60) DEF Universe, ProjectRows, RecordRows, NewProject, Row, Commented

LEMMA Rows ==
  ASSUME NEW r \in Universe PROVE WellFormed(r)
  BY RowsOfProject, RowsOfRecord, NewRow DEF Universe

(* There are finitely many rows: each has a number of its own.               *)
LEMMA Apart ==
  ASSUME NEW a \in Nat, NEW b \in Nat, NEW c \in {1, 2}, NEW d \in {1, 2}, a * 3 + c = b * 3 + d
  PROVE  a = b /\ c = d
  OBVIOUS

LEMMA FiniteRows == IsFiniteSet(Universe)
<1> DEFINE Number(r) == IF Kind(r) = "comment" THEN 70 + Place[r.id[2]] ELSE Place[Kind(r)] * 3 + r.id[2]
           f == [r \in Universe |-> Number(r)]
<1>1. \A k \in DOMAIN Place : Place[k] \in 1..20 /\ Sections[Place[k]].kind = k
  BY Placed
<1>2. ASSUME NEW r \in Universe PROVE Number(r) \in 1..100
  BY <1>1, Rows DEF WellFormed
<1>3. ASSUME NEW r \in Universe, NEW x \in Universe, Number(r) = Number(x) PROVE r.id = x.id
  <2>1. CASE Kind(r) # "comment" /\ Kind(x) # "comment"
    <3>1. /\ Place[Kind(r)] \in Nat /\ Place[Kind(x)] \in Nat /\ r.id[2] \in {1, 2} /\ x.id[2] \in {1, 2}
          /\ Place[Kind(r)] * 3 + r.id[2] = Place[Kind(x)] * 3 + x.id[2]
      BY <1>1, <1>3, <2>1, Rows DEF WellFormed
    <3>2. Place[Kind(r)] = Place[Kind(x)] /\ r.id[2] = x.id[2]
      BY <3>1, Apart
    <3> QED
      BY <3>2, <1>1, Rows DEF WellFormed
  <2>2. CASE Kind(r) = "comment" \/ Kind(x) = "comment"
    <3>1. Kind(r) = "comment" /\ Kind(x) = "comment"
      BY <1>1, <1>3, <2>2, Rows DEF WellFormed
    <3>2. Place[r.id[2]] = Place[x.id[2]]
      BY <1>1, <1>3, <3>1, Rows DEF WellFormed
    <3> QED
      BY <3>1, <3>2, <1>1, Rows DEF WellFormed
  <2> QED
    BY <2>1, <2>2
<1>4. f \in Injection(Universe, 1..100)
  BY <1>2, <1>3, Single DEF Injection, IsInjective
<1>5. IsFiniteSet(1..100)
  <2>1. 1 \in Int /\ 100 \in Int
    OBVIOUS
  <2> QED
    BY <2>1, FS_Interval, Zenon
<1> QED
  BY <1>4, <1>5, FS_Injection

-----------------------------------------------------------------------------
(* The export: a row that others refer to is in the file once its kind was   *)
(* read, or there is a reason.                                               *)

KindsRead == {ReadOrder[i] : i \in 1..reading}
Missing(r) ==
  \/ ~(Needs(Kind(r)) \subseteq options)
  \/ Kind(r) = "embedding" /\ (r.id[2] \notin finished \/ edits > 0)
  \/ Kind(r) \in {"record", "association"} /\ <<"record", r.id[2]>> \in touched
  \/ r \notin project
ExportInv ==
  /\ reading \in 0..19 /\ edits \in Nat
  /\ project \subseteq Universe /\ dump \subseteq Universe
  /\ \A r \in Universe : Kind(r) \in Targets \cap KindsRead => r \in dump \/ Missing(r)

LEMMA RecordRowsKnown ==
  ASSUME NEW n \in {1, 2}, NEW r \in RecordRows(n)
  PROVE  /\ r \in Universe /\ Kind(r) \notin Fixed
         /\ Kind(r) \in Targets => Kind(r) \in {"record", "association"} /\ r.id[2] = n
<1>1. r \in Universe
  BY DEF Universe, ProjectRows
<1>2. Kind(r) \in {"record", "token_statistics", "tensor", "slice_record", "association", "token"} /\ r.id[2] = n
  BY DEF RecordRows, Row, Kind
<1> QED
  BY <1>1, <1>2 DEF Targets, Fixed, Several

LEMMA ExportAtFirst == TransferInit => ExportInv
<1> SUFFICES ASSUME TransferInit PROVE ExportInv
  OBVIOUS
<1>1. /\ reading \in 0..19 /\ edits \in Nat /\ dump = {} /\ project \in {ProjectRows, {NewProject}}
  BY DEF TransferInit
<1>3. KindsRead = {}
  BY DEF TransferInit, KindsRead
<1> QED
  BY <1>1, <1>3 DEF ExportInv, Universe

(* A read gets the rows of its kind that are asked for.                      *)
LEMMA ReadStep ==
  ASSUME ExportInv, ReadNext PROVE ExportInv'
<1>1. /\ reading \in 0..18 /\ reading' = reading + 1 /\ UNCHANGED <<project, finished, touched, edits, options>>
      /\ dump' = dump \cup {Written(r) : r \in {x \in project : Kind(x) = ReadOrder[reading + 1] /\ Exported(x, options)}}
  BY Reads DEF ReadNext, ExportInv, sourceVars
<1>2. dump' = dump \cup {x \in project : Kind(x) = ReadOrder[reading + 1] /\ Exported(x, options)}
  BY <1>1, Rows DEF ExportInv, WellFormed
<1>3. KindsRead' = KindsRead \cup {ReadOrder[reading + 1]}
  BY <1>1 DEF KindsRead
<1>4. ASSUME NEW r \in Universe, Kind(r) \in Targets \cap KindsRead' PROVE r \in dump' \/ Missing(r)'
  <2>1. Missing(r) <=> Missing(r)'
    BY <1>1 DEF Missing
  <2>2. CASE Kind(r) \in KindsRead
    BY <1>2, <1>4, <2>1, <2>2 DEF ExportInv
  <2>3. CASE Kind(r) = ReadOrder[reading + 1] /\ ~Missing(r)
    <3>1. r \in project /\ Needs(Kind(r)) \subseteq options /\ (Kind(r) = "embedding" => r.id[2] \in finished)
      BY <2>3 DEF Missing
    <3>2. Kind(r) # "comment"
      BY <1>4 DEF Targets, Fixed, Several
    <3> QED
      BY <1>2, <2>3, <3>1, <3>2 DEF Exported
  <2> QED
    BY <1>3, <1>4, <2>1, <2>2, <2>3
<1>5. reading' \in 0..19 /\ edits' \in Nat /\ project' \subseteq Universe /\ dump' \subseteq Universe
  BY <1>1, <1>2 DEF ExportInv
<1> QED
  BY <1>4, <1>5 DEF ExportInv

(* Records that come or go meanwhile are touched.                            *)
LEMMA TouchStep ==
  ASSUME ExportInv, NEW n \in {1, 2}, NEW newRows, Touch(n, newRows),
         UNCHANGED <<finished, options, reading, dump>>, newRows \subseteq project \cup RecordRows(n)
  PROVE  ExportInv'
<1>1. /\ project' = newRows /\ edits' = edits + 1
      /\ touched' = IF reading > 0 THEN touched \cup {<<"record", n>>} ELSE touched
  BY DEF Touch
<1>2. KindsRead' = KindsRead
  BY DEF KindsRead
<1>3. project' \subseteq Universe
  BY <1>1, RecordRowsKnown DEF ExportInv
<1>4. ASSUME NEW r \in Universe, Kind(r) \in Targets \cap KindsRead, r \notin dump PROVE Missing(r)'
  <2>1. Missing(r) /\ reading > 0
    BY <1>4 DEF ExportInv, KindsRead
  <2>2. CASE r \notin project /\ r \in newRows
    BY <1>1, <1>4, <2>1, <2>2, RecordRowsKnown DEF Missing
  <2> QED
    BY <1>1, <2>1, <2>2 DEF Missing, ExportInv
<1> QED
  BY <1>1, <1>2, <1>3, <1>4 DEF ExportInv

LEMMA ExportStep == ExportInv /\ [TransferNext]_vars => ExportInv'
<1> SUFFICES ASSUME ExportInv, [TransferNext]_vars PROVE ExportInv'
  OBVIOUS
<1> USE DEF sourceVars, exportVars, importVars, afterVars, vars
<1>1. CASE ReadNext
  BY <1>1, ReadStep
<1>2. CASE AddRecord
  BY <1>2, TouchStep DEF AddRecord
<1>3. ASSUME NEW n \in {1, 2}, DeleteRecord(n) PROVE ExportInv'
  BY <1>3, TouchStep DEF DeleteRecord
<1>4. ASSUME NEW n \in {1, 2}, Recreate(n) PROVE ExportInv'
  <2>1. /\ edits' = edits + 1 /\ UNCHANGED <<project, touched, options, reading, dump>>
    BY <1>4 DEF Recreate
  <2>2. KindsRead' = KindsRead /\ \A r : Missing(r) => Missing(r)'
    BY <2>1 DEF KindsRead, Missing, ExportInv
  <2> QED
    BY <2>1, <2>2 DEF ExportInv
<1>5. CASE UNCHANGED <<project, finished, touched, edits, options, reading, dump>>
  BY <1>5 DEF ExportInv, KindsRead, Missing
<1>6. CASE import_file_by_task \/ ImportStep \/ SectionRaises \/ CallRaises \/ Stop
  BY <1>5, <1>6 DEF import_file_by_task, ImportStep, import_file, CommitImport, FinishTask, init_file_import,
     SectionRaises, CallRaises, HandleError, Stop
<1>7. CASE TokenizationEnds \/ ThreadStep \/ ThreadRaises \/ UNCHANGED vars
  BY <1>5, <1>7 DEF TokenizationEnds, ThreadStep, WaitForTokenization, post_processing_import_threaded, ThreadRaises
<1> QED
  BY <1>1, <1>2, <1>3, <1>4, <1>6, <1>7 DEF TransferNext

-----------------------------------------------------------------------------
(* The import: what a section made is a copy of what the file has, and       *)
(* nothing else is made.                                                     *)

FileIds == {d.id : d \in dump}
Left(r) ==
  \/ Kind(r) = "comment" /\ \E ref \in r.refs : ref[1] = "xfkey" /\ ref[2] \notin FileIds
  \/ Kind(r) = "tensor" /\ Of("embedding") = {}
InFile == Held("name", Of("embedding"))
Right(ref, v) ==
  IF ref[1] = "created_by" THEN v = ref[2] /\ v \in users
  ELSE IF ref[1] \in {"info", "tokenizer"} THEN v = ref[2]
  ELSE IF ref[1] \in TextColumns THEN v = IF legacy /\ ref[2] \in InFile THEN Renamed(ref[2]) ELSE ref[2]
  ELSE v = New(ref[2])
Copy(x, r) ==
  /\ x.id = New(r.id)
  /\ \A ref \in r.refs :
       ref[1] \in Texts \/ ref[2] \in FileIds =>
         \E v : <<ref[1], v>> \in x.refs /\ Right(ref, v)
Came(r, n) == r \in dump /\ Place[Kind(r)] < n /\ ~Left(r)
Faithful(made, n) ==
  /\ \A x \in made : \E r \in dump : Came(r, n) /\ x.id = New(r.id)
  /\ \A x \in made, y \in made : x.id = y.id => x = y
  /\ \A r \in dump : Came(r, n) => \E x \in made : Copy(x, r)

KnownIds(n) == {r.id : r \in {x \in dump : Place[Kind(x)] < n}}
OpenInv ==
  /\ rows = {} /\ ids = KnownIds(place)
  /\ renamed = IF legacy /\ place > 7 THEN InFile ELSE {}
  /\ place > 10 => Creators(WithUsers) \subseteq users
  /\ Faithful(session, place)
ClosedInv ==
  /\ session = rows
  /\ rows # {} => post # "none" /\ ids = FileIds /\ Faithful(rows, 21)
ImportInv ==
  /\ place \in 0..24 /\ (place > 0 => reading = 19)
  /\ IF place \in 0..21 THEN OpenInv ELSE ClosedInv
  /\ refused => place > 0 /\ (Held("tokenizer", Of("project")) = {} \/ (legacy /\ Of("attribute") = {}))
  /\ task = "DONE" => place > 21

(* A section adds the ids of its kind.                                       *)
LEMMA SectionIs ==
  ASSUME ExportInv, NEW n \in 1..20
  PROVE  /\ KnownIds(n + 1) = KnownIds(n) \cup {r.id : r \in Of(Sections[n].kind)}
         /\ \A r \in dump : Place[Kind(r)] < n + 1 <=> Place[Kind(r)] < n \/ r \in Of(Sections[n].kind)
<1>1. \A r \in dump : Kind(r) \in DOMAIN Place
  BY Rows DEF ExportInv, WellFormed
<1>2. \A r \in dump : Place[Kind(r)] = n <=> r \in Of(Sections[n].kind)
  BY <1>1, Order, Placed DEF Of
<1>3. \A r \in dump : Place[Kind(r)] < n + 1 <=> Place[Kind(r)] < n \/ r \in Of(Sections[n].kind)
  BY <1>1, <1>2, Placed
<1> QED
  BY <1>3 DEF KnownIds, Of

(* An id of the file is known when a section comes that refers to it.        *)
LEMMA RefKnown ==
  ASSUME ExportInv, NEW r \in dump, NEW ref \in r.refs, ref[1] \notin Texts
  PROVE  ref[2] \in FileIds <=> ref[2] \in KnownIds(Place[Kind(r)])
<1>1. ref[2] \in TargetIds /\ Place[ref[2][1]] < Place[Kind(r)]
  BY Rows DEF ExportInv, WellFormed, Points, Texts, TextColumns
<1>2. \A d \in dump : Kind(d) = d.id[1]
  BY DEF Kind
<1> QED
  BY <1>1, <1>2 DEF FileIds, KnownIds

LEMMA SkippedIs ==
  ASSUME ExportInv, OpenInv, place \in 1..20, NEW r \in Of(Sections[place].kind)
  PROVE  Skipped(r) <=> Left(r)
<1>1. r \in dump /\ Kind(r) = Sections[place].kind /\ Place[Kind(r)] = place
  BY Order DEF Of
<1>2. \A ref \in r.refs : ref[1] = "xfkey" => (ref[2] \in ids <=> ref[2] \in FileIds)
  BY <1>1, RefKnown DEF OpenInv, Texts, TextColumns
<1> QED
  BY <1>2 DEF Skipped, Left

(* A section makes copies.                                                   *)
LEMMA MadeIsCopy ==
  ASSUME ExportInv, OpenInv, place \in 1..20, import_file,
         NEW r \in Of(Sections[place].kind), NEW m, m = Made(r, Sections[place].refs)
  PROVE  Copy(m, r)'
<1> DEFINE s == Sections[place]
<1>1. r \in dump /\ r \in Universe /\ Kind(r) = s.kind /\ Place[Kind(r)] = place /\ Carries(Kind(r)) = s.refs
  BY Order DEF Of, Carries, ExportInv
<1>2. /\ UNCHANGED <<dump, legacy>> /\ users \subseteq users' /\ ~Raises(s)
  BY DEF import_file, exportVars
<1>2a. InFile' = InFile
  BY <1>2 DEF InFile, Held, Of
<1>3. m.id = New(r.id) /\ \A ref \in r.refs : ref[1] \in s.refs => {ref[1]} \X Carried(ref[1], ref[2]) \subseteq m.refs
  BY DEF Made
<1>4. ASSUME NEW ref \in r.refs, ref[1] \in Texts \/ ref[2] \in FileIds
      PROVE  \E v : v \in Carried(ref[1], ref[2]) /\ Right(ref, v)'
  <2>1. Points(r, ref)
    BY <1>1, Rows DEF WellFormed
  <2>2. CASE ref[1] = "created_by"
    <3>1. ref[2] \in Creators(Of(s.kind))
      BY <2>2 DEF Creators, Held
    <3>2. ref[2] \in users
      BY <1>1, <1>2, <2>1, <2>2, <3>1 DEF Raises, Points
    <3> QED
      BY <1>2, <2>2, <3>2 DEF Carried, Right
  <2>3. CASE ref[1] = "name"
    <3>1. r \in Of("embedding")
      BY <1>1, <2>1, <2>3 DEF Points, Of, Texts, TextColumns
    <3>2. ref[2] \in InFile
      BY <2>3, <3>1 DEF InFile, Held
    <3> QED
      BY <1>2, <1>2a, <2>3, <3>2 DEF Carried, Right, TextColumns, slice_columns
  <2>4. CASE ref[1] = "source_code"
    <3>1. place > 7
      BY <1>1, <2>1, <2>4 DEF Points, Texts, TextColumns, Place
    <3>2. renamed = IF legacy THEN InFile ELSE {}
      BY <3>1 DEF OpenInv
    <3> QED
      BY <1>2, <1>2a, <2>4, <3>2 DEF Carried, Right, TextColumns, slice_columns
  <2>6. CASE ref[1] \in {"info", "tokenizer"}
    BY <2>6 DEF Carried, Right
  <2>5. CASE ref[1] \notin Texts
    <3>1. ref[2] \in ids
      BY <1>1, <1>4, <2>5, RefKnown DEF OpenInv
    <3>2. New(ref[2]) \in Carried(ref[1], ref[2])
      BY <2>5, <3>1 DEF Carried, Texts, TextColumns, replace_by_mappings
    <3> QED
      BY <2>5, <3>2 DEF Right, Texts, TextColumns
  <2> QED
    BY <2>2, <2>3, <2>4, <2>5, <2>6 DEF Texts, TextColumns
<1>5. ASSUME NEW ref \in r.refs, ref[1] \in Texts \/ ref[2] \in FileIds
      PROVE  \E v : <<ref[1], v>> \in m.refs /\ Right(ref, v)'
  <2>1. ref[1] \in s.refs
    BY <1>1, Rows DEF WellFormed, Points
  <2> QED
    BY <1>3, <1>4, <1>5, <2>1
<1>6. FileIds' = FileIds
  BY <1>2 DEF FileIds
<1> QED
  BY <1>3, <1>5, <1>6 DEF Copy

LEMMA SectionStep ==
  ASSUME ExportInv, OpenInv, place \in 1..20, import_file PROVE OpenInv'
<1> DEFINE s == Sections[place]
           new == {r \in Of(s.kind) : ~Left(r)}
<1>1. /\ UNCHANGED <<dump, legacy, rows>> /\ place' = place + 1
      /\ session' = session \cup {Made(r, s.refs) : r \in {x \in Of(s.kind) : ~Skipped(x)}}
      /\ ids' = ids \cup {r.id : r \in Of(s.kind)}
      /\ renamed' = IF s.kind = "embedding" /\ legacy THEN InFile ELSE renamed
      /\ users' = users \cup used_user_ids(s)
  BY DEF import_file, exportVars, InFile
<1>2. session' = session \cup {Made(r, s.refs) : r \in new}
  BY <1>1, SkippedIs
<1>3. \A k : Of(k)' = Of(k)
  BY <1>1 DEF Of
<1>4. FileIds' = FileIds /\ \A r : Left(r)' <=> Left(r)
  BY <1>1, <1>3 DEF FileIds, Left
<1>5. KnownIds(place)' = KnownIds(place + 1)
  BY <1>1 DEF KnownIds
<1>6. ids' = KnownIds(place)'
  BY <1>1, <1>5, SectionIs DEF OpenInv
<1>7. renamed' = IF legacy' /\ place' > 7 THEN InFile' ELSE {}
  <2>1. s.kind = "embedding" <=> place = 7
    BY Order, Placed DEF Place
  <2>2. InFile' = InFile
    BY <1>3 DEF InFile, Held
  <2> QED
    BY <1>1, <2>1, <2>2 DEF OpenInv
<1>8. place' > 10 => (Creators(WithUsers) \subseteq users)'
  <2>1. Creators(WithUsers)' = Creators(WithUsers)
    BY <1>3 DEF Creators, Held, WithUsers
  <2>2. place = 10 => s.kind = "user"
    BY Placed DEF Place
  <2> QED
    BY <1>1, <2>1, <2>2 DEF OpenInv, used_user_ids
<1>9. \A r \in dump : Came(r, place)' <=> Came(r, place) \/ r \in new
  BY <1>1, <1>4, SectionIs DEF Came, Of
<1>10. \A r : Of(s.kind) \subseteq dump /\ Made(r, s.refs).id = New(r.id)
  BY DEF Of, Made
<1>11. ASSUME NEW x \in session' PROVE \E r \in dump' : Came(r, place)' /\ x.id = New(r.id)
  <2>1. CASE x \in session
    BY <1>1, <1>9, <2>1 DEF OpenInv, Faithful
  <2>2. CASE x \in {Made(r, s.refs) : r \in new}
    BY <1>1, <1>9, <1>10, <2>2
  <2> QED
    BY <1>2, <2>1, <2>2
<1>12. ASSUME NEW x \in session', NEW y \in session', x.id = y.id PROVE x = y
  <2>1. \A r \in dump, q \in dump : New(r.id) = New(q.id) => r = q
    BY Single DEF New, ExportInv
  <2>2. \A r \in new : Place[Kind(r)] = place
    BY Order DEF Of
  <2>3. CASE x \in session /\ y \in session
    BY <1>12, <2>3 DEF OpenInv, Faithful
  <2>4. \A z \in session, r \in new : z.id # New(r.id)
    BY <1>10, <2>1, <2>2 DEF OpenInv, Faithful, Came
  <2>5. CASE x \in {Made(r, s.refs) : r \in new} /\ y \in {Made(r, s.refs) : r \in new}
    BY <1>10, <1>12, <2>1, <2>5
  <2> QED
    BY <1>2, <1>10, <1>12, <2>3, <2>4, <2>5
<1>13. ASSUME NEW r \in dump', Came(r, place)' PROVE \E x \in session' : Copy(x, r)'
  <2>1. CASE Came(r, place)
    <3>1. PICK x \in session : Copy(x, r)
      BY <1>1, <2>1 DEF OpenInv, Faithful
    <3>2. \A ref, v : Right(ref, v) => Right(ref, v)'
      BY <1>1, <1>3 DEF Right, InFile, Held
    <3>3. Copy(x, r)'
      BY <1>4, <3>1, <3>2 DEF Copy
    <3> QED
      BY <1>1, <3>3
  <2>2. CASE r \in new
    <3>1. PICK m : m = Made(r, s.refs)
      OBVIOUS
    <3>2. Copy(m, r)'
      BY <2>2, <3>1, MadeIsCopy
    <3> QED
      BY <1>2, <2>2, <3>1, <3>2
  <2> QED
    BY <1>1, <1>9, <1>13, <2>1, <2>2
<1>14. Faithful(session, place)'
  BY <1>11, <1>12, <1>13 DEF Faithful
<1> QED
  BY <1>1, <1>6, <1>7, <1>8, <1>14 DEF OpenInv

(* No section raises by itself but that of the project, without a tokenizer, *)
(* and that of the embeddings, in an old file without attributes.            *)
LEMMA RaisesOnly ==
  ASSUME ExportInv, OpenInv, place \in 1..20, Raises(Sections[place])
  PROVE  Held("tokenizer", Of("project")) = {} \/ (legacy /\ Of("attribute") = {})
<1> DEFINE s == Sections[place]
<1>1. CASE "created_by" \in s.refs /\ ~(Creators(Of(s.kind)) \subseteq users)
  <2>1. s.kind \in {"slice", "association", "weak_supervision", "comment"} /\ place > 10
    BY <1>1, UserColumns
  <2>2. Creators(Of(s.kind)) \subseteq Creators(WithUsers)
    BY <2>1 DEF Creators, Held, WithUsers
  <2> QED
    BY <1>1, <2>1, <2>2 DEF OpenInv
<1>2. CASE s.kind = "embedding" /\ legacy /\ <<"attribute", 1>> \notin ids
  <2>1. place = 7
    BY <1>2, Order DEF Place
  <2>2. ASSUME NEW r \in Of("attribute") PROVE FALSE
    <3>1. r \in dump /\ r.id = <<"attribute", 1>>
      BY <2>2, Rows DEF ExportInv, Of, WellFormed, Targets, TargetIds, Fixed, Several
    <3>2. Place[Kind(r)] < 7
      BY <2>2 DEF Of, Place
    <3> QED
      BY <1>2, <2>1, <3>1, <3>2 DEF OpenInv, KnownIds
  <2> QED
    BY <1>2, <2>2
<1> QED
  BY <1>1, <1>2 DEF Raises

(* What the steps after the sections leave alone.                            *)
LEMMA FaithStays ==
  ASSUME UNCHANGED <<dump, legacy, users, rows>>, Faithful(rows, 21) PROVE Faithful(rows, 21)'
<1>1. FileIds' = FileIds /\ \A k : Of(k)' = Of(k)
  BY DEF FileIds, Of
<1>3. InFile' = InFile
  BY <1>1 DEF InFile, Held
<1>2. /\ \A r, n : Came(r, n)' <=> Came(r, n)
      /\ \A x, r : Copy(x, r)' <=> Copy(x, r)
  BY <1>1, <1>3 DEF Came, Left, Copy, Right
<1> QED
  BY <1>2 DEF Faithful

LEMMA ClosedStays ==
  ASSUME ClosedInv, UNCHANGED <<dump, legacy, rows, ids>>, session' = rows', post' # "none" \/ post' = post,
         rows # {} => UNCHANGED users
  PROVE  ClosedInv'
  BY FaithStays DEF ClosedInv, FileIds

LEMMA ImportAtFirst == TransferInit => ImportInv
<1> SUFFICES ASSUME TransferInit PROVE ImportInv
  OBVIOUS
<1> QED
  BY DEF TransferInit, ImportInv, OpenInv, KnownIds, Faithful

LEMMA ImportKept == ExportInv /\ ImportInv /\ [TransferNext]_vars => ImportInv'
<1> SUFFICES ASSUME ExportInv, ImportInv, [TransferNext]_vars PROVE ImportInv'
  OBVIOUS
<1> USE DEF sourceVars, exportVars, importVars, afterVars, vars
<1> DEFINE Lengths == Len(Sections) = 20 /\ Len(ReadOrder) = 19
<1>0. Lengths
  BY Order, Reads
<1>1. ASSUME ReadNext PROVE ImportInv'
  <2>1. place = 0 /\ UNCHANGED <<place, ids, renamed, session, users, rows, task, refused, post, legacy>> /\ reading < 19
    BY <1>0, <1>1 DEF ReadNext, ImportInv
  <2>2. \A r \in Universe : ~(Place[Kind(r)] < 0)
    BY Rows, Placed DEF WellFormed
  <2>3. ids = {} /\ session = {}
    BY <2>1, <2>2 DEF ImportInv, OpenInv, KnownIds, Faithful, Came, ExportInv
  <2>4. dump' \subseteq Universe
    BY <1>1, ReadStep DEF ExportInv
  <2>5. KnownIds(place)' = {} /\ Faithful(session, place)'
    BY <2>1, <2>2, <2>3, <2>4 DEF KnownIds, Faithful, Came
  <2> QED
    BY <2>1, <2>3, <2>5 DEF ImportInv, OpenInv
<1>2. ASSUME UNCHANGED <<reading, dump, legacy, importVars>>, post' # "none" \/ post' = post PROVE ImportInv'
  <2>1. FileIds' = FileIds /\ (\A k : Of(k)' = Of(k)) /\ \A n : KnownIds(n)' = KnownIds(n)
    BY <1>2 DEF FileIds, Of, KnownIds
  <2>7. InFile' = InFile
    BY <2>1 DEF InFile, Held
  <2>2. /\ \A r, n : Came(r, n)' <=> Came(r, n)
        /\ \A x, r : Copy(x, r)' <=> Copy(x, r)
    BY <1>2, <2>1, <2>7 DEF Came, Left, Copy, Right
  <2>3. /\ Faithful(session, place)' <=> Faithful(session, place)
        /\ Faithful(rows, 21)' <=> Faithful(rows, 21)
    BY <1>2, <2>2 DEF Faithful
  <2>4. Creators(WithUsers)' = Creators(WithUsers)
    BY <2>1 DEF Creators, Held, WithUsers
  <2>5. OpenInv => OpenInv'
    BY <1>2, <2>1, <2>3, <2>4, <2>7 DEF OpenInv
  <2>6. ClosedInv => ClosedInv'
    BY <1>2, <2>1, <2>3 DEF ClosedInv
  <2> QED
    BY <1>2, <2>1, <2>5, <2>6 DEF ImportInv
<1>3. CASE AddRecord \/ (\E n \in {1, 2} : Recreate(n) \/ DeleteRecord(n)) \/ UNCHANGED vars
  BY <1>2, <1>3 DEF AddRecord, Recreate, DeleteRecord
<1>4. CASE TokenizationEnds \/ ThreadStep \/ ThreadRaises
  BY <1>2, <1>4 DEF TokenizationEnds, ThreadStep, WaitForTokenization, post_processing_import_threaded, ThreadRaises
<1>5. \A k : (UNCHANGED dump => Of(k)' = Of(k))
  BY DEF Of
<1>6. CASE import_file_by_task
  <2>1. /\ place = 0 /\ place' = 1 /\ reading' = 19 /\ task' # "DONE"
        /\ UNCHANGED <<dump, legacy, ids, renamed, session, users, rows, refused>>
    BY <1>0, <1>6 DEF import_file_by_task
  <2>2. \A r \in dump : ~(Place[Kind(r)] < 0) /\ ~(Place[Kind(r)] < 1)
    BY Rows, Placed DEF WellFormed, ExportInv
  <2>3. rows = {} /\ ids = {} /\ session = {} /\ renamed = {}
    BY <2>1, <2>2 DEF ImportInv, OpenInv, KnownIds, Faithful, Came
  <2>4. KnownIds(place)' = {} /\ Faithful(session, place)'
    BY <2>1, <2>2, <2>3 DEF KnownIds, Faithful, Came
  <2> QED
    BY <1>5, <2>1, <2>3, <2>4 DEF ImportInv, OpenInv
<1>7. CASE import_file
  <2>1. place \in 1..20 /\ place' = place + 1 /\ UNCHANGED <<dump, legacy, reading, refused, task>>
    BY <1>0, <1>7 DEF import_file, Importing
  <2>2. OpenInv'
    BY <1>7, <2>1, SectionStep DEF ImportInv
  <2> QED
    BY <1>5, <2>1, <2>2 DEF ImportInv
<1>8. CASE CommitImport
  <2>1. /\ place = 21 /\ place' = 22 /\ rows' = session /\ post' = "sleep"
        /\ UNCHANGED <<dump, legacy, reading, ids, session, users, refused, task>>
    BY <1>0, <1>8 DEF CommitImport
  <2>2. FileIds' = FileIds /\ KnownIds(21) = FileIds
    BY <2>1, Rows, Placed DEF FileIds, KnownIds, ExportInv, WellFormed
  <2>6. InFile' = InFile
    BY <1>5, <2>1 DEF InFile, Held
  <2>3. /\ \A r : Came(r, 21)' <=> Came(r, 21)
        /\ \A x, r : Copy(x, r)' <=> Copy(x, r)
    BY <1>5, <2>1, <2>2, <2>6 DEF Came, Left, Copy, Right
  <2>4. Faithful(rows, 21)'
    BY <2>1, <2>3 DEF Faithful, ImportInv, OpenInv
  <2>5. ClosedInv'
    BY <2>1, <2>2, <2>4 DEF ClosedInv, ImportInv, OpenInv
  <2> QED
    BY <1>5, <2>1, <2>5 DEF ImportInv
<1>9. CASE FinishTask \/ init_file_import
  <2>1. /\ place \in {22, 23} /\ place' = place + 1
        /\ UNCHANGED <<dump, legacy, reading, ids, session, rows, users, refused, post>>
    BY <1>0, <1>9 DEF FinishTask, init_file_import
  <2>2. ClosedInv
    BY <2>1 DEF ImportInv
  <2>3. session' = rows'
    BY <2>1, <2>2 DEF ClosedInv
  <2>4. ClosedInv'
    BY <2>1, <2>2, <2>3, ClosedStays
  <2> QED
    BY <1>5, <2>1, <2>4 DEF ImportInv
<1>10. CASE SectionRaises \/ CallRaises \/ Stop
  <2>1. /\ place > 0 /\ place' = 24 /\ task' \in {task, "ERROR"} /\ session' = rows
        /\ UNCHANGED <<dump, legacy, reading, ids, rows>> /\ (rows # {} => UNCHANGED users)
        /\ post' = "stopped" \/ post' = post
    BY <1>0, <1>10 DEF SectionRaises, Importing, CallRaises, Stop, HandleError
  <2>2. ASSUME place > 21 PROVE ClosedInv'
    <3>1. ClosedInv
      BY <2>2 DEF ImportInv
    <3>2. session' = rows'
      BY <2>1
    <3> QED
      BY <2>1, <3>1, <3>2, ClosedStays
  <2>3. ASSUME place \in 1..21 PROVE ClosedInv'
    BY <2>1, <2>3 DEF ImportInv, OpenInv, ClosedInv
  <2>4. ClosedInv'
    BY <2>1, <2>2, <2>3 DEF ImportInv
  <2>5. CASE UNCHANGED refused
    BY <1>5, <2>1, <2>4, <2>5 DEF ImportInv
  <2>6. CASE SectionRaises
    <3>1. place \in 1..20 /\ Raises(Sections[place])
      BY <1>0, <2>6 DEF SectionRaises, Importing
    <3>2. Held("tokenizer", Of("project")) = {} \/ (legacy /\ Of("attribute") = {})
      BY <3>1, RaisesOnly DEF ImportInv
    <3> QED
      BY <1>5, <2>1, <2>4, <3>2 DEF ImportInv, Held
  <2> QED
    BY <1>10, <2>5, <2>6 DEF CallRaises, Stop
<1> QED
  BY <1>1, <1>3, <1>4, <1>6, <1>7, <1>8, <1>9, <1>10 DEF TransferNext, ImportStep

LEMMA TransferInvs == Transfer => [](ExportInv /\ ImportInv)
  BY ExportAtFirst, ImportAtFirst, ExportStep, ImportKept, PTL DEF Transfer

-----------------------------------------------------------------------------
(* The rows of the new project are counted by the rows of the file.          *)
LEMMA SameNumber ==
  ASSUME ExportInv, ImportInv, rows # {}
  PROVE  Cardinality(rows) = Cardinality({r \in dump : ~Skipped(r)})
<1> DEFINE kept == {r \in dump : ~Skipped(r)}
           f == [r \in kept |-> CHOOSE x \in rows : x.id = New(r.id)]
<1>1. Faithful(rows, 21) /\ ids = FileIds
  BY DEF ImportInv, OpenInv, ClosedInv
<1>2. \A r \in dump : r \in kept <=> Came(r, 21)
  BY <1>1, Rows, Placed DEF Came, Skipped, Left, ExportInv, WellFormed
<1>3. \A r \in kept : f[r] \in rows /\ f[r].id = New(r.id)
  BY <1>1, <1>2 DEF Faithful, Copy
<1>4. \A r \in dump, q \in dump : New(r.id) = New(q.id) => r = q
  BY Single DEF New, ExportInv
<1>5. \A r \in kept, q \in kept : f[r] = f[q] => r = q
  BY <1>3, <1>4
<1>6. \A x \in rows : \E r \in kept : f[r] = x
  BY <1>1, <1>2, <1>3 DEF Faithful
<1>7. f \in Bijection(kept, rows)
  BY <1>3, <1>5, <1>6 DEF Bijection, Injection, IsInjective, Surjection
<1>8. IsFiniteSet(kept)
  BY FiniteRows, FS_Subset DEF ExportInv
<1> QED
  BY <1>7, <1>8, FS_Bijection DEF ExistsBijection

(* An import makes all rows of its file or none, and is refused for one of   *)
(* two reasons only: the property ImportAllOrNothing, for import_file and    *)
(* its error handling.                                                       *)
THEOREM AllOrNothing == Transfer => []ImportAllOrNothing
<1>1. ExportInv /\ ImportInv => ImportAllOrNothing
  <2> SUFFICES ASSUME ExportInv, ImportInv PROVE ImportAllOrNothing
    OBVIOUS
  <2>1. rows # {} => post # "none"
    BY DEF ImportInv, OpenInv, ClosedInv
  <2>2. task = "DONE" => rows = session
    BY DEF ImportInv, ClosedInv
  <2> QED
    BY <2>1, <2>2, SameNumber DEF ImportAllOrNothing, ImportInv
<1> QED
  BY <1>1, TransferInvs, PTL

-----------------------------------------------------------------------------
(* What rows refer to is a row.                                              *)
LEMMA TargetThere ==
  ASSUME NEW id \in TargetIds PROVE \E t \in Universe : t.id = id /\ Kind(t) \in Targets
<1>1. \A k, n, refs : Row(k, n, refs).id = <<k, n>> /\ Kind(Row(k, n, refs)) = k
  BY DEF Row, Kind
<1>2. ASSUME NEW k \in Fixed PROVE \E refs : Row(k, 1, refs) \in Universe
  <2>1. CASE k = "attribute"
    BY <2>1 DEF Universe, ProjectRows
  <2>2. CASE k = "labeling_task"
    BY <2>2 DEF Universe, ProjectRows
  <2>3. CASE k = "label"
    BY <2>3 DEF Universe, ProjectRows
  <2>4. CASE k = "slice"
    BY <2>4, ZenonT(60) DEF Universe, ProjectRows
  <2>6. CASE k = "weak_supervision"
    BY <2>6 DEF Universe, ProjectRows
  <2>7. CASE k = "knowledge_base"
    BY <2>7 DEF Universe, ProjectRows
  <2> QED
    BY <2>1, <2>2, <2>3, <2>4, <2>6, <2>7 DEF Fixed
<1>3. ASSUME NEW k \in Several, NEW n \in {1, 2} PROVE \E refs : Row(k, n, refs) \in Universe
  <2>1. CASE k \in {"record", "association"}
    <3>1. \E refs : Row(k, n, refs) \in RecordRows(n)
      BY <2>1 DEF RecordRows
    <3> QED
      BY <3>1 DEF Universe, ProjectRows
  <2>2. CASE k = "project"
    BY <2>2 DEF Universe, ProjectRows, NewProject
  <2>3. CASE k = "source"
    BY <2>3 DEF Universe, ProjectRows
  <2>4. CASE k = "embedding"
    BY <2>4 DEF Universe, ProjectRows
  <2> QED
    BY <2>1, <2>2, <2>3, <2>4 DEF Several
<1>4. CASE id \in Fixed \X {1}
  <2>1. PICK k \in Fixed : id = <<k, 1>>
    BY <1>4
  <2> QED
    BY <1>1, <1>2, <2>1 DEF Targets
<1>5. CASE id \in Several \X {1, 2}
  <2>1. PICK k \in Several, n \in {1, 2} : id = <<k, n>>
    BY <1>5
  <2> QED
    BY <1>1, <1>3, <2>1 DEF Targets
<1> QED
  BY <1>4, <1>5 DEF TargetIds

(* What a row refers to is in the file, or its absence has a reason.         *)
LEMMA AbsentIs ==
  ASSUME ExportInv, reading = 19, NEW id \in TargetIds, id \notin FileIds PROVE NotThere(id)
<1>1. PICK t \in Universe : t.id = id /\ Kind(t) \in Targets
  BY TargetThere
<1>2. Kind(t) = id[1] /\ Kind(t) \in {ReadOrder[i] : i \in 1..19}
  BY <1>1, AllRead, Rows DEF Kind, WellFormed
<1>3. Missing(t)
  BY <1>1, <1>2 DEF ExportInv, KindsRead, FileIds
<1>4. id[1] \in Range(ReadOrder)
  BY <1>2, Reads DEF Range, ReadOrder
<1>5. t \notin project => id \notin {r.id : r \in project}
  BY <1>1, Single DEF ExportInv
<1>6. \/ ~(Needs(id[1]) \subseteq options)
      \/ id[1] = "embedding" /\ (id[2] \notin finished \/ edits > 0)
      \/ id[1] \in {"record", "association"} /\ <<"record", id[2]>> \in touched
      \/ id \notin {r.id : r \in project}
  BY <1>1, <1>2, <1>3, <1>5 DEF Missing
<1> QED
  BY <1>4, <1>6 DEF NotThere, FileIds

LEMMA EmbeddingRow ==
  ASSUME NEW e \in Universe, NEW n \in {1, 2}, e.id = <<"embedding", n>>
  PROVE  Kind(e) = "embedding" /\ <<"name", Name(n)>> \in e.refs
<1> DEFINE row == Row("embedding", n, {<<"attribute_id", <<"attribute", 1>> >>, <<"name", Name(n)>>})
<1>1. row \in Universe
  BY DEF Universe, ProjectRows
<1>2. row.id = <<"embedding", n>> /\ <<"name", Name(n)>> \in row.refs
  BY DEF Row
<1> HIDE DEF row
<1> QED
  BY <1>1, <1>2, Single DEF Kind

(* No embedding has the id of a slice for its name.                          *)
LEMMA NoSlice ==
  ASSUME ExportInv PROVE <<"slice", 1>> \notin InFile
<1>1. ASSUME NEW e \in Of("embedding"), NEW ref \in e.refs, ref[1] = "name" PROVE ref[2] = Name(e.id[2])
  <2>1. Points(e, ref)
    BY Rows DEF ExportInv, WellFormed, Of
  <2> QED
    BY <1>1, <2>1 DEF Points, Texts, TextColumns
<1>2. \A n : Name(n) # <<"slice", 1>>
  BY DEF Name
<1>3. ASSUME NEW x \in InFile PROVE \E n : x = Name(n)
  <2>1. PICK e \in Of("embedding") : \E ref \in e.refs : ref[1] = "name" /\ x = ref[2]
    BY DEF InFile, Held
  <2> QED
    BY <1>1, <2>1
<1> QED
  BY <1>2, <1>3

(* Every reference of an imported row leads to its counterpart or to nothing *)
(* that was exported: the property ReferencesRestored, for the mappings of   *)
(* old ids to new ones in import_file.                                       *)
THEOREM ReferencesKept == Transfer => []ReferencesRestored
<1>1. ExportInv /\ ImportInv => ReferencesRestored
  <2> SUFFICES ASSUME ExportInv, ImportInv, rows # {},
                      NEW r \in {x \in ProjectRows \cup RecordRows(2) : x.id \in {d.id : d \in dump}}
               PROVE  \/ Kind(r) \in {"comment", "tensor"} /\ \E ref \in r.refs : Absent(ref[2])
                      \/ \E x \in rows : /\ x.id = New(r.id)
                                         /\ \A ref \in r.refs : \/ Absent(ref[2])
                                                                 \/ \E y \in x.refs : y[1] = ref[1] /\ Restores(ref, y[2])
    BY DEF ReferencesRestored
  <2>1. Faithful(rows, 21) /\ reading = 19
    BY DEF ImportInv, OpenInv, ClosedInv
  <2>2. r \in dump /\ r \in Universe /\ WellFormed(r)
    BY Rows, Single DEF Universe, ExportInv
  <2>3. \A q \in dump : ~Left(q) => \E x \in rows : Copy(x, q)
    BY <2>1, Rows, Placed DEF Faithful, Came, ExportInv, WellFormed
  <2>4. CASE Left(r)
    <3>1. CASE Kind(r) = "comment"
      <4>1. PICK ref \in r.refs : ref[1] = "xfkey" /\ ref[2] \notin FileIds
        BY <2>4, <3>1 DEF Left
      <4>2. ref[2] \in TargetIds
        BY <2>2, <4>1 DEF WellFormed, Points, Texts, TextColumns
      <4> QED
        BY <2>1, <3>1, <4>1, <4>2, AbsentIs DEF Absent
    <3>2. CASE Kind(r) = "tensor"
      <4>1. <<"embedding_id", <<"embedding", 1>> >> \in r.refs
        BY <2>2, <3>2 DEF Universe, ProjectRows, RecordRows, Row, Kind
      <4>2. <<"embedding", 1>> \notin FileIds
        BY <2>4, <3>2 DEF Left, Of, Kind, FileIds
      <4>3. <<"embedding", 1>> \in TargetIds
        BY DEF TargetIds, Several
      <4>4. Absent(<<"embedding", 1>>)
        BY <2>1, <4>2, <4>3, AbsentIs DEF Absent
      <4>5. <<"embedding_id", <<"embedding", 1>> >>[2] = <<"embedding", 1>>
        OBVIOUS
      <4> QED
        BY <3>2, <4>1, <4>4, <4>5
    <3> QED
      BY <2>4, <3>1, <3>2 DEF Left
  <2>5. CASE ~Left(r)
    <3>1. PICK x \in rows : Copy(x, r)
      BY <2>2, <2>3, <2>5
    <3>2. ASSUME NEW ref \in r.refs, ~Absent(ref[2])
          PROVE  \E y \in x.refs : y[1] = ref[1] /\ Restores(ref, y[2])
      <4>1. Points(r, ref)
        BY <2>2 DEF WellFormed
      <4>2. ASSUME ref[1] \in Texts \/ ref[2] \in FileIds,
                   \A v : Right(ref, v) => Restores(ref, v)
            PROVE  \E y \in x.refs : y[1] = ref[1] /\ Restores(ref, y[2])
        <5>1. PICK v : <<ref[1], v>> \in x.refs /\ Right(ref, v)
          BY <3>1, <4>2 DEF Copy
        <5>2. <<ref[1], v>>[1] = ref[1] /\ <<ref[1], v>>[2] = v
          OBVIOUS
        <5> QED
          BY <4>2, <5>1, <5>2
      <4>3. CASE ref[1] = "created_by"
        BY <4>2, <4>3 DEF Right, Restores, Texts
      <4>6. CASE AsInFile(ref)
        <5>1. ref[1] \in Texts /\ (ref[1] = "source_code" => ref[2] = <<"slice", 1>>)
          <6>1. ref[1] = "source_code" => ref[2] \in {Name(1), <<"slice", 1>>}
            BY <4>1 DEF Points, Texts, TextColumns
          <6>2. Name(1)[1] # "slice"
            BY DEF Name
          <6> QED
            BY <4>6, <6>1, <6>2 DEF AsInFile, Texts, TextColumns
        <5>2. \A v : Right(ref, v) => v = ref[2]
          BY <4>6, <5>1, NoSlice DEF AsInFile, Right, TextColumns
        <5> QED
          BY <4>2, <4>6, <5>1, <5>2 DEF Restores, AsInFile
      <4>4. CASE ref[1] \in {"name", "source_code"} /\ ~AsInFile(ref)
        <5>1. PICK n \in {1, 2} : ref[2] = Name(n)
          <6>1. ref[1] = "name" => ref[2] = Name(r.id[2]) /\ r.id[2] \in {1, 2}
            BY <2>2, <4>1 DEF Points, WellFormed, Texts, TextColumns
          <6>2. ref[1] = "source_code" => ref[2] = Name(1)
            BY <4>1, <4>4 DEF Points, Texts, TextColumns, AsInFile
          <6> QED
            BY <4>4, <6>1, <6>2
        <5>2. Name(n)[2] = n
          BY DEF Name
        <5>3. <<"embedding", n>> \in TargetIds
          BY DEF TargetIds, Several
        <5>4. <<"embedding", n>> \in FileIds
          BY <2>1, <3>2, <5>1, <5>2, <5>3, AbsentIs DEF Absent
        <5>5. PICK e \in dump : e.id = <<"embedding", n>>
          BY <5>4 DEF FileIds
        <5>6. Kind(e) = "embedding" /\ <<"name", Name(n)>> \in e.refs /\ ~Left(e)
          BY <5>5, EmbeddingRow DEF ExportInv, Left
        <5>7. PICK z \in rows : Copy(z, e)
          BY <2>3, <5>6
        <5>8. <<"name", Name(n)>>[1] = "name" /\ <<"name", Name(n)>>[2] = Name(n)
          OBVIOUS
        <5>9. PICK v : <<"name", v>> \in z.refs /\ Right(<<"name", Name(n)>>, v)
          BY <5>6, <5>7, <5>8 DEF Copy, Texts, TextColumns
        <5>10. \A w : Right(ref, w) => w = v
          BY <4>4, <5>1, <5>8, <5>9 DEF Right, TextColumns
        <5>11. z.id = New(<<"embedding", ref[2][2]>>)
          BY <5>1, <5>2, <5>5, <5>7 DEF Copy
        <5>12. \A w : Right(ref, w) => Restores(ref, w)
          BY <4>4, <5>9, <5>10, <5>11 DEF Restores
        <5> QED
          BY <4>2, <4>4, <5>12 DEF Texts, TextColumns
      <4>5. CASE ref[1] \notin Texts
        <5>1. ref[2] \in TargetIds /\ ref[2] \in FileIds
          BY <2>1, <3>2, <4>1, <4>5, AbsentIs DEF Points, Absent, Texts, TextColumns
        <5>2. PICK q \in dump : q.id = ref[2]
          BY <5>1 DEF FileIds
        <5>3. ~Left(q)
          BY <5>1, <5>2 DEF Left, Kind, TargetIds, Fixed, Several
        <5>4. PICK z \in rows : z.id = New(ref[2])
          BY <2>3, <5>2, <5>3 DEF Copy
        <5> QED
          BY <4>2, <4>5, <5>1, <5>4 DEF Right, Restores, AsInFile, Texts, TextColumns
      <4> QED
        BY <4>3, <4>4, <4>5, <4>6 DEF AsInFile, Texts, TextColumns
    <3>3. x.id = New(r.id)
      BY <3>1 DEF Copy
    <3> QED
      BY <3>2, <3>3
  <2> QED
    BY <2>4, <2>5
<1> QED
  BY <1>1, TransferInvs, PTL

-----------------------------------------------------------------------------
\* The wizard.  The sequences of constants.py and what is appended to them.
Sized(s, n) == n \in Nat /\ s = [i \in 1..n |-> s[i]]
OfKind(s, n, kind) == Sized(s, n) /\ \A i \in 1..n : s[i].kind = kind
FollowedBy(st, s, m, t, n) ==
  Sized(st, m + n) /\ (\A i \in 1..m : st[i] = s[i]) /\ \A i \in 1..n : st[m + i] = t[i]

LEMMA Cat ==
  ASSUME NEW m, NEW n, NEW s, NEW t, Sized(s, m), Sized(t, n)
  PROVE  FollowedBy(s \o t, s, m, t, n)
<1> DEFINE S == {s[i] : i \in 1..m} \cup {t[i] : i \in 1..n}
<1>1. m \in Nat /\ n \in Nat /\ s \in [1..m -> S] /\ t \in [1..n -> S]
  BY DEF Sized
<1>2. \A k \in Nat : \A f \in [1..k -> S] : f \in Seq(S) /\ Len(f) = k
  BY SeqDef
<1> HIDE DEF S
<1>3. s \in Seq(S) /\ t \in Seq(S) /\ Len(s) = m /\ Len(t) = n
  BY <1>1, <1>2
<1>4. /\ s \o t \in Seq(S) /\ Len(s \o t) = m + n
      /\ \A i \in 1..(m + n) : (s \o t)[i] = IF i <= m THEN s[i] ELSE t[i - m]
  BY <1>3, ConcatProperties
<1>5. s \o t \in [1..(m + n) -> S]
  BY <1>4, LenProperties
<1>6. Sized(s \o t, m + n)
  BY <1>1, <1>5 DEF Sized
<1>7. \A i \in 1..m : (s \o t)[i] = s[i]
  BY <1>1, <1>4
<1>8. ASSUME NEW i \in 1..n PROVE (s \o t)[m + i] = t[i]
  BY <1>1, <1>4
<1> QED
  BY <1>6, <1>7, <1>8 DEF FollowedBy

LEMMA Tuple1 ==
  ASSUME NEW a PROVE Sized(<<a>>, 1) /\ <<a>>[1] = a
<1> SUFFICES ASSUME NEW s, s = <<a>> PROVE Sized(s, 1) /\ s[1] = a
  OBVIOUS
<1> QED
  BY DEF Sized

LEMMA Tuple2 ==
  ASSUME NEW a, NEW b PROVE Sized(<<a, b>>, 2) /\ \A i \in 1..2 : <<a, b>>[i] \in {a, b}
<1> SUFFICES ASSUME NEW s, s = <<a, b>> PROVE Sized(s, 2) /\ \A i \in 1..2 : s[i] \in {a, b}
  OBVIOUS
<1> QED
  BY DEF Sized

LEMMA Tuple3 ==
  ASSUME NEW a, NEW b, NEW c
  PROVE  Sized(<<a, b, c>>, 3) /\ \A i \in 1..3 : <<a, b, c>>[i] \in {a, b, c}
<1> SUFFICES ASSUME NEW s, s = <<a, b, c>> PROVE Sized(s, 3) /\ \A i \in 1..3 : s[i] \in {a, b, c}
  OBVIOUS
<1> QED
  BY DEF Sized

LEMMA Tuple4 ==
  ASSUME NEW a, NEW b, NEW c, NEW d
  PROVE  Sized(<<a, b, c, d>>, 4) /\ \A i \in 1..4 : <<a, b, c, d>>[i] \in {a, b, c, d}
<1> SUFFICES ASSUME NEW s, s = <<a, b, c, d>> PROVE Sized(s, 4) /\ \A i \in 1..4 : s[i] \in {a, b, c, d}
  OBVIOUS
<1> QED
  BY DEF Sized

Lists(info, a, t, e) ==
  /\ OfKind(info.attributes, a, "attribute") /\ OfKind(info.labeling_tasks, t, "task")
  /\ OfKind(info.embeddings, e, "embedding")

LEMMA Kinds ==
  /\ \A n : Attribute(n).kind = "attribute"
  /\ \A n, l, b : Task(n, l, b).kind = "task" /\ Task(n, l, b).bricks = b
  /\ \A n, o : Embedding(n, o).kind = "embedding"
BY DEF Attribute, Task, Embedding

LEMMA ReferenceLists == Lists(REFERENCE, 2, 3, 2)
<1>1. OfKind(REFERENCE.attributes, 2, "attribute")
  <2> DEFINE a == Attribute("Language")
             b == Attribute("reference_chunks")
  <2>1. REFERENCE.attributes = <<a, b>>
    BY DEF REFERENCE
  <2>2. a.kind = "attribute" /\ b.kind = "attribute"
    BY Kinds
  <2> HIDE DEF a, b
  <2> QED
    BY <2>1, <2>2, Tuple2 DEF OfKind
<1>2. OfKind(REFERENCE.labeling_tasks, 3, "task")
  <2> DEFINE a == Task("Reference Quality", 2, TRUE)
             b == Task("Reference Complexity", 3, TRUE)
             c == Task("Personal Identifiable Information", 10, TRUE)
  <2>1. REFERENCE.labeling_tasks = <<a, b, c>>
    BY DEF REFERENCE
  <2>2. a.kind = "task" /\ b.kind = "task" /\ c.kind = "task"
    BY Kinds, ZenonT(60)
  <2> HIDE DEF a, b, c
  <2> QED
    BY <2>1, <2>2, Tuple3 DEF OfKind
<1>3. OfKind(REFERENCE.embeddings, 2, "embedding")
  <2> DEFINE a == Embedding("reference", TRUE)
             b == Embedding("reference_chunks", TRUE)
  <2>1. REFERENCE.embeddings = <<a, b>>
    BY DEF REFERENCE
  <2>2. a.kind = "embedding" /\ b.kind = "embedding"
    BY Kinds
  <2> HIDE DEF a, b
  <2> QED
    BY <2>1, <2>2, Tuple2 DEF OfKind
<1> QED
  BY <1>1, <1>2, <1>3 DEF Lists

LEMMA QuestionLists == Lists(QUESTION, 1, 4, 1)
<1>1. OfKind(QUESTION.attributes, 1, "attribute")
  <2> DEFINE a == Attribute("search_queries")
  <2>1. QUESTION.attributes = <<a>>
    BY DEF QUESTION
  <2>2. a.kind = "attribute"
    BY Kinds
  <2> HIDE DEF a
  <2> QED
    BY <2>1, <2>2, Tuple1 DEF OfKind
<1>2. OfKind(QUESTION.labeling_tasks, 4, "task")
  <2> DEFINE a == Task("Communication Style", 4, TRUE)
             b == Task("Question Type", 3, TRUE)
             c == Task("Question Quality", 2, FALSE)
             d == Task("Question Complexity", 3, TRUE)
  <2>1. QUESTION.labeling_tasks = <<a, b, c, d>>
    BY DEF QUESTION
  <2>2. a.kind = "task" /\ b.kind = "task" /\ c.kind = "task" /\ d.kind = "task"
    BY Kinds, ZenonT(60)
  <2> HIDE DEF a, b, c, d
  <2> QED
    BY <2>1, <2>2, Tuple4 DEF OfKind
<1>3. OfKind(QUESTION.embeddings, 1, "embedding")
  <2> DEFINE a == Embedding("question", FALSE)
  <2>1. QUESTION.embeddings = <<a>>
    BY DEF QUESTION
  <2>2. a.kind = "embedding"
    BY Kinds
  <2> HIDE DEF a
  <2> QED
    BY <2>1, <2>2, Tuple1 DEF OfKind
<1> QED
  BY <1>1, <1>2, <1>3 DEF Lists

LEMMA RelevanceLists == Lists(RELEVANCE, 0, 1, 1)
<1>1. OfKind(RELEVANCE.attributes, 0, "attribute")
  <2>1. RELEVANCE.attributes = <<>>
    BY DEF RELEVANCE
  <2> SUFFICES ASSUME NEW s, s = <<>> PROVE OfKind(s, 0, "attribute")
    BY <2>1
  <2> QED
    BY DEF OfKind, Sized
<1>2. OfKind(RELEVANCE.labeling_tasks, 1, "task")
  <2> DEFINE a == Task("Fact is relevant", 2, FALSE)
  <2>1. RELEVANCE.labeling_tasks = <<a>>
    BY DEF RELEVANCE
  <2>2. a.kind = "task"
    BY Kinds
  <2> HIDE DEF a
  <2> QED
    BY <2>1, <2>2, Tuple1 DEF OfKind
<1>3. OfKind(RELEVANCE.embeddings, 1, "embedding")
  <2> DEFINE a == Embedding("question", FALSE)
  <2>1. RELEVANCE.embeddings = <<a>>
    BY DEF RELEVANCE
  <2>2. a.kind = "embedding"
    BY Kinds
  <2> HIDE DEF a
  <2> QED
    BY <2>1, <2>2, Tuple1 DEF OfKind
<1> QED
  BY <1>1, <1>2, <1>3 DEF Lists

KindAt(k, a, t, e) ==
  IF k <= a THEN "attribute" ELSE IF k <= a + t THEN "task"
  ELSE IF k <= a + t + e THEN "embedding" ELSE "weak_supervision"
KindsAt(s, a, t, e) ==
  Sized(s, a + t + e + 1) /\ \A k \in 1..(a + t + e + 1) : s[k].kind = KindAt(k, a, t, e)

LEMMA Finalized ==
  ASSUME NEW info, NEW a, NEW t, NEW e, Lists(info, a, t, e)
  PROVE  KindsAt(finalize_setup_for(info), a, t, e)
<1> DEFINE x == info.attributes
           y == info.labeling_tasks
           z == info.embeddings
           w == Supervise
           xy == x \o y
           xyz == xy \o z
           s == xyz \o w
<1>1. /\ Sized(x, a) /\ Sized(y, t) /\ Sized(z, e)
      /\ (\A i \in 1..a : x[i].kind = "attribute") /\ (\A i \in 1..t : y[i].kind = "task")
      /\ \A i \in 1..e : z[i].kind = "embedding"
  BY DEF Lists, OfKind
<1>2. Sized(w, 1) /\ w[1].kind = "weak_supervision"
  <2> DEFINE r == [kind |-> "weak_supervision", name |-> ""]
  <2>1. w = <<r>>
    BY DEF Supervise
  <2>2. r.kind = "weak_supervision"
    OBVIOUS
  <2> HIDE DEF r, w
  <2> QED
    BY <2>1, <2>2, Tuple1
<1>3. s = finalize_setup_for(info)
  BY DEF finalize_setup_for
<1> HIDE DEF x, y, z, w
<1>4. FollowedBy(xy, x, a, y, t)
  BY <1>1, Cat
<1> HIDE DEF xy
<1>5. FollowedBy(xyz, xy, a + t, z, e)
  <2>1. Sized(xy, a + t)
    BY <1>4 DEF FollowedBy
  <2> QED
    BY <1>1, <2>1, Cat
<1> HIDE DEF xyz
<1>6. FollowedBy(s, xyz, a + t + e, w, 1)
  <2>1. Sized(xyz, a + t + e)
    BY <1>5 DEF FollowedBy
  <2> QED
    BY <1>2, <2>1, Cat
<1> HIDE DEF s
<1>7. a \in Nat /\ t \in Nat /\ e \in Nat
  BY <1>1 DEF Sized
<1>8. ASSUME NEW k \in 1..(a + t + e + 1) PROVE s[k].kind = KindAt(k, a, t, e)
  <2>1. CASE k <= a
    BY <1>1, <1>4, <1>5, <1>6, <1>7, <2>1 DEF KindAt, FollowedBy
  <2>2. CASE a < k /\ k <= a + t
    <3>1. k - a \in 1..t /\ xy[a + (k - a)] = y[k - a] /\ a + (k - a) = k
      BY <1>4, <1>7, <2>2 DEF FollowedBy
    <3> QED
      BY <1>1, <1>5, <1>6, <1>7, <2>2, <3>1 DEF KindAt, FollowedBy
  <2>3. CASE a + t < k /\ k <= a + t + e
    <3>1. k - (a + t) \in 1..e /\ xyz[a + t + (k - (a + t))] = z[k - (a + t)] /\ a + t + (k - (a + t)) = k
      BY <1>5, <1>7, <2>3 DEF FollowedBy
    <3> QED
      BY <1>1, <1>6, <1>7, <2>3, <3>1 DEF KindAt, FollowedBy
  <2>4. CASE k = a + t + e + 1
    <3>1. s[k] = w[1]
      BY <1>6, <1>7, <2>4 DEF FollowedBy
    <3> QED
      BY <1>2, <1>7, <2>4, <3>1 DEF KindAt
  <2> QED
    BY <1>7, <2>1, <2>2, <2>3, <2>4
<1>9. Sized(s, a + t + e + 1)
  BY <1>6 DEF FollowedBy
<1> QED
  BY <1>3, <1>8, <1>9 DEF KindsAt

\* The n places of s after the first m are the steps x of project p.
PartOf(s, m, x, n, p) == \A i \in 1..n : s[m + i].project = p /\ s[m + i].step = x[i]

LEMMA InProject ==
  ASSUME NEW p, NEW x, NEW n, Sized(x, n)
  PROVE  Sized(In(p, x), n) /\ PartOf(In(p, x), 0, x, n, p)
<1> DEFINE y == In(p, x)
<1>1. n \in Nat /\ DOMAIN x = 1..n
  BY DEF Sized
<1>2. y = [i \in 1..n |-> [project |-> p, step |-> x[i]]]
  BY <1>1 DEF In
<1> HIDE DEF y
<1>3. \A i \in 1..n : y[i].project = p /\ y[i].step = x[i]
  BY <1>2
<1>4. Sized(y, n)
  BY <1>1, <1>2 DEF Sized
<1>5. PartOf(y, 0, x, n, p)
  BY <1>1, <1>3 DEF PartOf
<1> QED
  BY <1>4, <1>5 DEF y

Then(s, p, x) == s \o In(p, x)
Extends(st, s, m, p, x, n) ==
  Sized(st, m + n) /\ (\A i \in 1..m : st[i] = s[i]) /\ PartOf(st, m, x, n, p)

LEMMA Extend ==
  ASSUME NEW s, NEW m, Sized(s, m), NEW p, NEW x, NEW n, Sized(x, n)
  PROVE  Extends(Then(s, p, x), s, m, p, x, n)
<1> DEFINE y == In(p, x)
           st == s \o y
<1>1. Sized(y, n) /\ PartOf(y, 0, x, n, p)
  BY InProject
<1>2. FollowedBy(st, s, m, y, n)
  BY <1>1, Cat
<1>3. Then(s, p, x) = st
  BY DEF Then
<1> HIDE DEF y, st
<1>4. \A i \in 1..n : st[m + i] = y[i]
  BY <1>2 DEF FollowedBy
<1>5. \A i \in 1..n : y[i].project = p /\ y[i].step = x[i]
  BY <1>1 DEF PartOf
<1>6. PartOf(st, m, x, n, p)
  BY <1>4, <1>5 DEF PartOf
<1>7. Extends(st, s, m, p, x, n)
  BY <1>2, <1>6 DEF FollowedBy, Extends
<1> QED
  BY <1>3, <1>7

Parts(s) ==
  /\ Sized(s, 23)
  /\ PartOf(s, 0, <<Post>>, 1, "QUESTION") /\ PartOf(s, 1, <<Post>>, 1, "RELEVANCE")
  /\ PartOf(s, 2, finalize_setup_for(REFERENCE), 8, "REFERENCE")
  /\ PartOf(s, 10, finalize_setup_for(QUESTION), 7, "QUESTION")
  /\ PartOf(s, 17, qdrant_filter, 2, "QUESTION")
  /\ PartOf(s, 19, finalize_setup_for(RELEVANCE), 3, "RELEVANCE")
  /\ PartOf(s, 22, <<Finish>>, 1, "REFERENCE")

LEMMA Whole == Parts(Program)
<1> DEFINE f1 == finalize_setup_for(REFERENCE)
           f2 == finalize_setup_for(QUESTION)
           f3 == finalize_setup_for(RELEVANCE)
           p1 == In("QUESTION", <<Post>>)
           p2 == Then(p1, "RELEVANCE", <<Post>>)
           p3 == Then(p2, "REFERENCE", f1)
           p4 == Then(p3, "QUESTION", f2)
           p5 == Then(p4, "QUESTION", qdrant_filter)
           p6 == Then(p5, "RELEVANCE", f3)
           p7 == Then(p6, "REFERENCE", <<Finish>>)
<1>1. Program = p7
  BY DEF Program, Then
<1>2. Sized(<<Post>>, 1) /\ Sized(<<Finish>>, 1)
  BY Tuple1
<1>3. Sized(qdrant_filter, 2)
  BY Tuple2 DEF qdrant_filter
<1>4. Sized(f1, 8)
  <2>1. KindsAt(f1, 2, 3, 2)
    BY Finalized, ReferenceLists
  <2> QED
    BY <2>1 DEF KindsAt
<1>5. Sized(f2, 7)
  <2>1. KindsAt(f2, 1, 4, 1)
    BY Finalized, QuestionLists
  <2> QED
    BY <2>1 DEF KindsAt
<1>6. Sized(f3, 3)
  <2>1. KindsAt(f3, 0, 1, 1)
    BY Finalized, RelevanceLists
  <2> QED
    BY <2>1 DEF KindsAt
<1>7. Sized(p1, 1) /\ PartOf(p1, 0, <<Post>>, 1, "QUESTION")
  BY <1>2, InProject
<1> HIDE DEF f1, f2, f3, p1
<1>8. Sized(p2, 2) /\ (\A i \in 1..1 : p2[i] = p1[i]) /\ PartOf(p2, 1, <<Post>>, 1, "RELEVANCE")
  <2>1. Extends(p2, p1, 1, "RELEVANCE", <<Post>>, 1)
    BY <1>2, <1>7, Extend
  <2> HIDE DEF p2
  <2> QED
    BY <2>1 DEF Extends
<1> HIDE DEF p2
<1>9. Sized(p3, 10) /\ (\A i \in 1..2 : p3[i] = p2[i]) /\ PartOf(p3, 2, f1, 8, "REFERENCE")
  <2>1. Extends(p3, p2, 2, "REFERENCE", f1, 8)
    BY <1>4, <1>8, Extend
  <2> HIDE DEF p3
  <2> QED
    BY <2>1 DEF Extends
<1> HIDE DEF p3
<1>10. Sized(p4, 17) /\ (\A i \in 1..10 : p4[i] = p3[i]) /\ PartOf(p4, 10, f2, 7, "QUESTION")
  <2>1. Extends(p4, p3, 10, "QUESTION", f2, 7)
    BY <1>5, <1>9, Extend
  <2> HIDE DEF p4
  <2> QED
    BY <2>1 DEF Extends
<1> HIDE DEF p4
<1>11. Sized(p5, 19) /\ (\A i \in 1..17 : p5[i] = p4[i]) /\ PartOf(p5, 17, qdrant_filter, 2, "QUESTION")
  <2>1. Extends(p5, p4, 17, "QUESTION", qdrant_filter, 2)
    BY <1>3, <1>10, Extend
  <2> HIDE DEF p5
  <2> QED
    BY <2>1 DEF Extends
<1> HIDE DEF p5
<1>12. Sized(p6, 22) /\ (\A i \in 1..19 : p6[i] = p5[i]) /\ PartOf(p6, 19, f3, 3, "RELEVANCE")
  <2>1. Extends(p6, p5, 19, "RELEVANCE", f3, 3)
    BY <1>6, <1>11, Extend
  <2> HIDE DEF p6
  <2> QED
    BY <2>1 DEF Extends
<1> HIDE DEF p6
<1>13. Sized(p7, 23) /\ (\A i \in 1..22 : p7[i] = p6[i]) /\ PartOf(p7, 22, <<Finish>>, 1, "REFERENCE")
  <2>1. Extends(p7, p6, 22, "REFERENCE", <<Finish>>, 1)
    BY <1>2, <1>12, Extend
  <2> HIDE DEF p7
  <2> QED
    BY <2>1 DEF Extends
<1> HIDE DEF p7
<1>14. PartOf(p7, 0, <<Post>>, 1, "QUESTION")
  BY <1>7, <1>8, <1>9, <1>10, <1>11, <1>12, <1>13 DEF PartOf
<1>15. PartOf(p7, 1, <<Post>>, 1, "RELEVANCE")
  BY <1>8, <1>9, <1>10, <1>11, <1>12, <1>13 DEF PartOf
<1>16. PartOf(p7, 2, f1, 8, "REFERENCE")
  BY <1>9, <1>10, <1>11, <1>12, <1>13 DEF PartOf
<1>17. PartOf(p7, 10, f2, 7, "QUESTION")
  BY <1>10, <1>11, <1>12, <1>13 DEF PartOf
<1>18. PartOf(p7, 17, qdrant_filter, 2, "QUESTION")
  BY <1>11, <1>12, <1>13 DEF PartOf
<1>19. PartOf(p7, 19, f3, 3, "RELEVANCE")
  BY <1>12, <1>13 DEF PartOf
<1> QED
  BY <1>1, <1>13, <1>14, <1>15, <1>16, <1>17, <1>18, <1>19 DEF Parts, f1, f2, f3

ProjectAt(i) ==
  IF i = 1 \/ i \in 11..19 THEN "QUESTION" ELSE IF i = 2 \/ i \in 20..22 THEN "RELEVANCE" ELSE "REFERENCE"
StepAt(i) ==
  IF i \in 1..2 THEN "post" ELSE IF i \in {3, 4, 11} THEN "attribute"
  ELSE IF i \in 5..7 \cup 12..15 \cup 18..20 THEN "task" ELSE IF i \in {8, 9, 16, 21} THEN "embedding"
  ELSE IF i \in {10, 17, 22} THEN "weak_supervision" ELSE "finish"
Stands(x, i) == x.project = ProjectAt(i) /\ x.step.kind = StepAt(i) /\ (i \in {18, 19} => ~x.step.bricks)

LEMMA Places ==
  Sized(Program, 23) /\ \A i \in 1..23 : Stands(Program[i], i)
<1> DEFINE f1 == finalize_setup_for(REFERENCE)
           f2 == finalize_setup_for(QUESTION)
           f3 == finalize_setup_for(RELEVANCE)
           posting == <<Post>>
           finish == <<Finish>>
<1>1. KindsAt(f1, 2, 3, 2) /\ KindsAt(f2, 1, 4, 1) /\ KindsAt(f3, 0, 1, 1)
  BY Finalized, ReferenceLists, QuestionLists, RelevanceLists
<1>2. posting[1].kind = "post"
  <2>1. Post.kind = "post"
    BY DEF Post
  <2> HIDE DEF posting
  <2> QED
    BY <2>1, Tuple1 DEF posting
<1>3. finish[1].kind = "finish"
  <2>1. Finish.kind = "finish"
    BY DEF Finish
  <2> QED
    BY <2>1, Tuple1
<1>4. \A i \in 1..2 : qdrant_filter[i].kind = "task" /\ ~qdrant_filter[i].bricks
  <2> DEFINE a == Task("Country", 2, FALSE)
             b == Task("Question Quality", 3, FALSE)
  <2>1. qdrant_filter = <<a, b>>
    BY DEF qdrant_filter
  <2>2. a.kind = "task" /\ b.kind = "task" /\ ~a.bricks /\ ~b.bricks
    BY Kinds, ZenonT(60)
  <2> HIDE DEF a, b
  <2> QED
    BY <2>1, <2>2, Tuple2
<1>5. Parts(Program)
  BY Whole
<1> DEFINE s == Program
<1>6. /\ Sized(s, 23) /\ PartOf(s, 0, posting, 1, "QUESTION") /\ PartOf(s, 1, posting, 1, "RELEVANCE")
      /\ PartOf(s, 2, f1, 8, "REFERENCE") /\ PartOf(s, 10, f2, 7, "QUESTION")
      /\ PartOf(s, 17, qdrant_filter, 2, "QUESTION") /\ PartOf(s, 19, f3, 3, "RELEVANCE")
      /\ PartOf(s, 22, finish, 1, "REFERENCE")
  BY <1>5 DEF Parts
<1> HIDE DEF f1, f2, f3, posting, finish, s
<1>7. Stands(s[1], 1) /\ Stands(s[2], 2) /\ Stands(s[23], 23)
  BY <1>2, <1>3, <1>6 DEF PartOf, Stands, ProjectAt, StepAt
<1>8. ASSUME NEW i \in 1..8 PROVE Stands(s[2 + i], 2 + i)
  <2>1. s[2 + i].project = "REFERENCE" /\ s[2 + i].step = f1[i]
    BY <1>6 DEF PartOf
  <2>2. f1[i].kind = KindAt(i, 2, 3, 2)
    BY <1>1 DEF KindsAt
  <2> QED
    BY <2>1, <2>2 DEF KindAt, Stands, ProjectAt, StepAt
<1>9. ASSUME NEW i \in 1..7 PROVE Stands(s[10 + i], 10 + i)
  <2>1. s[10 + i].project = "QUESTION" /\ s[10 + i].step = f2[i]
    BY <1>6 DEF PartOf
  <2>2. f2[i].kind = KindAt(i, 1, 4, 1)
    BY <1>1 DEF KindsAt
  <2> QED
    BY <2>1, <2>2 DEF KindAt, Stands, ProjectAt, StepAt
<1>10. ASSUME NEW i \in 1..2 PROVE Stands(s[17 + i], 17 + i)
  <2>1. s[17 + i].project = "QUESTION" /\ s[17 + i].step = qdrant_filter[i]
    BY <1>6 DEF PartOf
  <2> QED
    BY <1>4, <2>1 DEF Stands, ProjectAt, StepAt
<1>11. ASSUME NEW i \in 1..3 PROVE Stands(s[19 + i], 19 + i)
  <2>1. s[19 + i].project = "RELEVANCE" /\ s[19 + i].step = f3[i]
    BY <1>6 DEF PartOf
  <2>2. f3[i].kind = KindAt(i, 0, 1, 1)
    BY <1>1 DEF KindsAt
  <2> QED
    BY <2>1, <2>2 DEF KindAt, Stands, ProjectAt, StepAt
<1>12. ASSUME NEW i \in 1..23 PROVE Stands(s[i], i)
  <2>1. CASE i \in {1, 2, 23}
    BY <1>7, <2>1
  <2>2. CASE i \in 3..10
    <3>1. i - 2 \in 1..8 /\ 2 + (i - 2) = i
      BY <2>2
    <3> QED
      BY <1>8, <3>1
  <2>3. CASE i \in 11..17
    <3>1. i - 10 \in 1..7 /\ 10 + (i - 10) = i
      BY <2>3
    <3> QED
      BY <1>9, <3>1
  <2>4. CASE i \in 18..19
    <3>1. i - 17 \in 1..2 /\ 17 + (i - 17) = i
      BY <2>4
    <3> QED
      BY <1>10, <3>1
  <2>5. CASE i \in 20..22
    <3>1. i - 19 \in 1..3 /\ 19 + (i - 19) = i
      BY <2>5
    <3> QED
      BY <1>11, <3>1
  <2> QED
    BY <2>1, <2>2, <2>3, <2>4, <2>5
<1> QED
  BY <1>6, <1>12 DEF s

-----------------------------------------------------------------------------
\* The lists of the wizards.
IsList(s) == Sized(s, Len(s))

LEMMA Lengths == ASSUME NEW s, NEW n, Sized(s, n) PROVE IsList(s) /\ Len(s) = n
<1> DEFINE S == {s[i] : i \in 1..n}
<1>1. n \in Nat /\ s \in [1..n -> S]
  BY DEF Sized
<1>2. \A k \in Nat : \A f \in [1..k -> S] : f \in Seq(S) /\ Len(f) = k
  BY SeqDef
<1> HIDE DEF S
<1>3. Len(s) = n
  BY <1>1, <1>2, LenProperties
<1> QED
  BY <1>3 DEF IsList

LEMMA Appended ==
  ASSUME NEW s, NEW t, IsList(s), IsList(t)
  PROVE  IsList(s \o t) /\ Len(s \o t) = Len(s) + Len(t) /\ FollowedBy(s \o t, s, Len(s), t, Len(t))
<1>1. FollowedBy(s \o t, s, Len(s), t, Len(t))
  BY Cat DEF IsList
<1>2. Sized(s \o t, Len(s) + Len(t))
  BY <1>1 DEF FollowedBy
<1> QED
  BY <1>1, <1>2, Lengths

LEMMA Members ==
  ASSUME NEW s, IsList(s)
  PROVE  Len(s) \in Nat /\ DOMAIN s = 1..Len(s) /\ Range(s) = {s[i] : i \in 1..Len(s)}
BY DEF IsList, Sized, Range

LEMMA Ranges ==
  ASSUME NEW s, NEW t, IsList(s), IsList(t)
  PROVE  Range(s \o t) = Range(s) \cup Range(t)
<1> DEFINE st == s \o t
           m == Len(s)
           n == Len(t)
<1>1. IsList(st) /\ Len(st) = m + n /\ FollowedBy(st, s, m, t, n)
  BY Appended
<1> HIDE DEF st
<1>2. Range(st) = {st[i] : i \in 1..(m + n)} /\ m \in Nat /\ n \in Nat
  BY <1>1, Members
<1>3. Range(s) = {s[i] : i \in 1..m} /\ Range(t) = {t[i] : i \in 1..n}
  BY Members
<1> HIDE DEF m, n
<1>4. (\A i \in 1..m : st[i] = s[i]) /\ \A i \in 1..n : st[m + i] = t[i]
  BY <1>1 DEF FollowedBy
<1>5. ASSUME NEW i \in 1..(m + n) PROVE st[i] \in Range(s) \cup Range(t)
  <2>1. CASE i <= m
    BY <1>2, <1>3, <1>4, <2>1
  <2>2. CASE i > m
    <3>1. i - m \in 1..n /\ m + (i - m) = i
      BY <1>2, <2>2
    <3> QED
      BY <1>3, <1>4, <3>1
  <2> QED
    BY <1>2, <2>1, <2>2
<1>6. ASSUME NEW i \in 1..m PROVE s[i] \in Range(st)
  BY <1>2, <1>4
<1>7. ASSUME NEW i \in 1..n PROVE t[i] \in Range(st)
  <2>1. m + i \in 1..(m + n)
    BY <1>2
  <2> QED
    BY <1>2, <1>4, <2>1
<1>8. Range(st) = Range(s) \cup Range(t)
  BY <1>2, <1>3, <1>5, <1>6, <1>7
<1> QED
  BY <1>8 DEF st

LEMMA None == IsList(<<>>) /\ Len(<<>>) = 0 /\ Range(<<>>) = {}
<1> SUFFICES ASSUME NEW s, s = <<>> PROVE IsList(s) /\ Len(s) = 0 /\ Range(s) = {}
  OBVIOUS
<1>1. Sized(s, 0)
  BY DEF Sized
<1>2. IsList(s) /\ Len(s) = 0
  BY <1>1, Lengths
<1> QED
  BY <1>2, Members

LEMMA NoneAppended == ASSUME NEW s, IsList(s) PROVE s \o <<>> = s
<1> DEFINE t == <<>>
           st == s \o t
<1>1. IsList(t) /\ Len(t) = 0
  BY None
<1> HIDE DEF t
<1>2. IsList(st) /\ Len(st) = Len(s) + 0 /\ FollowedBy(st, s, Len(s), t, 0)
  BY <1>1, Appended
<1> HIDE DEF st
<1>3. Len(s) \in Nat
  BY Members
<1>4. st = s
  BY <1>2, <1>3 DEF IsList, Sized, FollowedBy
<1> QED
  BY <1>4 DEF st, t

LEMMA One == ASSUME NEW e PROVE IsList(<<e>>) /\ Len(<<e>>) = 1 /\ <<e>>[1] = e /\ Range(<<e>>) = {e}
<1>1. Sized(<<e>>, 1) /\ <<e>>[1] = e
  BY Tuple1
<1>2. IsList(<<e>>) /\ Len(<<e>>) = 1
  BY <1>1, Lengths
<1>3. Range(<<e>>) = {<<e>>[i] : i \in 1..1}
  BY <1>2, Members
<1> DEFINE s == <<e>>
<1> HIDE DEF s
<1>4. Range(s) = {e}
  BY <1>1, <1>3 DEF s
<1> QED
  BY <1>1, <1>2, <1>4 DEF s

LEMMA Two ==
  ASSUME NEW e, NEW f
  PROVE  /\ IsList(<<e>> \o <<f>>) /\ Len(<<e>> \o <<f>>) = 2
         /\ (<<e>> \o <<f>>)[1] = e /\ (<<e>> \o <<f>>)[2] = f
<1> DEFINE s == <<e>>
           t == <<f>>
<1>1. IsList(s) /\ IsList(t) /\ Len(s) = 1 /\ Len(t) = 1 /\ s[1] = e /\ t[1] = f
  BY One
<1> HIDE DEF s, t
<1>2. IsList(s \o t) /\ Len(s \o t) = 2 /\ FollowedBy(s \o t, s, 1, t, 1)
  BY <1>1, Appended
<1>3. (s \o t)[1] = e /\ (s \o t)[2] = f
  BY <1>1, <1>2 DEF FollowedBy
<1> QED
  BY <1>2, <1>3 DEF s, t

\* What an entry needs, where an embedding by one of X needs nothing.
Wants(e, all, X) == IF e.type = "EMBEDDING" /\ e.by \in X THEN {} ELSE Inputs(e, all)
InOrder(s, X) == \A i \in 1..Len(s) : Wants(s[i], Range(s), X) \subseteq {s[j] : j \in 1..(i - 1)}

LEMMA Grown ==
  ASSUME NEW s, NEW t, IsList(s), IsList(t), NEW X, InOrder(s, X),
         \A e \in Range(s) : Wants(e, Range(s) \cup Range(t), X) \subseteq Wants(e, Range(s), X),
         \A i \in 1..Len(t) : Wants(t[i], Range(s) \cup Range(t), X) \subseteq Range(s) \cup {t[j] : j \in 1..(i - 1)}
  PROVE  InOrder(s \o t, X)
<1> DEFINE st == s \o t
           m == Len(s)
           n == Len(t)
<1>1. IsList(st) /\ Len(st) = m + n /\ FollowedBy(st, s, m, t, n) /\ Range(st) = Range(s) \cup Range(t)
  BY Appended, Ranges
<1>2. m \in Nat /\ n \in Nat /\ Range(s) = {s[i] : i \in 1..m}
  BY Members
<1>3. \A i \in 1..m : Wants(s[i], Range(s), X) \subseteq {s[j] : j \in 1..(i - 1)}
  BY DEF InOrder
<1> HIDE DEF st, m, n
<1>4. (\A i \in 1..m : st[i] = s[i]) /\ \A i \in 1..n : st[m + i] = t[i]
  BY <1>1 DEF FollowedBy
<1>5. ASSUME NEW i \in 1..(m + n) PROVE Wants(st[i], Range(st), X) \subseteq {st[j] : j \in 1..(i - 1)}
  <2>1. CASE i <= m
    <3>1. st[i] = s[i] /\ s[i] \in Range(s) /\ i \in 1..m
      BY <1>2, <1>4, <2>1
    <3>2. Wants(st[i], Range(st), X) \subseteq Wants(s[i], Range(s), X)
      BY <1>1, <3>1
    <3>3. Wants(st[i], Range(st), X) \subseteq {s[j] : j \in 1..(i - 1)}
      BY <1>3, <3>1, <3>2
    <3>4. \A j \in 1..(i - 1) : s[j] = st[j]
      BY <1>2, <1>4, <2>1
    <3> QED
      BY <3>3, <3>4
  <2>2. CASE i > m
    <3>1. PICK k \in 1..n : k = i - m /\ i = m + k /\ st[i] = t[k]
      <4>1. i - m \in 1..n /\ m + (i - m) = i
        BY <1>2, <2>2
      <4> QED
        BY <1>4, <4>1
    <3>2. Wants(st[i], Range(st), X) \subseteq Range(s) \cup {t[j] : j \in 1..(k - 1)}
      BY <1>1, <3>1 DEF n
    <3>3. ASSUME NEW j \in 1..m PROVE s[j] \in {st[l] : l \in 1..(i - 1)}
      <4>1. s[j] = st[j] /\ j \in 1..(i - 1)
        BY <1>2, <1>4, <2>2
      <4> QED
        BY <4>1
    <3>4. ASSUME NEW j \in 1..(k - 1) PROVE t[j] \in {st[l] : l \in 1..(i - 1)}
      <4>1. j \in 1..n /\ m + j \in 1..(i - 1)
        BY <1>2, <3>1
      <4>2. t[j] = st[m + j]
        BY <1>4, <4>1
      <4> QED
        BY <4>1, <4>2
    <3> QED
      BY <1>2, <3>2, <3>3, <3>4
  <2> QED
    BY <1>2, <2>1, <2>2
<1>6. InOrder(st, X)
  BY <1>1, <1>5 DEF InOrder
<1> QED
  BY <1>6 DEF st

LEMMA Freer ==
  ASSUME NEW s, NEW X, NEW Y, X \subseteq Y, InOrder(s, X)
  PROVE  InOrder(s, Y)
BY DEF InOrder, Wants

LEMMA Entries ==
  ASSUME NEW type, NEW p, NEW name, NEW by
  PROVE  /\ Entry(type, p, name, by).type = type /\ Entry(type, p, name, by).project = p
         /\ Entry(type, p, name, by).name = name /\ Entry(type, p, name, by).by = by
BY DEF Entry

LEMMA StepOrder ==
  /\ Len(Program) = 23 /\ DOMAIN Program = 1..23
  /\ \A i \in 1..23 : Program[i].project \in Projects
  /\ \A i, j \in 1..23 :
       Program[i].step.kind = "attribute" /\ Program[j].step.kind = "embedding"
         /\ Program[i].project = Program[j].project => i < j
  /\ \A i, j \in 1..23 :
       Program[i].step.kind = "task" /\ Program[i].step.bricks /\ Program[j].step.kind = "weak_supervision"
         /\ Program[i].project = Program[j].project => i < j
  /\ \A i \in 1..23 : Program[i].step.kind = "finish" => i = 23
  /\ Program[1].step.kind = "post" /\ Program[1].project = "QUESTION"
  /\ Program[2].step.kind = "post" /\ Program[2].project = "RELEVANCE"
<1>1. Sized(Program, 23) /\ \A i \in 1..23 : Stands(Program[i], i)
  BY Places
<1>2. Len(Program) = 23 /\ DOMAIN Program = 1..23
  <2>1. IsList(Program) /\ Len(Program) = 23
    BY <1>1, Lengths
  <2> QED
    BY <2>1, Members
<1>4. \A i \in 1..23 : Program[i].project \in Projects
  BY <1>1 DEF Stands, ProjectAt, Projects
<1>5. ASSUME NEW i \in 1..23, NEW j \in 1..23,
             Program[i].step.kind = "attribute", Program[j].step.kind = "embedding",
             Program[i].project = Program[j].project
      PROVE  i < j
  <2>1. StepAt(i) = "attribute" /\ StepAt(j) = "embedding" /\ ProjectAt(i) = ProjectAt(j)
    BY <1>1, <1>5 DEF Stands
  <2>2. i \in {3, 4, 11} /\ j \in {8, 9, 16, 21}
    BY <2>1 DEF StepAt
  <2> QED
    BY <2>1, <2>2 DEF ProjectAt
<1>6. ASSUME NEW i \in 1..23, NEW j \in 1..23,
             Program[i].step.kind = "task", Program[i].step.bricks,
             Program[j].step.kind = "weak_supervision", Program[i].project = Program[j].project
      PROVE  i < j
  <2>1. /\ StepAt(i) = "task" /\ i \notin {18, 19} /\ StepAt(j) = "weak_supervision"
        /\ ProjectAt(i) = ProjectAt(j)
    BY <1>1, <1>6 DEF Stands
  <2>2. i \in 5..7 \cup 12..15 \cup {20} /\ j \in {10, 17, 22}
    BY <2>1 DEF StepAt
  <2> QED
    BY <2>1, <2>2 DEF ProjectAt
<1>7. ASSUME NEW i \in 1..23, Program[i].step.kind = "finish" PROVE i = 23
  BY <1>1, <1>7 DEF Stands, StepAt
<1>8. /\ Program[1].step.kind = "post" /\ Program[1].project = "QUESTION"
      /\ Program[2].step.kind = "post" /\ Program[2].project = "RELEVANCE"
  BY <1>1 DEF Stands, StepAt, ProjectAt
<1> QED
  BY <1>2, <1>4, <1>5, <1>6, <1>7, <1>8

LEMMA Asks ==
  /\ Waiting = 24 /\ Ready = 27 /\ Queued = 28
  /\ Asked[1] = "REFERENCE" /\ Asked[2] = "QUESTION" /\ Asked[3] = "RELEVANCE"
<1> DEFINE s == <<"REFERENCE", "QUESTION", "RELEVANCE">>
<1>1. Asked = s
  BY DEF Asked
<1>2. s[1] = "REFERENCE" /\ s[2] = "QUESTION" /\ s[3] = "RELEVANCE"
  OBVIOUS
<1>3. Len(Asked) = 3
  <2>1. Sized(s, 3)
    BY Tuple3
  <2> HIDE DEF s
  <2> QED
    BY <1>1, <2>1, Lengths
<1>4. Waiting = 24
  <2>1. Len(Program) = 23
    BY StepOrder
  <2> QED
    BY <2>1 DEF Waiting
<1>5. Ready = 27 /\ Queued = 28
  BY <1>3, <1>4 DEF Ready, Queued
<1> QED
  BY <1>1, <1>2, <1>4, <1>5

\* What the steps of Program before pos have put into the list s of wizard w.
Passed(pos, kind) == {k \in 1..23 : k < pos /\ Program[k].step.kind = kind}
Gathered(w, pos, s, gone, X) ==
  /\ gone \/ \A k \in Passed(pos, "attribute") :
               Entry("ATTRIBUTE_CALCULATION", Program[k].project, Program[k].step.name, w) \in Range(s)
  /\ \A e \in Range(s) : e.type = "RUN_WEAK_SUPERVISION" =>
       \E k \in Passed(pos, "weak_supervision") : Program[k].project = e.project
  /\ \A e \in Range(s) : e.type = "FINISH_COGNITION_SETUP" => pos > 23
  /\ InOrder(s, X)

\* The entries t that a step of w appends to s.
Appends(w, p, n, kind, bricks, s, X, t) ==
  \/ kind # "attribute" /\ t = <<>>
  \/ kind = "attribute" /\ t = <<Entry("ATTRIBUTE_CALCULATION", p, n, w)>>
  \/ kind = "task" /\ bricks /\ t = <<Entry("INFORMATION_SOURCE", p, n, w)>>
  \/ /\ kind = "embedding"
     /\ \E by : /\ by \in X \/ Entry("ATTRIBUTE_CALCULATION", p, n, by) \in Range(s)
                /\ \/ t = <<Entry("EMBEDDING", p, n, by)>>
                   \/ t = <<Entry("EMBEDDING", p, n, by)>> \o <<Entry("CREATE_OUTLIER_SLICE", p, n, by)>>
  \/ kind = "weak_supervision" /\ t = <<Entry("RUN_WEAK_SUPERVISION", p, "", w)>>
  \/ kind = "finish" /\ t = <<Entry("FINISH_COGNITION_SETUP", "", "", w)>>
Gives(w, k, s, X, t) ==
  Appends(w, Program[k].project, Program[k].step.name, Program[k].step.kind, Program[k].step.bricks, s, X, t)

LEMMA Further ==
  ASSUME NEW w, NEW X, NEW s, NEW pos \in 0..28, NEW next \in 0..28, pos <= next, Gathered(w, pos, s, FALSE, X),
         Passed(next, "attribute") = Passed(pos, "attribute")
  PROVE  Gathered(w, next, s, FALSE, X)
<1>1. Passed(pos, "weak_supervision") \subseteq Passed(next, "weak_supervision")
  BY DEF Passed
<1> QED
  BY <1>1 DEF Gathered

LEMMA Over ==
  ASSUME NEW w, NEW X, NEW s, NEW pos \in 0..28, NEW gone, Gathered(w, pos, s, gone, X)
  PROVE  Gathered(w, 28, s, TRUE, X)
<1>1. Passed(pos, "weak_supervision") \subseteq Passed(28, "weak_supervision")
  BY DEF Passed
<1> QED
  BY <1>1 DEF Gathered

\* Once the program is over, the wizard only waits.
LEMMA Waits ==
  ASSUME NEW w, NEW X, NEW s, NEW pos \in 24..28, NEW next \in 24..28, Gathered(w, pos, s, FALSE, X)
  PROVE  Gathered(w, next, s, FALSE, X)
<1>1. \A kind : Passed(pos, kind) = Passed(next, kind)
  BY DEF Passed
<1> QED
  BY <1>1 DEF Gathered

LEMMA MoreLeft ==
  ASSUME NEW w, NEW X, NEW Y, NEW s, NEW pos, NEW gone, X \subseteq Y, Gathered(w, pos, s, gone, X)
  PROVE  Gathered(w, pos, s, gone, Y)
BY Freer DEF Gathered

LEMMA Step ==
  ASSUME NEW w, NEW X, NEW k \in 1..23, NEW s, NEW t, IsList(s), Gathered(w, k, s, FALSE, X), Gives(w, k, s, X, t)
  PROVE  IsList(t) /\ Gathered(w, k + 1, s \o t, FALSE, X)
<1> DEFINE p == Program[k].project
           n == Program[k].step.name
           kind == Program[k].step.kind
           all == Range(s) \cup Range(t)
<1>1. Appends(w, p, n, kind, Program[k].step.bricks, s, X, t)
  BY DEF Gives
<1>2. /\ \A i \in Passed(k, "attribute") :
           Entry("ATTRIBUTE_CALCULATION", Program[i].project, Program[i].step.name, w) \in Range(s)
      /\ \A e \in Range(s) : e.type = "RUN_WEAK_SUPERVISION" =>
           \E i \in Passed(k, "weak_supervision") : Program[i].project = e.project
      /\ \A e \in Range(s) : e.type # "FINISH_COGNITION_SETUP"
      /\ InOrder(s, X)
  BY DEF Gathered
<1>3. \A kd : Passed(k + 1, kd) = Passed(k, kd) \cup (IF kind = kd THEN {k} ELSE {})
  BY DEF Passed
\* None of the entries that are there needs a new one.
<1>4. ASSUME NEW e \in Range(s),
             \A x \in Range(t) : x.type = "INFORMATION_SOURCE" =>
               x.project = p /\ kind = "task" /\ Program[k].step.bricks
      PROVE  Wants(e, all, X) \subseteq Wants(e, Range(s), X)
  <2>1. e.type # "FINISH_COGNITION_SETUP"
    BY <1>2
  <2>2. CASE e.type = "RUN_WEAK_SUPERVISION"
    <3>1. PICK i \in Passed(k, "weak_supervision") : Program[i].project = e.project
      BY <1>2, <2>2
    <3>2. i \in 1..23 /\ i < k /\ Program[i].step.kind = "weak_supervision"
      BY <3>1 DEF Passed
    <3>3. ~(kind = "task" /\ Program[k].step.bricks /\ p = e.project)
      <4>1. kind = "task" /\ Program[k].step.bricks /\ p = Program[i].project => k < i
        BY <3>2, StepOrder
      <4> QED
        BY <3>1, <3>2, <4>1
    <3>4. \A x \in Range(t) : ~(x.type = "INFORMATION_SOURCE" /\ x.project = e.project)
      BY <1>4, <3>3
    <3> QED
      BY <2>2, <3>4 DEF Inputs, Wants
  <2>3. CASE e.type # "RUN_WEAK_SUPERVISION"
    BY <2>1, <2>3 DEF Inputs, Wants
  <2> QED
    BY <2>2, <2>3
<1> HIDE DEF p, n, kind
<1>5. ASSUME NEW e, t = <<e>>,
             e.type = "INFORMATION_SOURCE" => e.project = p /\ kind = "task" /\ Program[k].step.bricks,
             Wants(e, all, X) \subseteq Range(s)
      PROVE  IsList(t) /\ InOrder(s \o t, X) /\ Range(s \o t) = Range(s) \cup {e}
  <2>1. IsList(t) /\ Len(t) = 1 /\ t[1] = e /\ Range(t) = {e}
    BY <1>5, One
  <2>2. \A x \in Range(s) : Wants(x, all, X) \subseteq Wants(x, Range(s), X)
    BY <1>4, <1>5, <2>1
  <2>3. \A i \in 1..Len(t) : Wants(t[i], all, X) \subseteq Range(s) \cup {t[j] : j \in 1..(i - 1)}
    <3>1. Wants(t[1], all, X) \subseteq Range(s)
      BY <1>5, <2>1
    <3> QED
      BY <2>1, <3>1
  <2>4. InOrder(s \o t, X)
    BY <1>2, <2>1, <2>2, <2>3, Grown
  <2>5. Range(s \o t) = Range(s) \cup Range(t)
    BY <2>1, Ranges
  <2> QED
    BY <2>1, <2>4, <2>5
<1>6. CASE kind # "attribute" /\ t = <<>>
  <2>1. IsList(t) /\ Len(t) = 0 /\ Range(t) = {}
    BY <1>6, None
  <2>2. Range(s \o t) = Range(s)
    BY <2>1, Ranges
  <2>3. InOrder(s \o t, X)
    <3>1. \A x \in Range(s) : Wants(x, all, X) \subseteq Wants(x, Range(s), X)
      BY <1>4, <2>1
    <3>2. \A i \in 1..Len(t) : Wants(t[i], all, X) \subseteq Range(s) \cup {t[j] : j \in 1..(i - 1)}
      BY <2>1
    <3> QED
      BY <1>2, <2>1, <3>1, <3>2, Grown
  <2> QED
    BY <1>2, <1>3, <1>6, <2>1, <2>2, <2>3 DEF Gathered
<1>7. CASE kind = "attribute" /\ t = <<Entry("ATTRIBUTE_CALCULATION", p, n, w)>>
  <2> DEFINE e == Entry("ATTRIBUTE_CALCULATION", p, n, w)
  <2>1. e.type = "ATTRIBUTE_CALCULATION"
    BY Entries
  <2>2. Wants(e, all, X) = {}
    BY <2>1 DEF Inputs, Wants
  <2> HIDE DEF e
  <2>3. IsList(t) /\ InOrder(s \o t, X) /\ Range(s \o t) = Range(s) \cup {e}
    BY <1>5, <1>7, <2>1, <2>2 DEF e
  <2>4. Entry("ATTRIBUTE_CALCULATION", Program[k].project, Program[k].step.name, w) = e
    BY DEF e, p, n
  <2> QED
    BY <1>2, <1>3, <1>7, <2>1, <2>3, <2>4 DEF Gathered
<1>8. CASE kind = "task" /\ Program[k].step.bricks /\ t = <<Entry("INFORMATION_SOURCE", p, n, w)>>
  <2> DEFINE e == Entry("INFORMATION_SOURCE", p, n, w)
  <2>1. e.type = "INFORMATION_SOURCE" /\ e.project = p
    BY Entries
  <2>2. Wants(e, all, X) = {}
    BY <2>1 DEF Inputs, Wants
  <2> HIDE DEF e
  <2>3. IsList(t) /\ InOrder(s \o t, X) /\ Range(s \o t) = Range(s) \cup {e}
    BY <1>5, <1>8, <2>1, <2>2 DEF e
  <2> QED
    BY <1>2, <1>3, <1>8, <2>1, <2>3 DEF Gathered
<1>9. CASE kind = "weak_supervision" /\ t = <<Entry("RUN_WEAK_SUPERVISION", p, "", w)>>
  <2> DEFINE e == Entry("RUN_WEAK_SUPERVISION", p, "", w)
  <2>1. e.type = "RUN_WEAK_SUPERVISION" /\ e.project = p
    BY DEF Entry
  <2> HIDE DEF e
  <2>2. Range(t) = {e}
    BY <1>9, One DEF e
  <2>3. Wants(e, all, X) \subseteq Range(s)
    BY <2>1, <2>2 DEF Inputs, Wants
  <2>4. IsList(t) /\ InOrder(s \o t, X) /\ Range(s \o t) = Range(s) \cup {e}
    BY <1>5, <1>9, <2>1, <2>3 DEF e
  <2>5. k \in Passed(k + 1, "weak_supervision") /\ Program[k].project = e.project
    BY <1>3, <1>9, <2>1 DEF p
  <2> QED
    BY <1>2, <1>3, <1>9, <2>1, <2>4, <2>5 DEF Gathered
<1>10. CASE kind = "finish" /\ t = <<Entry("FINISH_COGNITION_SETUP", "", "", w)>>
  <2> DEFINE e == Entry("FINISH_COGNITION_SETUP", "", "", w)
  <2>1. e.type = "FINISH_COGNITION_SETUP"
    BY DEF Entry
  <2> HIDE DEF e
  <2>2. Range(t) = {e}
    BY <1>10, One DEF e
  <2>3. Wants(e, all, X) \subseteq Range(s)
    BY <2>1, <2>2 DEF Inputs, Wants
  <2>4. IsList(t) /\ InOrder(s \o t, X) /\ Range(s \o t) = Range(s) \cup {e}
    BY <1>5, <1>10, <2>1, <2>3 DEF e
  <2>5. k + 1 > 23
    <3>1. Program[k].step.kind = "finish" => k = 23
      BY StepOrder
    <3>2. Program[k].step.kind = "finish"
      BY <1>10 DEF kind
    <3> QED
      BY <3>1, <3>2
  <2> QED
    BY <1>2, <1>3, <1>10, <2>1, <2>4, <2>5 DEF Gathered
\* The calculation of the attribute of an embedding comes first.
<1>11. ASSUME NEW by, by \in X \/ Entry("ATTRIBUTE_CALCULATION", p, n, by) \in Range(s)
       PROVE  Wants(Entry("EMBEDDING", p, n, by), all, X) \subseteq Range(s)
  <2> DEFINE e == Entry("EMBEDDING", p, n, by)
  <2>1. e.type = "EMBEDDING" /\ e.project = p /\ e.name = n /\ e.by = by
    BY Entries
  <2> HIDE DEF e
  <2>2. Wants(e, all, X) = IF by \in X THEN {} ELSE {Entry("ATTRIBUTE_CALCULATION", p, n, by)}
    BY <2>1 DEF Wants, Inputs
  <2> QED
    BY <1>11, <2>2 DEF e
<1>12. ASSUME NEW by, by \in X \/ Entry("ATTRIBUTE_CALCULATION", p, n, by) \in Range(s),
              kind = "embedding", t = <<Entry("EMBEDDING", p, n, by)>>
       PROVE  IsList(t) /\ Gathered(w, k + 1, s \o t, FALSE, X)
  <2> DEFINE e == Entry("EMBEDDING", p, n, by)
  <2>1. e.type = "EMBEDDING"
    BY Entries
  <2>2. Wants(e, all, X) \subseteq Range(s)
    BY <1>11, <1>12
  <2> HIDE DEF e
  <2>3. IsList(t) /\ InOrder(s \o t, X) /\ Range(s \o t) = Range(s) \cup {e}
    BY <1>5, <1>12, <2>1, <2>2 DEF e
  <2> QED
    BY <1>2, <1>3, <1>12, <2>1, <2>3 DEF Gathered
<1>13. ASSUME NEW by, by \in X \/ Entry("ATTRIBUTE_CALCULATION", p, n, by) \in Range(s), kind = "embedding",
              t = <<Entry("EMBEDDING", p, n, by)>> \o <<Entry("CREATE_OUTLIER_SLICE", p, n, by)>>
       PROVE  IsList(t) /\ Gathered(w, k + 1, s \o t, FALSE, X)
  <2> DEFINE e == Entry("EMBEDDING", p, n, by)
             o == Entry("CREATE_OUTLIER_SLICE", p, n, by)
  <2>1. /\ e.type = "EMBEDDING" /\ o.type = "CREATE_OUTLIER_SLICE"
        /\ Entry("EMBEDDING", o.project, o.name, o.by) = e
    BY Entries
  <2>2. Wants(e, all, X) \subseteq Range(s)
    BY <1>11, <1>13
  <2>3. Wants(o, all, X) = {e}
    BY <2>1 DEF Inputs, Wants
  <2> HIDE DEF e, o
  <2>4. IsList(t) /\ Len(t) = 2 /\ t[1] = e /\ t[2] = o
    BY <1>13, Two DEF e, o
  <2>5. Range(t) = {e, o}
    BY <2>4, Members
  <2>6. \A x \in Range(s) : Wants(x, all, X) \subseteq Wants(x, Range(s), X)
    BY <1>4, <2>1, <2>5
  <2>7. \A i \in 1..Len(t) : Wants(t[i], all, X) \subseteq Range(s) \cup {t[j] : j \in 1..(i - 1)}
    <3>1. Wants(t[1], all, X) \subseteq Range(s)
      BY <2>2, <2>4
    <3>2. Wants(t[2], all, X) \subseteq {t[j] : j \in 1..1}
      BY <2>3, <2>4
    <3>3. ASSUME NEW i \in 1..Len(t) PROVE Wants(t[i], all, X) \subseteq Range(s) \cup {t[j] : j \in 1..(i - 1)}
      <4>1. i = 1 \/ i = 2
        BY <2>4
      <4>2. CASE i = 1
        BY <3>1, <4>2
      <4>3. CASE i = 2
        <5>1. i - 1 = 1
          BY <4>3
        <5> QED
          BY <3>2, <4>3, <5>1
      <4> QED
        BY <4>1, <4>2, <4>3
    <3> QED
      BY <3>3
  <2>8. InOrder(s \o t, X)
    BY <1>2, <2>4, <2>6, <2>7, Grown
  <2>9. Range(s \o t) = Range(s) \cup {e, o}
    BY <2>4, <2>5, Ranges
  <2> QED
    BY <1>2, <1>3, <1>13, <2>1, <2>4, <2>8, <2>9 DEF Gathered
<1> QED
  BY <1>1, <1>6, <1>7, <1>8, <1>9, <1>10, <1>12, <1>13 DEF Appends

-----------------------------------------------------------------------------
Setup == WizardInit /\ [][WizardNext]_wizardVars

\* Whose attributes w may use without having made them.
Others(w) == {Given} \cup (gaveUp \ {w})
ListsInv ==
  /\ DOMAIN position = Wizards /\ DOMAIN list = Wizards /\ DOMAIN seen = Wizards
  /\ \A w \in Wizards :
       /\ position[w] \in 0..28 /\ IsList(list[w])
       /\ Gathered(w, position[w], list[w], w \in gaveUp, Others(w))
       /\ w \in gaveUp => position[w] = 28
Works(w) == position[w] # 0 /\ w \notin gaveUp
Alone == \A w, v \in Wizards : Works(w) /\ Works(v) => w = v
\* The attributes that a wizard made are in its list.
Listed(c) == /\ c[3] \in Wizards /\ position[c[3]] # 0
             /\ Entry("ATTRIBUTE_CALCULATION", c[1], c[2], c[3]) \in Range(list[c[3]])
ColumnsInv == \A c \in columns : c[3] = Given \/ Listed(c)

LEMMA ListsAtFirst == WizardInit => ListsInv /\ Alone /\ ColumnsInv
<1> SUFFICES ASSUME WizardInit PROVE ListsInv /\ Alone /\ ColumnsInv
  OBVIOUS
<1>1. /\ position = [w \in Wizards |-> 0] /\ list = [w \in Wizards |-> <<>>]
      /\ seen = [w \in Wizards |-> {}] /\ gaveUp = {}
  BY DEF WizardInit
<1>2. ASSUME NEW w PROVE Gathered(w, 0, <<>>, FALSE, Others(w))
  <2> DEFINE s == <<>>
  <2>1. IsList(s) /\ Len(s) = 0 /\ Range(s) = {}
    BY None
  <2>2. Passed(0, "attribute") = {}
    BY DEF Passed
  <2> HIDE DEF s
  <2>3. Gathered(w, 0, s, FALSE, Others(w))
    BY <2>1, <2>2 DEF Gathered, InOrder
  <2> QED
    BY <2>3 DEF s
<1>3. ASSUME NEW w \in Wizards
      PROVE  /\ position[w] \in 0..28 /\ IsList(list[w])
             /\ Gathered(w, position[w], list[w], w \in gaveUp, Others(w))
             /\ w \in gaveUp => position[w] = 28
  <2>1. position[w] = 0 /\ list[w] = <<>> /\ (w \in gaveUp) = FALSE
    BY <1>1
  <2>2. IsList(list[w]) /\ Gathered(w, position[w], list[w], w \in gaveUp, Others(w))
    BY <1>2, <2>1, None
  <2> QED
    BY <2>1, <2>2
<1>4. DOMAIN position = Wizards /\ DOMAIN list = Wizards /\ DOMAIN seen = Wizards
  BY <1>1
<1>5. Alone
  BY <1>1 DEF Alone, Works
<1>6. ColumnsInv
  <2>1. \A c \in columns : c \in {<<"REFERENCE", "reference", Given>>, <<"QUESTION", "question", Given>>,
                                  <<"RELEVANCE", "question", Given>>}
    BY DEF WizardInit
  <2> QED
    BY <2>1 DEF ColumnsInv
<1> QED
  BY <1>3, <1>4, <1>5, <1>6 DEF ListsInv

\* Nobody goes back to the start, and only one who is alone leaves it.
Onward ==
  /\ gaveUp \subseteq gaveUp'
  /\ \A v \in Wizards :
       /\ position[v] # 0 => position'[v] # 0
       /\ Range(list[v]) \subseteq Range(list'[v])
       /\ position[v] = 0 /\ position'[v] # 0 =>
            \A u \in Wizards \ {v} : position'[u] = position[u] /\ ~Works(u)

LEMMA Advances ==
  ASSUME ListsInv, NEW w \in Wizards, NEW t, Advance(w, t),
         \/ position[w] = 0 /\ t = <<>> /\ \A u \in Wizards : ~Works(u)
         \/ position[w] = 27 /\ t = <<>>
         \/ position[w] \in 1..23 /\ Gives(w, position[w], list[w], Others(w), t)
  PROVE  /\ ListsInv' /\ Onward /\ w \notin gaveUp /\ IsList(t)
         /\ position'[w] = position[w] + 1 /\ list'[w] = list[w] \o t /\ seen'[w] = {} /\ gaveUp' = gaveUp
         /\ \A v \in Wizards \ {w} : position'[v] = position[v] /\ list'[v] = list[v] /\ seen'[v] = seen[v]
<1>1. /\ DOMAIN position = Wizards /\ DOMAIN list = Wizards /\ DOMAIN seen = Wizards
      /\ \A v \in Wizards :
           /\ position[v] \in 0..28 /\ IsList(list[v])
           /\ Gathered(v, position[v], list[v], v \in gaveUp, Others(v))
           /\ v \in gaveUp => position[v] = 28
  BY DEF ListsInv
<1>2. w \notin gaveUp /\ (w \in gaveUp) = FALSE
  BY <1>1, SMTT(30)
<1>3. /\ position' = [position EXCEPT ![w] = @ + 1] /\ list' = [list EXCEPT ![w] = @ \o t]
      /\ seen' = [seen EXCEPT ![w] = {}] /\ gaveUp' = gaveUp
  BY DEF Advance
<1>4. /\ DOMAIN position' = Wizards /\ DOMAIN list' = Wizards /\ DOMAIN seen' = Wizards
      /\ position'[w] = position[w] + 1 /\ list'[w] = list[w] \o t /\ seen'[w] = {}
      /\ \A v \in Wizards \ {w} : position'[v] = position[v] /\ list'[v] = list[v] /\ seen'[v] = seen[v]
  BY <1>1, <1>3
<1>5. IsList(t) /\ IsList(list[w] \o t) /\ Gathered(w, position[w] + 1, list[w] \o t, FALSE, Others(w))
  <2>1. IsList(list[w]) /\ Gathered(w, position[w], list[w], FALSE, Others(w))
    BY <1>1, <1>2
  <2>2. CASE position[w] \in {0, 27} /\ t = <<>>
    <3>1. list[w] \o t = list[w]
      BY <2>1, <2>2, NoneAppended
    <3>2. Passed(position[w] + 1, "attribute") = Passed(position[w], "attribute")
      <4>1. \A q \in {0, 27} : \A k \in 1..23 : k < q + 1 <=> k < q
        BY SMTT(30)
      <4>2. \A k \in 1..23 : k < position[w] + 1 <=> k < position[w]
        BY <2>2, <4>1, ZenonT(60)
      <4> QED
        BY <4>2 DEF Passed
    <3>3. Gathered(w, position[w] + 1, list[w], FALSE, Others(w))
      <4>1. position[w] \in 0..28 /\ position[w] + 1 \in 0..28 /\ position[w] <= position[w] + 1
        BY <2>2
      <4> QED
        BY <2>1, <3>2, <4>1, Further
    <3> QED
      BY <2>1, <2>2, <3>1, <3>3, None
  <2>3. CASE position[w] \in 1..23 /\ Gives(w, position[w], list[w], Others(w), t)
    <3>1. IsList(t) /\ Gathered(w, position[w] + 1, list[w] \o t, FALSE, Others(w))
      BY <2>1, <2>3, Step
    <3> QED
      BY <2>1, <3>1, Appended
  <2> QED
    BY <2>2, <2>3
<1>6. \A v : Others(v)' = Others(v)
  BY <1>3 DEF Others
<1>7. ASSUME NEW v \in Wizards
      PROVE  /\ position'[v] \in 0..28 /\ IsList(list'[v])
             /\ Gathered(v, position'[v], list'[v], v \in gaveUp', Others(v)')
             /\ v \in gaveUp' => position'[v] = 28
  <2>1. CASE v = w
    <3>1. /\ (v \in gaveUp') = FALSE /\ position'[v] = position[w] + 1 /\ list'[v] = list[w] \o t
          /\ Others(v)' = Others(w)
      BY <1>2, <1>3, <1>4, <1>6, <2>1
    <3>2. position[w] \in 0..27
      OBVIOUS
    <3>3. position[w] + 1 \in 0..28
      <4>1. \A p \in 0..27 : p + 1 \in 0..28
        OBVIOUS
      <4> QED
        BY <3>2, <4>1, Zenon
    <3> QED
      BY <1>5, <2>1, <3>1, <3>3
  <2>2. CASE v # w
    BY <1>1, <1>3, <1>4, <1>6, <2>2
  <2> QED
    BY <2>1, <2>2
<1>8. ListsInv'
  BY <1>4, <1>7 DEF ListsInv
<1>9. Onward
  <2>1. Range(list[w] \o t) = Range(list[w]) \cup Range(t)
    BY <1>1, <1>5, Ranges
  <2>2. position[w] + 1 # 0
    <3>1. position[w] \in 0..28
      BY <1>1
    <3>2. \A i \in 0..28 : i + 1 # 0
      BY SMTT(30)
    <3> QED
      BY <3>1, <3>2, ZenonT(60)
  <2>3. position[w] = 0 => \A u \in Wizards : ~Works(u)
    OBVIOUS
  <2> QED
    BY <1>3, <1>4, <2>1, <2>2, <2>3 DEF Onward
<1> QED
  BY <1>2, <1>3, <1>4, <1>5, <1>8, <1>9

LEMMA Leaves ==
  ASSUME ListsInv, NEW w \in Wizards, GiveUp(w)
  PROVE  /\ ListsInv' /\ position'[w] = 28 /\ list' = list /\ seen' = seen /\ gaveUp' = gaveUp \cup {w}
         /\ \A v \in Wizards \ {w} : position'[v] = position[v]
<1>1. /\ DOMAIN position = Wizards /\ DOMAIN list = Wizards /\ DOMAIN seen = Wizards
      /\ \A v \in Wizards :
           /\ position[v] \in 0..28 /\ IsList(list[v])
           /\ Gathered(v, position[v], list[v], v \in gaveUp, Others(v))
           /\ v \in gaveUp => position[v] = 28
  BY DEF ListsInv
<1>2. gaveUp' = gaveUp \cup {w} /\ position' = [position EXCEPT ![w] = 28] /\ list' = list /\ seen' = seen
  BY Asks DEF GiveUp
<1>3. DOMAIN position' = Wizards /\ position'[w] = 28 /\ \A v \in Wizards \ {w} : position'[v] = position[v]
  BY <1>1, <1>2
<1>4. Gathered(w, 28, list[w], TRUE, Others(w))
  BY <1>1, Over
<1>5. \A v : Others(v) \subseteq Others(v)'
  BY <1>2 DEF Others
<1>6. ASSUME NEW v \in Wizards
      PROVE  /\ position'[v] \in 0..28 /\ IsList(list'[v])
             /\ Gathered(v, position'[v], list'[v], v \in gaveUp', Others(v)')
             /\ v \in gaveUp' => position'[v] = 28
  <2>1. CASE v = w
    <3>1. (v \in gaveUp') = TRUE /\ position'[v] = 28 /\ list'[v] = list[w]
      BY <1>2, <1>3, <2>1
    <3>2. Gathered(v, 28, list[v], TRUE, Others(v)')
      BY <1>4, <1>5, <2>1, MoreLeft
    <3>3. Gathered(v, position'[v], list'[v], v \in gaveUp', Others(v)')
      BY <2>1, <3>1, <3>2 DEF Gathered
    <3> QED
      BY <1>1, <2>1, <3>1, <3>3
  <2>2. CASE v # w
    <3>1. (v \in gaveUp') = (v \in gaveUp) /\ position'[v] = position[v] /\ list'[v] = list[v]
      BY <1>2, <1>3, <2>2
    <3>2. Gathered(v, position[v], list[v], v \in gaveUp, Others(v)')
      BY <1>1, <1>5, MoreLeft
    <3> QED
      BY <1>1, <3>1, <3>2
  <2> QED
    BY <2>1, <2>2
<1>7. ListsInv'
  BY <1>1, <1>2, <1>3, <1>6 DEF ListsInv
<1> QED
  BY <1>2, <1>3, <1>7

LEMMA QuitsOnward ==
  ASSUME ListsInv, NEW w \in Wizards, GiveUp(w), position[w] # 0
  PROVE  Onward
<1>1. /\ position'[w] = 28 /\ list' = list /\ gaveUp' = gaveUp \cup {w}
      /\ \A v \in Wizards \ {w} : position'[v] = position[v]
  BY Leaves
<1> QED
  BY <1>1 DEF Onward

LEMMA AskStep ==
  ASSUME ListsInv, NEW w \in Wizards, AskTokenization(w)
  PROVE  /\ ListsInv' /\ Onward /\ w \notin gaveUp
         /\ list' = list /\ seen' = seen /\ gaveUp' = gaveUp
         /\ position[w] \in 24..26 /\ position'[w] \in {24, position[w] + 1}
         /\ \A v \in Wizards \ {w} : position'[v] = position[v]
<1>1. /\ DOMAIN position = Wizards /\ DOMAIN list = Wizards /\ DOMAIN seen = Wizards
      /\ \A v \in Wizards :
           /\ position[v] \in 0..28 /\ IsList(list[v])
           /\ Gathered(v, position[v], list[v], v \in gaveUp, Others(v))
           /\ v \in gaveUp => position[v] = 28
  BY DEF ListsInv
<1>2. position[w] \in 24..26
  BY Asks DEF AskTokenization
<1>3. w \notin gaveUp
  BY <1>1, <1>2
<1>4. /\ list' = list /\ seen' = seen /\ gaveUp' = gaveUp
      /\ \E q \in {24, position[w] + 1} : position' = [position EXCEPT ![w] = q]
  BY Asks DEF AskTokenization
<1>5. /\ DOMAIN position' = Wizards /\ position'[w] \in {24, position[w] + 1}
      /\ \A v \in Wizards \ {w} : position'[v] = position[v]
  BY <1>1, <1>4
<1>6. \A v : Others(v)' = Others(v)
  BY <1>4 DEF Others
<1>7. position'[w] \in 24..28
  BY <1>2, <1>5
<1>8. Gathered(w, position'[w], list[w], FALSE, Others(w))
  <2>1. Gathered(w, position[w], list[w], FALSE, Others(w))
    <3>1. (w \in gaveUp) = FALSE
      BY <1>3
    <3> QED
      BY <1>1, <3>1
  <2>2. position[w] \in 24..28
    BY <1>2
  <2> QED
    BY <1>7, <2>1, <2>2, Waits
<1>9. ASSUME NEW v \in Wizards
      PROVE  /\ position'[v] \in 0..28 /\ IsList(list'[v])
             /\ Gathered(v, position'[v], list'[v], v \in gaveUp', Others(v)')
             /\ v \in gaveUp' => position'[v] = 28
  <2>1. CASE v = w
    <3>1. (v \in gaveUp') = FALSE /\ list'[v] = list[w] /\ Others(v)' = Others(w)
      BY <1>3, <1>4, <1>6, <2>1
    <3>2. position'[v] \in 0..28
      BY <1>7, <2>1
    <3> QED
      BY <1>1, <1>8, <2>1, <3>1, <3>2
  <2>2. CASE v # w
    BY <1>1, <1>4, <1>5, <1>6, <2>2
  <2> QED
    BY <2>1, <2>2
<1>10. ListsInv'
  BY <1>1, <1>4, <1>5, <1>9 DEF ListsInv
<1>11. Onward
  BY <1>2, <1>4, <1>5, <1>7 DEF Onward
<1> QED
  BY <1>2, <1>3, <1>4, <1>5, <1>10, <1>11

LEMMA AtStep ==
  ASSUME NEW w, NEW kind, At(w, kind)
  PROVE  position[w] \in 1..23 /\ Program[position[w]].step.kind = kind
BY StepOrder DEF At

\* What the steps of a wizard append.
LEMMA AttributeStep ==
  ASSUME NEW w, NEW s, NEW X, create_attribute_with(w)
  PROVE  \E t : /\ position[w] \in 1..23 /\ Gives(w, position[w], s, X, t) /\ Advance(w, t)
                /\ t = <<Entry("ATTRIBUTE_CALCULATION", Program[position[w]].project, Program[position[w]].step.name, w)>>
<1> DEFINE k == position[w]
           p == Program[k].project
           n == Program[k].step.name
           t == <<Entry("ATTRIBUTE_CALCULATION", p, n, w)>>
<1>1. k \in 1..23 /\ Program[k].step.kind = "attribute"
  BY AtStep DEF create_attribute_with
<1>2. Advance(w, t)
  BY DEF create_attribute_with
<1>3. Gives(w, k, s, X, t)
  BY <1>1 DEF Gives, Appends
<1> QED
  BY <1>1, <1>2, <1>3

LEMMA TaskStep ==
  ASSUME NEW w, NEW s, NEW X, create_task_and_labels_for(w)
  PROVE  \E t : position[w] \in 1..23 /\ Gives(w, position[w], s, X, t) /\ Advance(w, t)
<1> DEFINE k == position[w]
           p == Program[k].project
           st == Program[k].step
           t == IF st.bricks /\ st.name \notin EmptyGroups
                THEN <<Entry("INFORMATION_SOURCE", p, st.name, w)>> ELSE <<>>
<1>1. k \in 1..23 /\ st.kind = "task"
  BY AtStep DEF create_task_and_labels_for
<1>2. Advance(w, t)
  BY DEF create_task_and_labels_for
<1>3. Gives(w, k, s, X, t)
  BY <1>1 DEF Gives, Appends
<1> QED
  BY <1>1, <1>2, <1>3

\* The attribute that an embedding takes: its own, or one of others.
LEMMA EmbeddingStep ==
  ASSUME ListsInv, Alone, ColumnsInv, NEW w \in Wizards, add_embedding(w)
  PROVE  \E t : /\ position[w] \in 1..23 /\ Gives(w, position[w], list[w], Others(w), t) /\ Advance(w, t)
                /\ Program[position[w]].step.kind = "embedding"
                /\ \/ \E c \in columns :
                        /\ c[1] = Program[position[w]].project /\ c[2] = Program[position[w]].step.name
                        /\ Entry("EMBEDDING", c[1], c[2], c[3]) \in Range(t)
                   \/ /\ late' = late \cup {Program[position[w]].project}
                      /\ \A c \in columns :
                           ~(c[1] = Program[position[w]].project /\ c[2] = Program[position[w]].step.name)
<1> DEFINE k == position[w]
           p == Program[k].project
           st == Program[k].step
           n == st.name
<1>1. k \in 1..23 /\ st.kind = "embedding"
  BY AtStep DEF add_embedding
<1>2. Works(w)
  <2>1. w \in gaveUp => k = 28
    BY DEF ListsInv
  <2> QED
    BY <1>1, <2>1 DEF Works
<1>3. CASE (\A c \in columns : ~(c[1] = p /\ c[2] = n)) /\ Advance(w, <<>>) /\ late' = late \cup {p}
  <2>1. Gives(w, k, list[w], Others(w), <<>>)
    BY <1>1 DEF Gives, Appends
  <2> QED
    BY <1>1, <1>3, <2>1
<1>4. ASSUME NEW c \in columns, c[1] = p, c[2] = n,
             Advance(w, <<Entry("EMBEDDING", p, n, c[3])>>
                        \o (IF st.outliers THEN <<Entry("CREATE_OUTLIER_SLICE", p, n, c[3])>> ELSE <<>>))
      PROVE  \E t : /\ Gives(w, k, list[w], Others(w), t) /\ Advance(w, t)
                    /\ Entry("EMBEDDING", c[1], c[2], c[3]) \in Range(t)
  <2> DEFINE by == c[3]
             e == Entry("EMBEDDING", p, n, by)
             o == Entry("CREATE_OUTLIER_SLICE", p, n, by)
             t == <<e>> \o (IF st.outliers THEN <<o>> ELSE <<>>)
  <2>1. by \in Others(w) \/ Entry("ATTRIBUTE_CALCULATION", p, n, by) \in Range(list[w])
    <3>1. CASE by = Given
      BY <3>1 DEF Others
    <3>2. CASE Listed(c)
      <4>1. /\ by \in Wizards /\ position[by] # 0
            /\ Entry("ATTRIBUTE_CALCULATION", p, n, by) \in Range(list[by])
        BY <1>4, <3>2 DEF Listed
      <4>2. CASE by = w
        BY <4>1, <4>2
      <4>3. CASE by # w
        <5>1. ~Works(by)
          BY <1>2, <4>1, <4>3 DEF Alone
        <5> QED
          BY <4>1, <4>3, <5>1 DEF Works, Others
      <4> QED
        BY <4>2, <4>3
    <3> QED
      BY <1>4, <3>1, <3>2 DEF ColumnsInv
  <2>2. t = <<e>> \/ t = <<e>> \o <<o>>
    <3>1. <<e>> \o <<>> = <<e>>
      BY One, NoneAppended
    <3> QED
      BY <3>1
  <2>3. e \in Range(t)
    <3>1. e \in Range(<<e>>)
      BY One
    <3>2. e \in Range(<<e>> \o <<o>>)
      <4>1. IsList(<<e>>) /\ IsList(<<o>>)
        BY One
      <4> QED
        BY <3>1, <4>1, Ranges
    <3> QED
      BY <2>2, <3>1, <3>2
  <2>4. Advance(w, t)
    BY <1>4
  <2> HIDE DEF t
  <2>5. Gives(w, k, list[w], Others(w), t)
    BY <1>1, <2>1, <2>2 DEF Gives, Appends
  <2>6. Entry("EMBEDDING", c[1], c[2], c[3]) = e
    BY <1>4
  <2> QED
    BY <2>3, <2>4, <2>5, <2>6
<1>5. \/ (\A c \in columns : ~(c[1] = p /\ c[2] = n)) /\ Advance(w, <<>>) /\ late' = late \cup {p}
      \/ \E c \in columns :
           /\ c[1] = p /\ c[2] = n
           /\ Advance(w, <<Entry("EMBEDDING", p, n, c[3])>>
                         \o (IF st.outliers THEN <<Entry("CREATE_OUTLIER_SLICE", p, n, c[3])>> ELSE <<>>))
  BY DEF add_embedding
<1> QED
  BY <1>1, <1>3, <1>4, <1>5

LEMMA SuperviseStep ==
  ASSUME NEW w, NEW s, NEW X, add_weakly_supervise_all_valid(w)
  PROVE  \E t : position[w] \in 1..23 /\ Gives(w, position[w], s, X, t) /\ Advance(w, t)
<1> DEFINE k == position[w]
           t == <<Entry("RUN_WEAK_SUPERVISION", Program[k].project, "", w)>>
<1>1. k \in 1..23 /\ Program[k].step.kind = "weak_supervision"
  BY AtStep DEF add_weakly_supervise_all_valid
<1>2. Advance(w, t)
  BY DEF add_weakly_supervise_all_valid
<1>3. Gives(w, k, s, X, t)
  BY <1>1 DEF Gives, Appends
<1> QED
  BY <1>1, <1>2, <1>3

LEMMA FinishStep ==
  ASSUME NEW w, NEW s, NEW X, add_finish(w)
  PROVE  \E t : position[w] \in 1..23 /\ Gives(w, position[w], s, X, t) /\ Advance(w, t)
<1> DEFINE k == position[w]
           t == <<Entry("FINISH_COGNITION_SETUP", "", "", w)>>
<1>1. k \in 1..23 /\ Program[k].step.kind = "finish"
  BY AtStep DEF add_finish
<1>2. Advance(w, t)
  BY DEF add_finish
<1>3. Gives(w, k, s, X, t)
  BY <1>1 DEF Gives, Appends
<1> QED
  BY <1>1, <1>2, <1>3

LEMMA PostStep ==
  ASSUME NEW w, NEW s, NEW X, post_to_refinery_project(w)
  PROVE  position[w] \in 1..23 /\ Gives(w, position[w], s, X, <<>>) /\ Advance(w, <<>>)
<1>1. position[w] \in 1..23 /\ Program[position[w]].step.kind = "post"
  BY AtStep DEF post_to_refinery_project
<1>2. Gives(w, position[w], s, X, <<>>)
  BY <1>1 DEF Gives, Appends
<1> QED
  BY <1>1, <1>2 DEF post_to_refinery_project

LEMMA StartStep ==
  ASSUME ListsInv, NEW w \in Wizards, prepare_and_finalize_setup(w)
  PROVE  position[w] = 0 /\ Advance(w, <<>>) /\ \A u \in Wizards : ~Works(u)
BY DEF prepare_and_finalize_setup, Works

LEMMA ListsSame ==
  ASSUME ListsInv, UNCHANGED <<position, list, gaveUp>>, DOMAIN seen' = DOMAIN seen
  PROVE  ListsInv' /\ Onward
<1>1. \A w : Others(w)' = Others(w)
  BY DEF Others
<1>2. ListsInv'
  BY <1>1 DEF ListsInv
<1>3. Onward
  BY DEF Onward
<1> QED
  BY <1>2, <1>3

LEMMA ListsKept ==
  ASSUME ListsInv, Alone, ColumnsInv, [WizardNext]_wizardVars
  PROVE  ListsInv' /\ Onward
<1>1. CASE UNCHANGED wizardVars
  BY <1>1, ListsSame DEF wizardVars, threadVars
<1>2. ASSUME NEW w \in Wizards, prepare_and_finalize_setup(w) PROVE ListsInv' /\ Onward
  BY <1>2, StartStep, Advances
<1>3. ASSUME NEW w \in Wizards, WizardStep(w) PROVE ListsInv' /\ Onward
  <2>1. CASE post_to_refinery_project(w)
    BY <2>1, PostStep, Advances
  <2>2. CASE create_attribute_with(w)
    BY <2>2, AttributeStep, Advances
  <2>3. CASE ReadTask(w)
    BY <2>3, ListsSame DEF ReadTask
  <2>4. CASE create_labeling_task(w)
    BY <2>4, ListsSame DEF create_labeling_task
  <2>5. CASE create_task_and_labels_for(w)
    BY <2>5, TaskStep, Advances
  <2>6. CASE add_embedding(w)
    BY <2>6, EmbeddingStep, Advances
  <2>7. CASE add_weakly_supervise_all_valid(w)
    BY <2>7, SuperviseStep, Advances
  <2>8. CASE add_finish(w)
    BY <2>8, FinishStep, Advances
  <2>9. CASE AskTokenization(w)
    BY <2>9, AskStep
  <2>10. CASE QueueList(w)
    <3>1. position[w] = 27 /\ Advance(w, <<>>)
      BY <2>10, Asks DEF QueueList
    <3> QED
      BY <3>1, Advances
  <2> QED
    BY <1>3, <2>1, <2>2, <2>3, <2>4, <2>5, <2>6, <2>7, <2>8, <2>9, <2>10 DEF WizardStep
<1>4. ASSUME NEW w \in Wizards, NotEnoughRecords(w) \/ WizardRaises(w) PROVE ListsInv' /\ Onward
  <2>1. GiveUp(w) /\ position[w] # 0
    BY <1>4, Asks DEF NotEnoughRecords, WizardRaises
  <2> QED
    BY <2>1, Leaves, QuitsOnward
<1>5. ASSUME NEW w \in Wizards, RunList(w) PROVE ListsInv' /\ Onward
  BY <1>5, ListsSame DEF RunList, threadVars
<1>6. ASSUME NEW p \in Projects, ImportRecords(p) \/ ImportRaises(p) \/ WizardTokenizationEnds(p)
      PROVE  ListsInv' /\ Onward
  BY <1>6, ListsSame DEF ImportRecords, ImportRaises, WizardTokenizationEnds, threadVars
<1>7. CASE DeleteCognitionProject
  BY <1>7, ListsSame DEF DeleteCognitionProject, threadVars
<1> QED
  BY <1>1, <1>2, <1>3, <1>4, <1>5, <1>6, <1>7 DEF WizardNext

LEMMA AloneKept ==
  ASSUME Alone, Onward
  PROVE  Alone'
<1> SUFFICES ASSUME NEW w \in Wizards, NEW v \in Wizards, w # v, Works(w)', Works(v)'
             PROVE  FALSE
  BY DEF Alone
<1>1. w \notin gaveUp /\ v \notin gaveUp /\ position'[w] # 0 /\ position'[v] # 0
  BY DEF Works, Onward
<1>2. position[w] = 0 \/ position[v] = 0
  BY <1>1 DEF Alone, Works
<1>3. ASSUME NEW a \in Wizards, NEW b \in Wizards \ {a}, position[a] = 0, position'[a] # 0,
             position'[b] # 0, b \notin gaveUp
      PROVE  FALSE
  <2>1. position'[b] = position[b] /\ ~Works(b)
    BY <1>3 DEF Onward
  <2> QED
    BY <1>3, <2>1 DEF Works
<1> QED
  BY <1>1, <1>2, <1>3

\* Attributes are made by a wizard, with an entry, or come with the records.
LEMMA NewColumns ==
  ASSUME ListsInv, [WizardNext]_wizardVars
  PROVE  columns \subseteq columns' /\ \A c \in columns' \ columns : c[3] = Given \/ Listed(c)'
<1>1. CASE columns' = columns
  BY <1>1
<1>2. ASSUME NEW w \in Wizards, create_attribute_with(w)
      PROVE  columns \subseteq columns' /\ \A c \in columns' \ columns : Listed(c)'
  <2>1. PICK p, n : p = Program[position[w]].project /\ n = Program[position[w]].step.name
    OBVIOUS
  <2> DEFINE e == Entry("ATTRIBUTE_CALCULATION", p, n, w)
  <2>2. position[w] \in 1..23 /\ Gives(w, position[w], list[w], Others(w), <<e>>) /\ Advance(w, <<e>>)
    BY <1>2, <2>1, AttributeStep
  <2>3. position'[w] = position[w] + 1 /\ list'[w] = list[w] \o <<e>>
    BY <2>2, Advances
  <2>4. e \in Range(list'[w])
    <3>1. IsList(list[w]) /\ IsList(<<e>>) /\ e \in Range(<<e>>)
      BY One DEF ListsInv
    <3> HIDE DEF e
    <3> QED
      BY <2>3, <3>1, Ranges
  <2>5. columns' = columns \cup {<<p, n, w>>}
    BY <1>2, <2>1 DEF create_attribute_with
  <2>6. position'[w] # 0
    <3>1. position[w] \in 1..23
      BY <2>2
    <3>2. \A i \in 1..23 : i + 1 # 0
      OBVIOUS
    <3> QED
      BY <2>3, <3>1, <3>2, Zenon
  <2>7. Listed(<<p, n, w>>)'
    BY <2>4, <2>6 DEF Listed
  <2> QED
    BY <2>5, <2>7
<1>3. ASSUME NEW p \in Projects, ImportRecords(p) \/ ImportRaises(p)
      PROVE  columns \subseteq columns' /\ \A c \in columns' \ columns : c[3] = Given
  <2>1. columns' = columns \/ columns' = columns \cup {<<p, "question", Given>>}
    BY <1>3 DEF ImportRecords, ImportRaises, Imported, wizardRows
  <2> QED
    BY <2>1
<1>4. ASSUME NEW w \in Wizards, WizardStep(w), ~create_attribute_with(w) PROVE columns' = columns
  BY <1>4 DEF WizardStep, post_to_refinery_project, ReadTask, create_labeling_task, create_task_and_labels_for,
              add_embedding, add_weakly_supervise_all_valid, add_finish, AskTokenization, QueueList, wizardRows
<1>5. ASSUME NEW w \in Wizards,
             prepare_and_finalize_setup(w) \/ NotEnoughRecords(w) \/ WizardRaises(w) \/ RunList(w)
      PROVE  columns' = columns
  BY <1>5 DEF prepare_and_finalize_setup, NotEnoughRecords, WizardRaises, RunList, wizardRows
<1>6. ASSUME NEW p \in Projects, WizardTokenizationEnds(p) PROVE columns' = columns
  BY <1>6 DEF WizardTokenizationEnds, wizardRows
<1>7. DeleteCognitionProject => columns' = columns
  BY DEF DeleteCognitionProject, wizardRows
<1>8. UNCHANGED wizardVars => columns' = columns
  BY DEF wizardVars, wizardRows
<1> QED
  BY <1>1, <1>2, <1>3, <1>4, <1>5, <1>6, <1>7, <1>8 DEF WizardNext

LEMMA ColumnsKept ==
  ASSUME ListsInv, ColumnsInv, Onward, [WizardNext]_wizardVars
  PROVE  ColumnsInv'
<1>1. ASSUME NEW c \in columns PROVE c[3] = Given \/ Listed(c)'
  BY <1>1 DEF ColumnsInv, Listed, Onward
<1> QED
  BY <1>1, NewColumns DEF ColumnsInv

LEMMA ListsInvs == Setup => [](ListsInv /\ Alone /\ ColumnsInv)
<1>1. ListsInv /\ Alone /\ ColumnsInv /\ [WizardNext]_wizardVars => (ListsInv /\ Alone /\ ColumnsInv)'
  BY ListsKept, AloneKept, ColumnsKept
<1> QED
  BY <1>1, ListsAtFirst, PTL DEF Setup

\* Whatever the wizards, their faults and the imports beside them do, an entry comes
\* after those whose result it uses (__finalize_setup_for gathers them in that order),
\* but for attributes that a wizard before it left behind (__add_embedding).
THEOREM InputsFirst == Setup => []EntriesFindTheirInputs
<1>1. ListsInv => EntriesFindTheirInputs
  <2> SUFFICES ASSUME ListsInv, NEW w \in Wizards, NEW i \in DOMAIN list[w]
               PROVE  \/ Inputs(list[w][i], Range(list[w])) \subseteq {list[w][j] : j \in 1..(i - 1)}
                      \/ list[w][i].type = "EMBEDDING" /\ list[w][i].by \in Others(w)
    BY DEF EntriesFindTheirInputs, Others
  <2>1. IsList(list[w]) /\ InOrder(list[w], Others(w))
    BY DEF ListsInv, Gathered
  <2>2. DOMAIN list[w] = 1..Len(list[w])
    BY <2>1, Members
  <2>3. Wants(list[w][i], Range(list[w]), Others(w)) \subseteq {list[w][j] : j \in 1..(i - 1)}
    BY <2>1, <2>2 DEF InOrder
  <2> QED
    BY <2>3 DEF Wants
<1> QED
  BY <1>1, ListsInvs, PTL

-----------------------------------------------------------------------------
\* The rows that the wizards made.
Added(b, S, after) ==
  /\ DOMAIN after = DOMAIN b \cup S
  /\ \A x \in DOMAIN after : after[x] = (IF x \in DOMAIN b THEN b[x] ELSE 0) + (IF x \in S THEN 1 ELSE 0)
LEMMA Add == ASSUME NEW b, NEW S PROVE Added(b, S, b (+) SetToBag(S))
BY DEF (+), SetToBag, Added

Triple(x) == \E a, b, c : x = <<a, b, c>>

LEMMA Third == ASSUME NEW a, NEW b, NEW c PROVE <<a, b>> \o <<c>> = <<a, b, c>>
<1> DEFINE s == <<a, b>>
           t == <<c>>
           st == s \o t
<1>1. Sized(s, 2) /\ s[1] = a /\ s[2] = b
  <2> SUFFICES ASSUME NEW x, x = <<a, b>> PROVE Sized(x, 2) /\ x[1] = a /\ x[2] = b
    OBVIOUS
  <2> QED
    BY DEF Sized
<1>2. Sized(t, 1) /\ t[1] = c
  BY Tuple1
<1> HIDE DEF s, t
<1>3. FollowedBy(st, s, 2, t, 1)
  BY <1>1, <1>2, Cat
<1> HIDE DEF st
<1>4. Sized(st, 3) /\ st[1] = a /\ st[2] = b /\ st[3] = c
  BY <1>1, <1>2, <1>3 DEF FollowedBy
<1>5. st = <<a, b, c>>
  BY <1>4 DEF Sized
<1> QED
  BY <1>5 DEF st, s, t

LEMMA Known ==
  ASSUME \A x \in DOMAIN labels : Triple(x), NEW p, NEW n, NEW l
  PROVE  l \in Current(p, n)[2] <=> <<p, n, l>> \in DOMAIN labels
<1> DEFINE S == {x[3] : x \in {y \in BagToSet(labels) : y[1] = p /\ y[2] = n}}
<1>1. Current(p, n)[2] = S
  BY DEF Current
<1>2. BagToSet(labels) = DOMAIN labels
  BY DEF BagToSet
<1>3. ASSUME l \in S PROVE <<p, n, l>> \in DOMAIN labels
  <2>1. PICK x \in DOMAIN labels : x[1] = p /\ x[2] = n /\ l = x[3]
    BY <1>2, <1>3
  <2>2. PICK a, b, c : x = <<a, b, c>>
    BY DEF Triple
  <2> QED
    BY <2>1, <2>2
<1>4. ASSUME <<p, n, l>> \in DOMAIN labels PROVE l \in S
  <2> DEFINE x == <<p, n, l>>
  <2>1. x[1] = p /\ x[2] = n /\ x[3] = l /\ x \in BagToSet(labels)
    BY <1>2, <1>4
  <2> HIDE DEF x
  <2> QED
    BY <2>1
<1> QED
  BY <1>1, <1>3, <1>4

\* What the k-th step of w was to bring.
Provided(w, k) ==
  \E p \in {Program[k].project}, s \in {Program[k].step} :
    /\ s.kind = "attribute" => <<p, s.name, w>> \in columns
    /\ s.kind = "embedding" =>
         \/ p \in late /\ \A i \in 1..23 : Program[i].project = p => Program[i].step # Attribute(s.name)
         \/ \E c \in columns : c[1] = p /\ c[2] = s.name /\ Entry("EMBEDDING", p, s.name, c[3]) \in Range(list[w])
    /\ s.kind = "task" => \A l \in s.labels : <<p, s.name, l>> \in DOMAIN labels
    /\ s.kind = "post" => p \in lost \/ posted[p] > 0 \/ docbins[p] # "none"
\* Nothing is on its way to p, unless it is known to be missing.
Quiet(p) == p \in late \cup lost \/ (posted[p] = 0 /\ docbins[p] # "queued")

PostsInv ==
  /\ posted \in [Projects -> Nat] /\ docbins \in [Projects -> {"none", "queued", "done"}]
  /\ docbins["REFERENCE"] # "none"
LabelsInv ==
  \A x \in DOMAIN labels :
    Triple(x) /\ (labels[x] = 1 \/ (raced /\ labels[x] \in Nat /\ labels[x] > 1))
SeenInv ==
  \A w \in Wizards \ gaveUp : position[w] \in 1..23 => \A found \in seen[w] : \A l \in found[2] :
    <<Program[position[w]].project, Program[position[w]].step.name, l>> \in DOMAIN labels
ProvidedInv == \A w \in Wizards \ gaveUp : \A k \in 1..23 : k < position[w] => Provided(w, k)
AskedInv == \A w \in Wizards \ gaveUp : \A i \in 1..3 : 23 + i < position[w] => Quiet(Asked[i])
RanInv == ran \subseteq Wizards \ gaveUp /\ \A w \in ran : position[w] = 28 /\ Range(list[w]) \subseteq done
RowsInv == PostsInv /\ LabelsInv /\ SeenInv /\ ProvidedInv /\ AskedInv /\ RanInv

LEMMA RowsAtFirst == WizardInit => RowsInv
<1> SUFFICES ASSUME WizardInit PROVE RowsInv
  OBVIOUS
<1>1. /\ position = [w \in Wizards |-> 0] /\ seen = [w \in Wizards |-> {}] /\ ran = {} /\ labels = EmptyBag
      /\ posted = [p \in Projects |-> 0]
  BY DEF WizardInit
<1>2. DOMAIN labels = {}
  BY <1>1 DEF EmptyBag, SetToBag
<1>3. PostsInv
  <2>1. \E t \in {"queued", "done"} : docbins = [p \in Projects |-> IF p = "REFERENCE" THEN t ELSE "none"]
    BY DEF WizardInit
  <2>2. "REFERENCE" \in Projects
    BY DEF Projects
  <2> QED
    BY <1>1, <2>1, <2>2 DEF PostsInv
<1>4. LabelsInv
  BY <1>2 DEF LabelsInv
<1>5. SeenInv
  BY <1>1 DEF SeenInv
<1>6. ProvidedInv
  BY <1>1 DEF ProvidedInv
<1>7. AskedInv
  BY <1>1 DEF AskedInv
<1>8. RanInv
  BY <1>1 DEF RanInv
<1> QED
  BY <1>3, <1>4, <1>5, <1>6, <1>7, <1>8 DEF RowsInv

\* Nothing that was made goes away, and what is quiet stays so unless somebody posts.
Grow ==
  /\ late \subseteq late' /\ lost \subseteq lost'
  /\ DOMAIN labels \subseteq DOMAIN labels'
  /\ \A p \in Projects : /\ docbins[p] # "none" => docbins'[p] # "none"
                         /\ posted[p] > 0 => p \in lost' \/ posted'[p] > 0 \/ docbins'[p] # "none"
                         /\ Quiet(p) => Quiet(p)' \/ \E u \in Wizards : Works(u) /\ position[u] <= 23

LEMMA ProvidedKept ==
  ASSUME Grow, columns \subseteq columns', NEW w \in Wizards, NEW k \in 1..23, Provided(w, k),
         Range(list[w]) \subseteq Range(list'[w])
  PROVE  Provided(w, k)'
<1>1. Program[k].project \in Projects
  BY StepOrder
<1> DEFINE p == Program[k].project
           s == Program[k].step
<1>2. s.kind = "attribute" => <<p, s.name, w>> \in columns'
  BY DEF Provided
<1>3. s.kind = "embedding" =>
        \/ p \in late' /\ \A i \in 1..23 : Program[i].project = p => Program[i].step # Attribute(s.name)
        \/ \E c \in columns' : c[1] = p /\ c[2] = s.name /\ Entry("EMBEDDING", p, s.name, c[3]) \in Range(list'[w])
  BY DEF Provided, Grow
<1>4. s.kind = "task" => \A l \in s.labels : <<p, s.name, l>> \in DOMAIN labels'
  BY DEF Provided, Grow
<1>5. s.kind = "post" => p \in lost' \/ posted'[p] > 0 \/ docbins'[p] # "none"
  BY <1>1 DEF Provided, Grow
<1> QED
  BY <1>2, <1>3, <1>4, <1>5 DEF Provided

LEMMA QuietKept ==
  ASSUME Alone, Grow, AskedInv, NEW w \in Wizards, w \notin gaveUp, position[w] \in 0..28,
         NEW i \in 1..3, 23 + i < position[w]
  PROVE  Quiet(Asked[i])'
<1>1. Asked[i] \in Projects
  <2>1. i = 1 \/ i = 2 \/ i = 3
    OBVIOUS
  <2> QED
    BY <2>1, Asks DEF Projects
<1>2. Quiet(Asked[i])
  BY DEF AskedInv
<1>3. ASSUME NEW u \in Wizards, Works(u), position[u] <= 23 PROVE FALSE
  <2>1. Works(w) /\ ~(position[w] <= 23)
    BY DEF Works
  <2> QED
    BY <1>3, <2>1 DEF Alone
<1> QED
  BY <1>1, <1>2, <1>3 DEF Grow

LEMMA TaskRows ==
  ASSUME LabelsInv, NEW w \in Wizards \ gaveUp, SeenInv, create_task_and_labels_for(w)
  PROVE  /\ LabelsInv' /\ DOMAIN labels \subseteq DOMAIN labels'
         /\ \A l \in Program[position[w]].step.labels :
              <<Program[position[w]].project, Program[position[w]].step.name, l>> \in DOMAIN labels'
<1> DEFINE p == Program[position[w]].project
           s == Program[position[w]].step
           n == s.name
<1>1. PICK found \in seen[w] :
        /\ raced' = (raced \/ found # Current(p, n))
        /\ labels' = labels (+) SetToBag({p} \X {n} \X missing_labels(s.labels, found[2]))
  BY DEF create_task_and_labels_for
<1> DEFINE S == {p} \X {n} \X missing_labels(s.labels, found[2])
<1>2. /\ DOMAIN labels' = DOMAIN labels \cup S
      /\ \A x \in DOMAIN labels' :
           labels'[x] = (IF x \in DOMAIN labels THEN labels[x] ELSE 0) + (IF x \in S THEN 1 ELSE 0)
  <2>1. Added(labels, S, labels')
    BY <1>1, Add
  <2> HIDE DEF S
  <2> QED
    BY <2>1 DEF Added
<1>3. raced' = (raced \/ found # Current(p, n))
  BY <1>1
<1>4. missing_labels(s.labels, found[2]) = s.labels \ found[2]
  BY DEF missing_labels
<1>5. \A l \in found[2] : <<p, n, l>> \in DOMAIN labels
  <2>1. position[w] \in 1..23
    BY AtStep DEF create_task_and_labels_for
  <2> QED
    BY <2>1 DEF SeenInv
<1>6. \A x \in DOMAIN labels : Triple(x)
  BY DEF LabelsInv
<1> HIDE DEF p, s, n
<1>7. ASSUME NEW l \in s.labels PROVE <<p, n, l>> \in DOMAIN labels'
  BY <1>2, <1>4, <1>5
<1>8. ASSUME NEW x \in S PROVE \E l \in missing_labels(s.labels, found[2]) : x = <<p, n, l>>
  OBVIOUS
<1>9. ASSUME ~raced' PROVE DOMAIN labels \cap S = {}
  <2>1. found = Current(p, n)
    BY <1>3, <1>9
  <2> SUFFICES ASSUME NEW x \in DOMAIN labels, x \in S PROVE FALSE
    OBVIOUS
  <2>2. PICK l \in missing_labels(s.labels, found[2]) : x = <<p, n, l>>
    BY <1>8
  <2>3. l \in Current(p, n)[2]
    BY <1>6, <2>2, Known
  <2> QED
    BY <1>4, <2>1, <2>2, <2>3
<1>10. ASSUME NEW x \in DOMAIN labels' PROVE Triple(x) /\ (labels'[x] = 1 \/ (raced' /\ labels'[x] \in Nat /\ labels'[x] > 1))
  <2>1. Triple(x)
    BY <1>2, <1>6, <1>8 DEF Triple
  <2>2. raced => raced'
    BY <1>3
  <2>3. x \in DOMAIN labels => labels[x] = 1 \/ (raced /\ labels[x] \in Nat /\ labels[x] > 1)
    BY DEF LabelsInv
  <2> HIDE DEF S
  <2>4. CASE x \in DOMAIN labels /\ x \in S
    <3>1. raced' /\ labels'[x] = labels[x] + 1
      BY <1>2, <1>9, <2>4
    <3> QED
      BY <2>1, <2>3, <2>4, <3>1
  <2>5. CASE x \in DOMAIN labels /\ x \notin S
    <3>1. labels'[x] = labels[x] + 0
      BY <1>2, <2>5
    <3> QED
      BY <2>1, <2>2, <2>3, <2>5, <3>1
  <2>6. CASE x \notin DOMAIN labels
    <3>1. labels'[x] = 0 + 1
      BY <1>2, <2>6
    <3> QED
      BY <2>1, <3>1
  <2> QED
    BY <2>4, <2>5, <2>6
<1>11. LabelsInv'
  BY <1>10 DEF LabelsInv
<1> QED
  BY <1>2, <1>7, <1>11 DEF p, s, n

LEMMA ImportRows ==
  ASSUME LabelsInv, NEW p, Imported(p), raced' = raced
  PROVE  LabelsInv' /\ DOMAIN labels \subseteq DOMAIN labels'
<1>1. raced' = raced
  OBVIOUS
<1>2. CASE labels' = labels
  BY <1>1, <1>2 DEF LabelsInv
<1>3. CASE labels' # labels
  <2> DEFINE n == "Fact is relevant"
             x == <<p, n, 1>>
  <2>1. 1 \notin Current(p, n)[2] /\ labels' = labels (+) SetToBag({<<p, n>> \o <<1>>})
    <3> DEFINE t == <<p, n>>
    <3>1. /\ labels' = (IF 1 \in Current(t[1], t[2])[2] THEN labels ELSE labels (+) SetToBag({t \o <<1>>}))
      BY <1>3 DEF Imported
    <3>2. t[1] = p /\ t[2] = n
      OBVIOUS
    <3> QED
      BY <1>3, <3>1, <3>2
  <2>2. labels' = labels (+) SetToBag({x})
    BY <2>1, Third
  <2>3. \A y \in DOMAIN labels : Triple(y)
    BY DEF LabelsInv
  <2>4. x \notin DOMAIN labels
    BY <2>1, <2>3, Known
  <2>5. Triple(x)
    BY DEF Triple
  <2> HIDE DEF x
  <2>6. /\ DOMAIN labels' = DOMAIN labels \cup {x}
        /\ \A y \in DOMAIN labels' :
             labels'[y] = (IF y \in DOMAIN labels THEN labels[y] ELSE 0) + (IF y \in {x} THEN 1 ELSE 0)
    <3>1. Added(labels, {x}, labels')
      BY <2>2, Add
    <3> QED
      BY <3>1 DEF Added
  <2>7. ASSUME NEW y \in DOMAIN labels' PROVE Triple(y) /\ (labels'[y] = 1 \/ (raced' /\ labels'[y] \in Nat /\ labels'[y] > 1))
    <3>1. CASE y = x
      <4>1. labels'[y] = 0 + 1
        BY <2>4, <2>6, <3>1
      <4> QED
        BY <2>5, <3>1, <4>1
    <3>2. CASE y # x
      <4>1. y \in DOMAIN labels /\ labels'[y] = labels[y] + 0
        BY <2>6, <3>2
      <4>2. Triple(y) /\ (labels[y] = 1 \/ (raced /\ labels[y] \in Nat /\ labels[y] > 1))
        BY <4>1 DEF LabelsInv
      <4> QED
        BY <1>1, <4>1, <4>2
    <3> QED
      BY <3>1, <3>2
  <2> QED
    BY <2>6, <2>7 DEF LabelsInv
<1> QED
  BY <1>2, <1>3

LEMMA SameRows ==
  ASSUME PostsInv, LabelsInv, UNCHANGED <<posted, docbins, labels>>, raced => raced',
         late \subseteq late', lost \subseteq lost'
  PROVE  Grow /\ PostsInv' /\ LabelsInv'
BY DEF PostsInv, LabelsInv, Grow, Quiet

LEMMA Growth ==
  ASSUME ListsInv, RowsInv, [WizardNext]_wizardVars
  PROVE  Grow /\ PostsInv' /\ LabelsInv'
<1>1. PostsInv /\ LabelsInv /\ SeenInv
  BY DEF RowsInv
<1>2. CASE UNCHANGED wizardVars
  BY <1>1, <1>2, SameRows DEF wizardVars, wizardRows, outsideVars, historyVars
<1>3. ASSUME NEW w \in Wizards, prepare_and_finalize_setup(w) PROVE Grow /\ PostsInv' /\ LabelsInv'
  BY <1>1, <1>3, SameRows DEF prepare_and_finalize_setup, wizardRows, outsideVars, historyVars
<1>4. ASSUME NEW w \in Wizards, WizardStep(w) PROVE Grow /\ PostsInv' /\ LabelsInv'
  <2>1. CASE post_to_refinery_project(w)
    <3> DEFINE q == Program[position[w]].project
    <3>1. q \in Projects /\ position[w] \in 1..23
      BY <2>1, PostStep, StepOrder
    <3>2. Works(w) /\ position[w] <= 23
      <4>1. w \notin gaveUp
        BY <3>1 DEF ListsInv
      <4> QED
        BY <3>1, <4>1 DEF Works
    <3>3. UNCHANGED <<docbins, labels, raced, late>>
      BY <2>1 DEF post_to_refinery_project, wizardRows
    <3>4. \/ posted' = [posted EXCEPT ![q] = @ + 1] /\ lost' = lost
          \/ posted' = posted /\ lost' = lost \cup {q}
      BY <2>1 DEF post_to_refinery_project
    <3> HIDE DEF q
    <3>5. PostsInv'
      BY <1>1, <3>1, <3>3, <3>4 DEF PostsInv
    <3>6. LabelsInv'
      BY <1>1, <3>3 DEF LabelsInv
    <3>7. \A p \in Projects : posted[p] > 0 => posted'[p] > 0
      BY <1>1, <3>1, <3>4 DEF PostsInv
    <3> QED
      BY <3>2, <3>3, <3>4, <3>5, <3>6, <3>7 DEF Grow
  <2>2. CASE create_attribute_with(w)
    BY <1>1, <2>2, SameRows DEF create_attribute_with, outsideVars, historyVars
  <2>3. CASE ReadTask(w)
    BY <1>1, <2>3, SameRows DEF ReadTask, outsideVars, wizardRows, historyVars
  <2>4. CASE create_labeling_task(w)
    <3>1. (raced => raced') /\ UNCHANGED <<posted, docbins, labels, late, lost>>
      BY <2>4 DEF create_labeling_task, outsideVars
    <3> QED
      BY <1>1, <3>1, SameRows
  <2>5. CASE create_task_and_labels_for(w)
    <3>1. w \notin gaveUp
      BY <2>5, AtStep, SMTT(30) DEF ListsInv, create_task_and_labels_for
    <3>2. LabelsInv' /\ DOMAIN labels \subseteq DOMAIN labels'
      BY <1>1, <2>5, <3>1, TaskRows
    <3>3. UNCHANGED <<posted, docbins, late, lost>>
      BY <2>5 DEF create_task_and_labels_for, outsideVars
    <3> QED
      BY <1>1, <3>2, <3>3 DEF PostsInv, Grow, Quiet
  <2>6. CASE add_embedding(w)
    <3>1. late \subseteq late'
      BY <2>6 DEF add_embedding
    <3> QED
      BY <1>1, <2>6, <3>1, SameRows DEF add_embedding, outsideVars, wizardRows
  <2>7. CASE add_weakly_supervise_all_valid(w)
    BY <1>1, <2>7, SameRows DEF add_weakly_supervise_all_valid, outsideVars, wizardRows, historyVars
  <2>8. CASE add_finish(w)
    BY <1>1, <2>8, SameRows DEF add_finish, outsideVars, wizardRows, historyVars
  <2>9. CASE AskTokenization(w)
    <3>1. late \subseteq late'
      BY <2>9 DEF AskTokenization
    <3> QED
      BY <1>1, <2>9, <3>1, SameRows DEF AskTokenization, outsideVars, wizardRows
  <2>10. CASE QueueList(w)
    BY <1>1, <2>10, SameRows DEF QueueList, outsideVars, wizardRows, historyVars
  <2> QED
    BY <1>4, <2>1, <2>2, <2>3, <2>4, <2>5, <2>6, <2>7, <2>8, <2>9, <2>10 DEF WizardStep
<1>5. ASSUME NEW w \in Wizards, NotEnoughRecords(w) PROVE Grow /\ PostsInv' /\ LabelsInv'
  BY <1>1, <1>5, SameRows DEF NotEnoughRecords, outsideVars, wizardRows, historyVars
<1>6. ASSUME NEW w \in Wizards, WizardRaises(w) PROVE Grow /\ PostsInv' /\ LabelsInv'
  BY <1>1, <1>6, SameRows DEF WizardRaises, outsideVars, wizardRows, historyVars
<1>7. ASSUME NEW w \in Wizards, RunList(w) PROVE Grow /\ PostsInv' /\ LabelsInv'
  BY <1>1, <1>7, SameRows DEF RunList, wizardRows, historyVars
<1>8. ASSUME NEW p \in Projects, ImportRecords(p) PROVE Grow /\ PostsInv' /\ LabelsInv'
  <2>1. LabelsInv' /\ DOMAIN labels \subseteq DOMAIN labels'
    BY <1>1, <1>8, ImportRows DEF ImportRecords, historyVars
  <2>2. /\ posted[p] > 0 /\ posted' = [posted EXCEPT ![p] = @ - 1]
        /\ docbins' = [docbins EXCEPT ![p] = "queued"] /\ late' = late /\ lost' = lost
    BY <1>8 DEF ImportRecords, Imported, historyVars
  <2>3. PostsInv'
    BY <1>1, <2>2 DEF PostsInv
  <2>4. ASSUME NEW q \in Projects
        PROVE  /\ docbins[q] # "none" => docbins'[q] # "none"
               /\ posted[q] > 0 => posted'[q] > 0 \/ docbins'[q] # "none"
               /\ Quiet(q) => Quiet(q)'
    BY <1>1, <2>2 DEF PostsInv, Quiet
  <2> QED
    BY <2>1, <2>2, <2>3, <2>4 DEF Grow
<1>9. ASSUME NEW p \in Projects, ImportRaises(p) PROVE Grow /\ PostsInv' /\ LabelsInv'
  <2>1. LabelsInv' /\ DOMAIN labels \subseteq DOMAIN labels'
    <3>1. CASE Imported(p)
      BY <1>1, <1>9, <3>1, ImportRows DEF ImportRaises
    <3>2. CASE UNCHANGED wizardRows
      BY <1>1, <1>9, <3>2 DEF ImportRaises, wizardRows, LabelsInv
    <3> QED
      BY <1>9, <3>1, <3>2 DEF ImportRaises
  <2>2. /\ posted[p] > 0 /\ posted' = [posted EXCEPT ![p] = @ - 1]
        /\ docbins' = docbins /\ late' = late /\ lost' = lost \cup {p}
    BY <1>9 DEF ImportRaises, Imported
  <2>3. PostsInv'
    BY <1>1, <2>2 DEF PostsInv
  <2>4. ASSUME NEW q \in Projects
        PROVE  /\ docbins[q] # "none" => docbins'[q] # "none"
               /\ posted[q] > 0 => q \in lost' \/ posted'[q] > 0
               /\ Quiet(q) => Quiet(q)'
    BY <1>1, <2>2 DEF PostsInv, Quiet
  <2> QED
    BY <2>1, <2>2, <2>3, <2>4 DEF Grow
<1>10. ASSUME NEW p \in Projects, WizardTokenizationEnds(p) PROVE Grow /\ PostsInv' /\ LabelsInv'
  <2>1. docbins' = [docbins EXCEPT ![p] = "done"] /\ UNCHANGED <<posted, labels, raced, late, lost>>
    BY <1>10 DEF WizardTokenizationEnds, wizardRows, historyVars
  <2> QED
    BY <1>1, <2>1 DEF PostsInv, LabelsInv, Grow, Quiet
<1>11. CASE DeleteCognitionProject
  BY <1>1, <1>11, SameRows DEF DeleteCognitionProject, outsideVars, wizardRows, historyVars
<1> QED
  BY <1>2, <1>3, <1>4, <1>5, <1>6, <1>7, <1>8, <1>9, <1>10, <1>11 DEF WizardNext

\* How a step moves the wizards.
Rests(v) == position'[v] = position[v] /\ list'[v] = list[v] /\ seen'[v] = seen[v] /\ (v \in gaveUp' <=> v \in gaveUp)
Looks(v) ==
  /\ position'[v] = position[v] /\ list'[v] = list[v] /\ v \notin gaveUp' /\ v \notin gaveUp
  /\ \A found \in seen'[v] : \A l \in found[2] :
       <<Program[position[v]].project, Program[position[v]].step.name, l>> \in DOMAIN labels
Quits(v) == v \in gaveUp' /\ position[v] \in 1..27
Polls(v) ==
  /\ v \notin gaveUp /\ v \notin gaveUp' /\ position[v] \in 24..26 /\ list'[v] = list[v]
  /\ \/ position'[v] = 24
     \/ position'[v] = position[v] + 1 /\ \A i \in 1..3 : i = position[v] - 23 => Quiet(Asked[i])'
Goes(v) ==
  /\ v \notin gaveUp /\ v \notin gaveUp' /\ position[v] \in 0..23 \cup {27}
  /\ position'[v] = position[v] + 1 /\ seen'[v] = {} /\ Range(list[v]) \subseteq Range(list'[v])
  /\ \A k \in 1..23 : k = position[v] => Provided(v, k)'
Moves == \A v \in Wizards : Rests(v) \/ Looks(v) \/ Quits(v) \/ Polls(v) \/ Goes(v)

LEMMA GoesOn ==
  ASSUME ListsInv, NEW w \in Wizards, NEW t, Advance(w, t),
         \/ position[w] = 0 /\ t = <<>> /\ \A u \in Wizards : ~Works(u)
         \/ position[w] = 27 /\ t = <<>>
         \/ position[w] \in 1..23 /\ Gives(w, position[w], list[w], Others(w), t),
         \A k \in 1..23 : k = position[w] => Provided(w, k)'
  PROVE  Moves
<1>1. /\ w \notin gaveUp /\ IsList(t)
      /\ position'[w] = position[w] + 1 /\ list'[w] = list[w] \o t /\ seen'[w] = {} /\ gaveUp' = gaveUp
      /\ \A v \in Wizards \ {w} : position'[v] = position[v] /\ list'[v] = list[v] /\ seen'[v] = seen[v]
  BY Advances
<1>2. Range(list[w]) \subseteq Range(list'[w])
  <2>1. IsList(list[w])
    BY DEF ListsInv
  <2> QED
    BY <1>1, <2>1, Ranges
<1>3. position[w] \in 0..23 \cup {27}
  OBVIOUS
<1>4. Goes(w)
  BY <1>1, <1>2, <1>3, Zenon DEF Goes
<1>5. \A v \in Wizards \ {w} : Rests(v)
  BY <1>1 DEF Rests
<1> QED
  BY <1>4, <1>5 DEF Moves

\* A step that brings nothing of its own.
LEMMA OtherKinds ==
  ASSUME NEW w, NEW k \in 1..23, Program[k].step.kind \notin {"attribute", "embedding", "task", "post"}
  PROVE  Provided(w, k)'
BY DEF Provided

LEMMA PostProvides ==
  ASSUME ListsInv, PostsInv, NEW w \in Wizards, post_to_refinery_project(w)
  PROVE  \A k \in 1..23 : k = position[w] => Provided(w, k)'
<1> SUFFICES ASSUME NEW k \in 1..23, k = position[w] PROVE Provided(w, k)'
  OBVIOUS
<1> DEFINE q == Program[k].project
<1>1. q \in Projects /\ Program[k].step.kind = "post"
  <2>1. Program[k].step.kind = "post"
    BY AtStep DEF post_to_refinery_project
  <2>2. Program[k].project \in Projects
    BY StepOrder
  <2> QED
    BY <2>1, <2>2
<1>2. \/ posted' = [posted EXCEPT ![q] = @ + 1]
      \/ lost' = lost \cup {q}
  BY DEF post_to_refinery_project
<1>3. posted'[q] > 0 \/ q \in lost'
  <2> HIDE DEF q
  <2> QED
    BY <1>1, <1>2 DEF PostsInv
<1> QED
  BY <1>1, <1>3 DEF Provided

LEMMA AttributeProvides ==
  ASSUME NEW w \in Wizards, create_attribute_with(w)
  PROVE  \A k \in 1..23 : k = position[w] => Provided(w, k)'
<1> SUFFICES ASSUME NEW k \in 1..23, k = position[w] PROVE Provided(w, k)'
  OBVIOUS
<1>1. Program[k].step.kind = "attribute"
  BY AtStep DEF create_attribute_with
<1>2. <<Program[k].project, Program[k].step.name, w>> \in columns'
  BY DEF create_attribute_with
<1> QED
  BY <1>1, <1>2 DEF Provided

\* Without an attribute of its name, no step before it was to make one.
LEMMA EmbeddingProvides ==
  ASSUME ListsInv, Alone, ColumnsInv, RowsInv, columns \subseteq columns', NEW w \in Wizards, add_embedding(w)
  PROVE  \A k \in 1..23 : k = position[w] => Provided(w, k)'
<1> SUFFICES ASSUME NEW k \in 1..23, k = position[w] PROVE Provided(w, k)'
  OBVIOUS
<1> DEFINE p == Program[k].project
           n == Program[k].step.name
<1>1. PICK t : /\ Gives(w, position[w], list[w], Others(w), t) /\ Advance(w, t)
               /\ Program[k].step.kind = "embedding"
               /\ \/ \E c \in columns : c[1] = p /\ c[2] = n /\ Entry("EMBEDDING", c[1], c[2], c[3]) \in Range(t)
                  \/ late' = late \cup {p} /\ \A c \in columns : ~(c[1] = p /\ c[2] = n)
  BY EmbeddingStep
<1>2. w \notin gaveUp /\ IsList(t) /\ IsList(list[w]) /\ list'[w] = list[w] \o t
  <2>1. position[w] \in 1..23
    OBVIOUS
  <2> QED
    BY <1>1, <2>1, Advances DEF ListsInv
<1>3. Range(t) \subseteq Range(list'[w])
  BY <1>2, Ranges
<1>4. CASE \E c \in columns : c[1] = p /\ c[2] = n /\ Entry("EMBEDDING", c[1], c[2], c[3]) \in Range(t)
  <2>1. PICK c \in columns : c[1] = p /\ c[2] = n /\ Entry("EMBEDDING", c[1], c[2], c[3]) \in Range(t)
    BY <1>4
  <2>2. c \in columns' /\ Entry("EMBEDDING", p, n, c[3]) \in Range(list'[w])
    BY <1>3, <2>1
  <2> QED
    BY <1>1, <2>1, <2>2 DEF Provided
<1>5. CASE late' = late \cup {p} /\ \A c \in columns : ~(c[1] = p /\ c[2] = n)
  <2>1. ASSUME NEW i \in 1..23, Program[i].project = p, Program[i].step = Attribute(n) PROVE FALSE
    <3>1. Program[i].step.kind = "attribute" /\ Program[i].step.name = n
      BY <2>1 DEF Attribute
    <3>2. i < k
      BY <1>1, <2>1, <3>1, StepOrder
    <3>3. Provided(w, i)
      BY <1>2, <3>2 DEF RowsInv, ProvidedInv
    <3>4. <<p, n, w>> \in columns
      BY <2>1, <3>1, <3>3 DEF Provided
    <3>5. <<p, n, w>>[1] = p /\ <<p, n, w>>[2] = n
      OBVIOUS
    <3> HIDE DEF p, n
    <3> QED
      BY <1>5, <3>4, <3>5
  <2> QED
    BY <1>1, <1>5, <2>1 DEF Provided
<1> QED
  BY <1>1, <1>4, <1>5

LEMMA TaskProvides ==
  ASSUME ListsInv, RowsInv, NEW w \in Wizards, create_task_and_labels_for(w)
  PROVE  \A k \in 1..23 : k = position[w] => Provided(w, k)'
<1> SUFFICES ASSUME NEW k \in 1..23, k = position[w] PROVE Provided(w, k)'
  OBVIOUS
<1>1. Program[k].step.kind = "task"
  BY AtStep DEF create_task_and_labels_for
<1>2. w \notin gaveUp
  BY DEF ListsInv
<1>3. \A l \in Program[k].step.labels : <<Program[k].project, Program[k].step.name, l>> \in DOMAIN labels'
  BY <1>2, TaskRows DEF RowsInv
<1> QED
  BY <1>1, <1>3 DEF Provided

\* What a wizard that read a task knows is there.
LEMMA LooksOnly ==
  ASSUME ListsInv, RowsInv, NEW w \in Wizards, ReadTask(w) \/ create_labeling_task(w)
  PROVE  Moves
<1>1. /\ At(w, "task") /\ UNCHANGED <<position, list, gaveUp, labels>>
  BY DEF ReadTask, create_labeling_task, wizardRows
<1>2. position[w] \in 1..23 /\ w \notin gaveUp /\ DOMAIN seen = Wizards
  BY <1>1, AtStep DEF ListsInv
<1> DEFINE p == Program[position[w]].project
           n == Program[position[w]].step.name
<1>3. \/ seen' = [seen EXCEPT ![w] = {Current(p, n)}]
      \/ \E found \in seen[w] : seen' = [seen EXCEPT ![w] = {<<TRUE, found[2]>>}]
  BY DEF ReadTask, create_labeling_task
<1>4. ASSUME NEW found \in seen'[w], NEW l \in found[2] PROVE <<p, n, l>> \in DOMAIN labels
  <2>1. CASE seen' = [seen EXCEPT ![w] = {Current(p, n)}]
    <3>1. found = Current(p, n)
      BY <1>2, <2>1
    <3>2. \A x \in DOMAIN labels : Triple(x)
      BY DEF RowsInv, LabelsInv
    <3> QED
      BY <3>1, <3>2, Known
  <2>2. ASSUME NEW old \in seen[w], seen' = [seen EXCEPT ![w] = {<<TRUE, old[2]>>}]
        PROVE  <<p, n, l>> \in DOMAIN labels
    <3>1. found = <<TRUE, old[2]>>
      BY <1>2, <2>2
    <3>2. l \in old[2]
      BY <3>1
    <3> QED
      BY <1>2, <3>2 DEF RowsInv, SeenInv
  <2> QED
    BY <1>3, <2>1, <2>2
<1>5. Looks(w)
  BY <1>1, <1>2, <1>4 DEF Looks
<1>6. \A v \in Wizards \ {w} : Rests(v)
  BY <1>1, <1>2, <1>3 DEF Rests
<1> QED
  BY <1>5, <1>6 DEF Moves

LEMMA PollsOnly ==
  ASSUME ListsInv, PostsInv, NEW w \in Wizards, AskTokenization(w)
  PROVE  Moves
<1>1. /\ w \notin gaveUp /\ list' = list /\ seen' = seen /\ gaveUp' = gaveUp
      /\ position[w] \in 24..26 /\ \A v \in Wizards \ {w} : position'[v] = position[v]
      /\ position'[w] \in {24, position[w] + 1}
  BY AskStep
<1>2. ASSUME position'[w] # 24, NEW i \in 1..3, i = position[w] - 23 PROVE Quiet(Asked[i])'
  <2> DEFINE p == Asked[i]
  <2>1. p \in Projects
    <3>1. i = 1 \/ i = 2 \/ i = 3
      OBVIOUS
    <3> QED
      BY <3>1, Asks DEF Projects
  <2>2. position[w] - Waiting + 1 = i
    BY <1>1, <1>2, Asks
  <2>3. /\ UNCHANGED <<posted, docbins, lost>> /\ docbins[p] # "queued"
        /\ late' = IF posted[p] > 0 THEN late \cup {p} ELSE late
    <3>1. /\ UNCHANGED <<posted, docbins, lost>>
          /\ \/ docbins[p] = "queued" /\ position' = [position EXCEPT ![w] = Waiting]
             \/ docbins[p] # "queued" /\ late' = IF posted[p] > 0 THEN late \cup {p} ELSE late
      BY <2>2 DEF AskTokenization, outsideVars, is_doc_bin_creation_running_or_queued
    <3>2. position' = [position EXCEPT ![w] = Waiting] => position'[w] = 24
      BY Asks DEF ListsInv
    <3> QED
      BY <1>2, <3>1, <3>2
  <2> HIDE DEF p
  <2>4. Quiet(p)'
    BY <2>1, <2>3 DEF PostsInv, Quiet
  <2> QED
    BY <2>4 DEF p
<1>3. Polls(w)
  <2>1. position'[w] # 24 => position'[w] = position[w] + 1 /\ \A i \in 1..3 : i = position[w] - 23 => Quiet(Asked[i])'
    BY <1>1, <1>2
  <2> QED
    BY <1>1, <2>1 DEF Polls
<1>4. \A v \in Wizards \ {w} : Rests(v)
  BY <1>1 DEF Rests
<1> QED
  BY <1>3, <1>4 DEF Moves

LEMMA MovesOnly ==
  ASSUME ListsInv, Alone, ColumnsInv, RowsInv, [WizardNext]_wizardVars
  PROVE  Moves
<1>1. PostsInv /\ columns \subseteq columns'
  BY NewColumns DEF RowsInv
<1>2. ASSUME UNCHANGED <<position, list, seen, gaveUp>> PROVE Moves
  BY <1>2 DEF Moves, Rests
<1>3. CASE UNCHANGED wizardVars
  BY <1>2, <1>3 DEF wizardVars, threadVars
<1>4. ASSUME NEW w \in Wizards, prepare_and_finalize_setup(w) PROVE Moves
  <2>1. position[w] = 0 /\ Advance(w, <<>>) /\ \A u \in Wizards : ~Works(u)
    BY <1>4, StartStep
  <2>2. \A k \in 1..23 : k # position[w]
    BY <2>1
  <2> QED
    BY <2>1, <2>2, GoesOn
<1>5. ASSUME NEW w \in Wizards, WizardStep(w) PROVE Moves
  <2>1. CASE post_to_refinery_project(w)
    <3>1. position[w] \in 1..23 /\ Gives(w, position[w], list[w], Others(w), <<>>) /\ Advance(w, <<>>)
      BY <2>1, PostStep
    <3>2. \A k \in 1..23 : k = position[w] => Provided(w, k)'
      BY <1>1, <2>1, PostProvides
    <3> QED
      BY <3>1, <3>2, GoesOn
  <2>2. CASE create_attribute_with(w)
    <3>1. PICK t : position[w] \in 1..23 /\ Gives(w, position[w], list[w], Others(w), t) /\ Advance(w, t)
      BY <2>2, AttributeStep
    <3>2. \A k \in 1..23 : k = position[w] => Provided(w, k)'
      BY <2>2, AttributeProvides
    <3> QED
      BY <3>1, <3>2, GoesOn
  <2>3. CASE ReadTask(w) \/ create_labeling_task(w)
    BY <2>3, LooksOnly
  <2>4. CASE create_task_and_labels_for(w)
    <3>1. PICK t : position[w] \in 1..23 /\ Gives(w, position[w], list[w], Others(w), t) /\ Advance(w, t)
      BY <2>4, TaskStep
    <3>2. \A k \in 1..23 : k = position[w] => Provided(w, k)'
      BY <2>4, TaskProvides
    <3> QED
      BY <3>1, <3>2, GoesOn
  <2>5. CASE add_embedding(w)
    <3>1. PICK t : position[w] \in 1..23 /\ Gives(w, position[w], list[w], Others(w), t) /\ Advance(w, t)
      BY <2>5, EmbeddingStep
    <3>2. \A k \in 1..23 : k = position[w] => Provided(w, k)'
      BY <1>1, <2>5, EmbeddingProvides
    <3> QED
      BY <3>1, <3>2, GoesOn
  <2>6. CASE add_weakly_supervise_all_valid(w)
    <3>1. PICK t : position[w] \in 1..23 /\ Gives(w, position[w], list[w], Others(w), t) /\ Advance(w, t)
      BY <2>6, SuperviseStep
    <3>2. Program[position[w]].step.kind = "weak_supervision"
      BY <2>6, AtStep DEF add_weakly_supervise_all_valid
    <3>3. \A k \in 1..23 : k = position[w] => Provided(w, k)'
      BY <3>2, OtherKinds
    <3> QED
      BY <3>1, <3>3, GoesOn
  <2>7. CASE add_finish(w)
    <3>1. PICK t : position[w] \in 1..23 /\ Gives(w, position[w], list[w], Others(w), t) /\ Advance(w, t)
      BY <2>7, FinishStep
    <3>2. Program[position[w]].step.kind = "finish"
      BY <2>7, AtStep DEF add_finish
    <3>3. \A k \in 1..23 : k = position[w] => Provided(w, k)'
      BY <3>2, OtherKinds
    <3> QED
      BY <3>1, <3>3, GoesOn
  <2>8. CASE AskTokenization(w)
    BY <1>1, <2>8, PollsOnly
  <2>9. CASE QueueList(w)
    <3>1. position[w] = 27 /\ Advance(w, <<>>)
      BY <2>9, Asks DEF QueueList
    <3>2. \A k \in 1..23 : k # position[w]
      BY <3>1
    <3> QED
      BY <3>1, <3>2, GoesOn
  <2> QED
    BY <1>5, <2>1, <2>2, <2>3, <2>4, <2>5, <2>6, <2>7, <2>8, <2>9 DEF WizardStep
<1>6. ASSUME NEW w \in Wizards, NotEnoughRecords(w) \/ WizardRaises(w) PROVE Moves
  <2>1. GiveUp(w) /\ position[w] \in 1..27
    BY <1>6, Asks DEF NotEnoughRecords, WizardRaises
  <2>2. /\ list' = list /\ seen' = seen /\ gaveUp' = gaveUp \cup {w}
        /\ \A v \in Wizards \ {w} : position'[v] = position[v]
    BY <2>1, Leaves
  <2>3. Quits(w)
    BY <2>1, <2>2 DEF Quits
  <2>4. \A v \in Wizards \ {w} : Rests(v)
    BY <2>2 DEF Rests
  <2> QED
    BY <2>3, <2>4 DEF Moves
<1>7. ASSUME NEW w \in Wizards, RunList(w) PROVE Moves
  BY <1>2, <1>7 DEF RunList, threadVars
<1>8. ASSUME NEW p \in Projects, ImportRecords(p) \/ ImportRaises(p) \/ WizardTokenizationEnds(p) PROVE Moves
  BY <1>2, <1>8 DEF ImportRecords, ImportRaises, WizardTokenizationEnds, threadVars
<1>9. CASE DeleteCognitionProject
  BY <1>2, <1>9 DEF DeleteCognitionProject, threadVars
<1> QED
  BY <1>3, <1>4, <1>5, <1>6, <1>7, <1>8, <1>9 DEF WizardNext

\* What the task master does with the lists.
LEMMA RunsOnly ==
  ASSUME [WizardNext]_wizardVars
  PROVE  \/ ran' = ran /\ done' = done
         \/ \E w \in Wizards : /\ position[w] = 28 /\ w \notin gaveUp /\ position' = position
                               /\ list' = list /\ gaveUp' = gaveUp
                               /\ ran' = ran \cup {w} /\ done' = done \cup Range(list[w])
<1>1. ASSUME NEW w \in Wizards, RunList(w)
      PROVE  /\ position[w] = 28 /\ w \notin gaveUp /\ position' = position /\ list' = list /\ gaveUp' = gaveUp
             /\ ran' = ran \cup {w} /\ done' = done \cup Range(list[w])
  BY <1>1, Asks DEF RunList, threadVars
<1>2. CASE UNCHANGED wizardVars
  BY <1>2 DEF wizardVars, outsideVars
<1>3. ASSUME NEW w \in Wizards, prepare_and_finalize_setup(w) \/ NotEnoughRecords(w) \/ WizardRaises(w)
      PROVE  ran' = ran /\ done' = done
  BY <1>3 DEF prepare_and_finalize_setup, NotEnoughRecords, WizardRaises, outsideVars
<1>4. ASSUME NEW w \in Wizards, WizardStep(w) PROVE ran' = ran /\ done' = done
  BY <1>4 DEF WizardStep, post_to_refinery_project, create_attribute_with, ReadTask, create_labeling_task,
              create_task_and_labels_for, add_embedding, add_weakly_supervise_all_valid, add_finish,
              AskTokenization, QueueList, outsideVars
<1>5. ASSUME NEW p \in Projects, ImportRecords(p) \/ ImportRaises(p) \/ WizardTokenizationEnds(p)
      PROVE  ran' = ran /\ done' = done
  BY <1>5 DEF ImportRecords, ImportRaises, WizardTokenizationEnds
<1>6. CASE DeleteCognitionProject
  BY <1>6 DEF DeleteCognitionProject, outsideVars
<1> QED
  BY <1>1, <1>2, <1>3, <1>4, <1>5, <1>6 DEF WizardNext

LEMMA RowsKept ==
  ASSUME ListsInv, Alone, ColumnsInv, RowsInv, [WizardNext]_wizardVars
  PROVE  RowsInv'
<1>1. Grow /\ PostsInv' /\ LabelsInv' /\ columns \subseteq columns'
  BY Growth, NewColumns
<1>2. Moves
  BY MovesOnly
<1>3. SeenInv /\ ProvidedInv /\ AskedInv /\ RanInv
  BY DEF RowsInv
<1>4. SeenInv'
  <2> SUFFICES ASSUME NEW w \in Wizards, w \notin gaveUp', position'[w] \in 1..23,
                      NEW found \in seen'[w], NEW l \in found[2]
               PROVE  <<Program[position'[w]].project, Program[position'[w]].step.name, l>> \in DOMAIN labels'
    BY DEF SeenInv
  <2>1. DOMAIN labels \subseteq DOMAIN labels'
    BY <1>1 DEF Grow
  <2>2. CASE Rests(w)
    <3>1. w \notin gaveUp /\ position'[w] = position[w] /\ found \in seen[w]
      BY <2>2 DEF Rests
    <3>2. <<Program[position[w]].project, Program[position[w]].step.name, l>> \in DOMAIN labels
      BY <1>3, <3>1 DEF SeenInv
    <3> QED
      BY <2>1, <3>1, <3>2
  <2>3. CASE Looks(w)
    BY <2>1, <2>3 DEF Looks
  <2>4. CASE Quits(w)
    BY <2>4 DEF Quits
  <2>5. CASE Polls(w)
    BY <2>5 DEF Polls
  <2>6. CASE Goes(w)
    BY <2>6 DEF Goes
  <2> QED
    BY <1>2, <2>2, <2>3, <2>4, <2>5, <2>6 DEF Moves
<1>5. ProvidedInv'
  <2> SUFFICES ASSUME NEW w \in Wizards, w \notin gaveUp', NEW k \in 1..23, k < position'[w]
               PROVE  Provided(w, k)'
    BY DEF ProvidedInv
  <2>1. position[w] \in 0..28
    BY DEF ListsInv
  <2>2. CASE Rests(w) \/ Looks(w)
    <3>1. w \notin gaveUp /\ position'[w] = position[w] /\ list'[w] = list[w]
      BY <2>2 DEF Rests, Looks
    <3>2. Provided(w, k)
      BY <1>3, <3>1 DEF ProvidedInv
    <3> QED
      BY <1>1, <3>1, <3>2, ProvidedKept
  <2>3. CASE Quits(w)
    BY <2>3 DEF Quits
  <2>4. CASE Polls(w)
    <3>1. w \notin gaveUp /\ k < position[w] /\ list'[w] = list[w]
      BY <2>4 DEF Polls
    <3>2. Provided(w, k)
      BY <1>3, <3>1 DEF ProvidedInv
    <3> QED
      BY <1>1, <3>1, <3>2, ProvidedKept
  <2>5. CASE Goes(w)
    <3>1. /\ w \notin gaveUp /\ position'[w] = position[w] + 1 /\ Range(list[w]) \subseteq Range(list'[w])
          /\ \A i \in 1..23 : i = position[w] => Provided(w, i)'
      BY <2>5 DEF Goes
    <3>2. CASE k = position[w]
      BY <3>1, <3>2
    <3>3. CASE k # position[w]
      <4>1. k < position[w]
        BY <2>1, <3>1, <3>3
      <4>2. Provided(w, k)
        BY <1>3, <3>1, <4>1 DEF ProvidedInv
      <4> QED
        BY <1>1, <3>1, <4>2, ProvidedKept
    <3> QED
      BY <3>2, <3>3
  <2> QED
    BY <1>2, <2>2, <2>3, <2>4, <2>5 DEF Moves
<1>6. AskedInv'
  <2> SUFFICES ASSUME NEW w \in Wizards, w \notin gaveUp', NEW i \in 1..3, 23 + i < position'[w]
               PROVE  Quiet(Asked[i])'
    BY DEF AskedInv
  <2>1. position[w] \in 0..28
    BY DEF ListsInv
  <2>2. ASSUME w \notin gaveUp, 23 + i < position[w] PROVE Quiet(Asked[i])'
    BY <1>1, <1>3, <2>1, <2>2, QuietKept
  <2>3. CASE Rests(w) \/ Looks(w)
    BY <2>2, <2>3 DEF Rests, Looks
  <2>4. CASE Quits(w)
    BY <2>4 DEF Quits
  <2>5. CASE Polls(w)
    <3>1. /\ w \notin gaveUp /\ position'[w] = position[w] + 1
          /\ \A j \in 1..3 : j = position[w] - 23 => Quiet(Asked[j])'
      BY <2>5 DEF Polls
    <3>2. CASE i = position[w] - 23
      BY <3>1, <3>2
    <3>3. CASE i # position[w] - 23
      <4>1. 23 + i < position[w]
        BY <2>1, <3>1, <3>3
      <4> QED
        BY <2>2, <3>1, <4>1
    <3> QED
      BY <3>2, <3>3
  <2>6. CASE Goes(w)
    <3>1. w \notin gaveUp /\ position'[w] = position[w] + 1 /\ position[w] \in 0..23 \cup {27}
      BY <2>6 DEF Goes
    <3>2. position[w] = 27
      BY <3>1
    <3> QED
      BY <2>2, <3>1, <3>2
  <2> QED
    BY <1>2, <2>3, <2>4, <2>5, <2>6 DEF Moves
<1>7. RanInv'
  <2>1. ASSUME NEW w \in ran PROVE /\ w \in Wizards \ gaveUp' /\ position'[w] = 28 /\ list'[w] = list[w]
                                  /\ Range(list[w]) \subseteq done
    <3>1. w \in Wizards /\ w \notin gaveUp /\ position[w] = 28 /\ Range(list[w]) \subseteq done
      BY <1>3 DEF RanInv
    <3>2. ~Quits(w) /\ ~Polls(w) /\ ~Goes(w)
      BY <3>1 DEF Quits, Polls, Goes
    <3>3. Rests(w) \/ Looks(w)
      BY <1>2, <3>1, <3>2 DEF Moves
    <3> QED
      BY <3>1, <3>3 DEF Rests, Looks
  <2>2. CASE ran' = ran /\ done' = done
    BY <2>1, <2>2 DEF RanInv
  <2>3. ASSUME NEW w \in Wizards, position[w] = 28, w \notin gaveUp, position' = position, list' = list,
               gaveUp' = gaveUp, ran' = ran \cup {w}, done' = done \cup Range(list[w])
        PROVE  RanInv'
    BY <2>1, <2>3 DEF RanInv
  <2> QED
    BY <2>2, <2>3, RunsOnly
<1> QED
  BY <1>1, <1>4, <1>5, <1>6, <1>7 DEF RowsInv

LEMMA SetupInvs == Setup => [](ListsInv /\ RowsInv)
<1> DEFINE Inv == ListsInv /\ Alone /\ ColumnsInv /\ RowsInv
<1>1. WizardInit => Inv
  BY ListsAtFirst, RowsAtFirst
<1>2. Inv /\ [WizardNext]_wizardVars => Inv'
  BY ListsKept, AloneKept, ColumnsKept, RowsKept
<1>3. Inv => ListsInv /\ RowsInv
  OBVIOUS
<1> QED
  BY <1>1, <1>2, <1>3, PTL DEF Setup

\* The records of a project that are neither lost nor late are there, and tokenized.
LEMMA Tokenized ==
  ASSUME ListsInv, RowsInv, NEW w \in ran, NEW p \in Projects, p \notin late \cup lost
  PROVE  docbins[p] = "done"
<1>1. w \in Wizards /\ w \notin gaveUp /\ position[w] = 28
  BY DEF RowsInv, RanInv
<1>2. \A i \in 1..3 : Quiet(Asked[i])
  BY <1>1 DEF RowsInv, AskedInv
<1>3. posted[p] = 0 /\ docbins[p] # "queued"
  <2>1. Quiet("REFERENCE") /\ Quiet("QUESTION") /\ Quiet("RELEVANCE")
    BY <1>2, Asks
  <2>2. p = "REFERENCE" \/ p = "QUESTION" \/ p = "RELEVANCE"
    BY DEF Projects
  <2> QED
    BY <2>1, <2>2 DEF Quiet
<1>4. docbins[p] # "none"
  <2>1. CASE p = "REFERENCE"
    BY <2>1 DEF RowsInv, PostsInv
  <2>2. ASSUME NEW k \in 1..2, Program[k].step.kind = "post", Program[k].project = p PROVE docbins[p] # "none"
    <3>1. Provided(w, k)
      BY <1>1 DEF RowsInv, ProvidedInv
    <3> QED
      BY <1>3, <2>2, <3>1 DEF Provided
  <2>3. p = "QUESTION" => docbins[p] # "none"
    <3>1. Program[1].step.kind = "post" /\ Program[1].project = "QUESTION"
      BY StepOrder
    <3> QED
      BY <2>2, <3>1
  <2>4. p = "RELEVANCE" => docbins[p] # "none"
    <3>1. Program[2].step.kind = "post" /\ Program[2].project = "RELEVANCE"
      BY StepOrder
    <3> QED
      BY <2>2, <3>1
  <2> QED
    BY <2>1, <2>3, <2>4 DEF Projects
<1> QED
  BY <1>3, <1>4 DEF RowsInv, PostsInv

\* However many wizards gave up before it, a setup that ended made every attribute,
\* label and embedding that constants.py asks for, each label once, on tokenized
\* records, unless records were lost or late or two writers met at a labeling task
\* (prepare_and_finalize_setup).
THEOREM AllMade == Setup => []SetupComplete
<1>1. ListsInv /\ RowsInv => SetupComplete
  <2> SUFFICES ASSUME ListsInv, RowsInv, NEW w \in ran, NEW x \in Range(Program)
               PROVE  /\ x.step.kind = "attribute" => Entry("ATTRIBUTE_CALCULATION", x.project, x.step.name, w) \in done
                      /\ x.step.kind = "embedding" =>
                           \/ /\ x.project \in late
                              /\ \A y \in Range(Program) : y.project = x.project => y.step # Attribute(x.step.name)
                           \/ \E c \in columns : /\ c[1] = x.project /\ c[2] = x.step.name
                                                 /\ Entry("EMBEDDING", x.project, x.step.name, c[3]) \in done
                      /\ x.step.kind = "task" => \A l \in x.step.labels :
                           \E made \in {<<x.project, x.step.name, l>>} :
                             BagIn(made, labels) /\ (labels[made] = 1 \/ (raced /\ labels[made] > 1))
    BY Tokenized DEF SetupComplete
  <2>1. w \in Wizards /\ w \notin gaveUp /\ position[w] = 28 /\ Range(list[w]) \subseteq done
    BY DEF RowsInv, RanInv
  <2>2. PICK k \in 1..23 : x = Program[k]
    BY StepOrder DEF Range
  <2>3. Provided(w, k)
    BY <2>1 DEF RowsInv, ProvidedInv
  <2>4. x.step.kind = "attribute" => Entry("ATTRIBUTE_CALCULATION", x.project, x.step.name, w) \in Range(list[w])
    <3>1. Gathered(w, 28, list[w], w \in gaveUp, Others(w))
      BY <2>1 DEF ListsInv
    <3>2. x.step.kind = "attribute" => k \in Passed(28, "attribute")
      BY <2>2 DEF Passed
    <3> QED
      BY <2>1, <2>2, <3>1, <3>2 DEF Gathered
  <2>5. ASSUME NEW l, <<x.project, x.step.name, l>> \in DOMAIN labels
        PROVE  \E made \in {<<x.project, x.step.name, l>>} :
                 BagIn(made, labels) /\ (labels[made] = 1 \/ (raced /\ labels[made] > 1))
    <3> DEFINE made == <<x.project, x.step.name, l>>
    <3>1. labels[made] = 1 \/ (raced /\ labels[made] > 1)
      BY <2>5 DEF RowsInv, LabelsInv
    <3>2. BagIn(made, labels)
      BY <2>5 DEF BagIn, BagToSet
    <3> QED
      BY <3>1, <3>2
  <2>6. x.step.kind = "embedding" =>
          \/ /\ x.project \in late
             /\ \A y \in Range(Program) : y.project = x.project => y.step # Attribute(x.step.name)
          \/ \E c \in columns : /\ c[1] = x.project /\ c[2] = x.step.name
                                /\ Entry("EMBEDDING", x.project, x.step.name, c[3]) \in done
    <3>1. \A y \in Range(Program) : \E i \in 1..23 : y = Program[i]
      BY StepOrder DEF Range
    <3>2. x.step.kind = "embedding" =>
            \/ x.project \in late /\ \A i \in 1..23 : Program[i].project = x.project => Program[i].step # Attribute(x.step.name)
            \/ \E c \in columns : /\ c[1] = x.project /\ c[2] = x.step.name
                                  /\ Entry("EMBEDDING", x.project, x.step.name, c[3]) \in Range(list[w])
      BY <2>2, <2>3 DEF Provided
    <3> QED
      BY <2>1, <3>1, <3>2
  <2>7. x.step.kind = "task" => \A l \in x.step.labels : <<x.project, x.step.name, l>> \in DOMAIN labels
    BY <2>2, <2>3 DEF Provided
  <2> QED
    BY <2>1, <2>4, <2>5, <2>6, <2>7
<1> QED
  BY <1>1, SetupInvs, PTL
=============================================================================
