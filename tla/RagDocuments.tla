---------------------------- MODULE RagDocuments ----------------------------
(***************************************************************************)
(* rag/ingestion.py and rag/retriever.py: how the Markdown documents       *)
(* become an index, and what the index answers.  Pure operators.           *)
(*                                                                         *)
(* A file keeps whether it is called README.md, whether it can be parsed,  *)
(* its frontmatter, the titles of its sections (those without text apart)  *)
(* and its YAML blocks.  Names are compared in lower case and stand for    *)
(* that; an API is a (kind, apiVersion); a text is a document and section. *)
(***************************************************************************)
EXTENDS Lists

CONSTANTS
  Begins,  \* Begins[p]: the versions that begin with the pattern p
  Score    \* Score[q][<<id, title>>]: TF-IDF similarity of a text to query q

Absent      == "none"  \* no pattern, version or source
NoComponent == <<>>    \* a component is a name in segments, as in ClusterInference

CompatibilityStatus == {"COMPATIBLE", "WARNING", "INCOMPATIBLE", "UNKNOWN"}

----------------------------------------------------------------------------
(* Ingestion                                                               *)

\* load_documents_dir: the paths in order, without those named README.md.
Documents(files) == Keep(files, LAMBDA f : ~ f.readme)

\* parse_document raises for a file without a complete frontmatter.
Parsable(files) == \A d \in ToSet(Documents(files)) : d.readable

\* The text before the first section, or all of it, and the sections.
chunk_body(doc) ==
  LET Chunk(title) == [doc |-> doc.id, section |-> title, type |-> doc.type,
                       component |-> doc.component]
      titles == Keep(doc.sections, LAMBDA t : t \notin doc.empty)
  IN (IF doc.intro
      THEN <<Chunk(IF doc.sections = <<>> THEN doc.id ELSE "overview")>> ELSE <<>>)
     \o [i \in DOMAIN titles |-> Chunk(titles[i])]

Blocks(doc, kind) == Keep(doc.blocks, LAMBDA b : b.kind = kind)

\* A block that names no component is about that of the frontmatter.
extract_compatibility_entries(doc) ==
  LET matrices == Blocks(doc, "compatibility_matrix")
      EntriesOf(b) == [i \in DOMAIN b.entries |->
        [component |-> IF b.component = NoComponent THEN doc.component ELSE b.component,
         pattern |-> b.pattern, minor |-> b.entries[i].minor,
         status |-> b.entries[i].status, doc |-> doc.id]]
  IN FlattenSeq([i \in DOMAIN matrices |-> EntriesOf(matrices[i])])

\* Seeded fault: the guides are looked for in documents of their type only.
ExtractFromGuidesOnly(doc) ==
  IF doc.type # "deprecated_api_guide" THEN <<>>
  ELSE LET guides == Blocks(doc, "deprecated_api_guide")
       IN FlattenSeq([i \in DOMAIN guides |-> guides[i].entries])

extract_deprecated_api_entries(doc) ==
  LET guides == Blocks(doc, "deprecated_api_guide")
  IN FlattenSeq([i \in DOMAIN guides |-> guides[i].entries])

build_index(files) ==
  LET docs == Documents(files) IN
  [documents  |-> docs,
   chunks     |-> FlattenSeq([i \in DOMAIN docs |-> chunk_body(docs[i])]),
   compat     |-> FlattenSeq([i \in DOMAIN docs |->
                    extract_compatibility_entries(docs[i])]),
   deprecated |-> FlattenSeq([i \in DOMAIN docs |->
                    extract_deprecated_api_entries(docs[i])])]

----------------------------------------------------------------------------
(* Retrieval                                                               *)

\* The minors that some release note is about, in order.
list_target_kubernetes_versions(index) ==
  LET notes == {d \in ToSet(index.documents) : d.type = "release_note"}
  IN SetToSortSeq(UNION {d.minors : d \in notes}, LAMBDA m, n : m < n)

\* The best chunks of a type and component; of two equals the earlier one.
search(index, query, type, component, top_k) ==
  LET found == Keep(index.chunks,
                         LAMBDA c : c.type = type /\ c.component = component)
      score(i) == Score[query][<<found[i].doc, found[i].section>>]
      Before(i, j) == \/ score(i) > score(j)
                      \/ score(i) = score(j) /\ i < j
      ranked == SetToSortSeq(DOMAIN found, Before)
      first == IF Len(ranked) > top_k THEN SubSeq(ranked, 1, top_k) ELSE ranked
      best == Keep(first, LAMBDA i : score(i) > 0)
  IN [i \in DOMAIN best |-> found[best[i]]]

\* Seeded fault: the pattern has to be the whole version.
AppliesExactly(entry, version) ==
  entry.pattern \in {Absent, version}

\* current_version_pattern: a prefix; an unknown version has none.
Applies(entry, version) ==
  \/ entry.pattern = Absent
  \/ version # Absent /\ version \in Begins[entry.pattern]

\* The first entry that applies answers.  An entry that is about nothing
\* makes every lookup raise, and so does a status that is none.
lookup_compatibility(index, component, version, minor) ==
  LET matches == Keep(index.compat, LAMBDA e :
        e.component = component /\ e.minor = minor /\ Applies(e, version))
      Answer(status, source) ==
        [about |-> component, version |-> version, minor |-> minor,
         status |-> status, source |-> source]
  IN CASE \E e \in ToSet(index.compat) : e.component = NoComponent ->
            Answer("raises", Absent)
       [] OTHER ->
            IF matches = <<>> THEN Answer("UNKNOWN", Absent)
            ELSE Answer(IF matches[1].status \in CompatibilityStatus
                        THEN matches[1].status ELSE "raises", matches[1].doc)

\* {} or the first entry about the API.
lookup_deprecated_api(index, api) ==
  LET hits == Keep(index.deprecated, LAMBDA e : e.api = api)
  IN IF hits = <<>> THEN {} ELSE {hits[1]}
=============================================================================
