-------------------------- MODULE KnowledgeMemory --------------------------
(***************************************************************************)
(* The documents of memory-service (services/memory-service/app), the      *)
(* chunks they are cut into, and the vectors of the chunks, which live in   *)
(* the memory of the process.                                              *)
(*                                                                         *)
(* Writing a document, deleting its old chunks and inserting the new ones  *)
(* are commits of their own, as is every embedding record.  SQLite gives a *)
(* new row the id after the largest one of the table, so the id of a       *)
(* deleted chunk, under which its vector stays stored, is given again.     *)
(***************************************************************************)
EXTENDS Integers, FiniteSets, FiniteSetsExt, Functions

CONSTANTS
  Requests,      \* concurrent HTTP calls
  MaxDoc,        \* bound on document ids
  MaxChunk,      \* bound on chunk ids
  Texts,         \* document contents
  Size,          \* the number of chunks of each text
  NoRow

DocIds == 1..MaxDoc
ChunkIds == 1..MaxChunk

VARIABLES
  docs,          \* knowledge_documents: DocIds -> text, or NoRow
  chunks,        \* document_chunks: ChunkIds -> [document_id, index, text], or NoRow
  vectors,       \* the in-memory vector store: ChunkIds -> the chunk embedded, or NoRow
  embeddings,    \* embedding_records: chunk ids that have one
  task,          \* what each call is doing
  dirty,         \* history: documents whose last write overlapped another or failed
  retired,       \* history: chunk ids that were deleted once
  indexed,       \* history: documents embedded since they were last written
  crossed        \* history: embedding calls whose document was written meanwhile

vars == <<docs, chunks, vectors, embeddings, task, dirty, retired, indexed, crossed>>
store == <<vectors, embeddings>>
history == <<dirty, retired, indexed, crossed>>

Rest == [op |-> "none", at |-> "idle", doc |-> 0, text |-> NoRow,
         queue |-> {}, row |-> NoRow]

Init ==
  /\ docs = [d \in DocIds |-> NoRow]
  /\ chunks = [c \in ChunkIds |-> NoRow]
  /\ vectors = [c \in ChunkIds |-> NoRow]
  /\ embeddings = {}
  /\ task = [r \in Requests |-> Rest]
  /\ dirty = {} /\ retired = {} /\ indexed = {} /\ crossed = {}

-----------------------------------------------------------------------------
Used(table) == {i \in DOMAIN table : table[i] # NoRow}
NextId(table) == 1 + Max(Used(table) \cup {0})
ChunksOf(d) == {c \in Used(chunks) : chunks[c].document_id = d}

\* chunk_text: the windows of a text, in order.
chunk_text(d, text) ==
  {[document_id |-> d, index |-> i, text |-> text] : i \in 1..Size[text]}

\* Calls that write document d.
Writers(d) == {r \in Requests : task[r].doc = d /\ task[r].op \in {"create", "ingest", "update", "delete"}}

Step(r, at) == task' = [task EXCEPT ![r].at = at]
End(r) == task' = [task EXCEPT ![r] = Rest]

\* A call begins to write d: alone, or while others do.
BeginWrite(r, d) ==
  /\ dirty' = IF Writers(d) \ {r} = {} THEN dirty \ {d} ELSE dirty \cup {d}
  /\ indexed' = indexed \ {d}
  /\ crossed' = crossed \cup {q \in Requests \ {r} : task[q].op = "embed" /\ task[q].doc = d}

-----------------------------------------------------------------------------
(* DocumentService: create (for POST /documents and POST /ingest), update  *)
(* and delete                                                              *)

Create(r, op, text) ==
  LET d == NextId(docs)
  IN /\ task[r] = Rest /\ d \in DocIds
     /\ docs' = [docs EXCEPT ![d] = text]
     /\ task' = [task EXCEPT ![r] = [Rest EXCEPT !.op = op, !.at = "purge", !.doc = d, !.text = text]]
     /\ BeginWrite(r, d)
     /\ UNCHANGED <<chunks, store, retired>>

Update(r, d, text) ==
  /\ task[r] = Rest /\ docs[d] # NoRow
  /\ task' = [task EXCEPT ![r] = [Rest EXCEPT !.op = "update", !.at = "write", !.doc = d,
                                    !.text = text, !.row = docs[d]]]
  /\ BeginWrite(r, d)
  /\ UNCHANGED <<docs, chunks, store, retired>>

\* A content equal to the loaded one is not written.
UpdateCommit(r) ==
  LET d == task[r].doc
  IN /\ task[r].at = "write"
     /\ IF task[r].text = task[r].row
        THEN Step(r, "refresh") /\ UNCHANGED docs
        ELSE IF docs[d] = NoRow THEN End(r) /\ UNCHANGED docs
        ELSE docs' = [docs EXCEPT ![d] = task[r].text] /\ Step(r, "refresh")
     /\ UNCHANGED <<chunks, store, history>>

\* Mutant of Refresh: an update does not rebuild the chunks.
RefreshOnly(r) ==
  /\ task[r].at = "refresh"
  /\ End(r)
  /\ UNCHANGED <<docs, chunks, store, history>>

\* The row is read again; its content is what will be cut.
Refresh(r) ==
  LET d == task[r].doc
  IN /\ task[r].at = "refresh"
     /\ IF docs[d] = NoRow THEN End(r)
        ELSE task' = [task EXCEPT ![r].at = "purge", ![r].text = docs[d]]
     /\ UNCHANGED <<docs, chunks, store, history>>

\* DELETE FROM document_chunks, for a rebuild or before the document goes.  It
\* goes past the ORM: embedding records and vectors of the chunks stay.
Purge(r) ==
  LET old == ChunksOf(task[r].doc)
  IN /\ task[r].at = "purge"
     /\ chunks' = [c \in ChunkIds |-> IF c \in old THEN NoRow ELSE chunks[c]]
     /\ retired' = retired \cup old
     /\ Step(r, IF task[r].op = "delete" THEN "drop" ELSE "insert")
     /\ UNCHANGED <<docs, store, dirty, indexed, crossed>>

\* Mutant of InsertChunks: the table has no unique constraint.
InsertAnyway(r) ==
  LET d == task[r].doc
      new == chunk_text(d, task[r].text)
      first == NextId(chunks)
  IN /\ task[r].at = "insert" /\ first + Cardinality(new) - 1 <= MaxChunk
     /\ chunks' = [c \in ChunkIds |->
                     IF \E row \in new : c = first + row.index - 1
                     THEN CHOOSE row \in new : c = first + row.index - 1
                     ELSE chunks[c]]
     /\ IF task[r].op = "ingest" THEN Step(r, "list") ELSE End(r)
     /\ UNCHANGED <<docs, store, history>>

\* All the new chunks, or none: uq_document_chunk_index refuses them while the
\* document has chunks.  The document itself is not looked at.
InsertChunks(r) ==
  LET d == task[r].doc
      new == chunk_text(d, task[r].text)
      first == NextId(chunks)
      taken == {chunks[c].index : c \in ChunksOf(d)} \cap {row.index : row \in new}
  IN /\ task[r].at = "insert" /\ first + Cardinality(new) - 1 <= MaxChunk
     /\ IF taken # {} THEN End(r) /\ UNCHANGED chunks
        ELSE /\ chunks' = [c \in ChunkIds |->
                  IF \E row \in new : c = first + row.index - 1
                  THEN CHOOSE row \in new : c = first + row.index - 1
                  ELSE chunks[c]]
             /\ IF task[r].op = "ingest" THEN Step(r, "list") ELSE End(r)
     /\ UNCHANGED <<docs, store, history>>

Delete(r, d) ==
  /\ task[r] = Rest /\ docs[d] # NoRow
  /\ task' = [task EXCEPT ![r] = [Rest EXCEPT !.op = "delete", !.at = "purge", !.doc = d]]
  /\ BeginWrite(r, d)
  /\ UNCHANGED <<docs, chunks, store, retired>>

\* db.delete loads the document and its chunks again; a chunk inserted since
\* would have to lose its document, which the column does not allow.
DropLoad(r) ==
  LET d == task[r].doc
  IN /\ task[r].at = "drop"
     /\ IF docs[d] = NoRow \/ ChunksOf(d) # {} THEN End(r) ELSE Step(r, "gone")
     /\ UNCHANGED <<docs, chunks, store, history>>

DropCommit(r) ==
  /\ task[r].at = "gone"
  /\ docs' = [docs EXCEPT ![task[r].doc] = NoRow]
  /\ End(r)
  /\ UNCHANGED <<chunks, store, history>>

-----------------------------------------------------------------------------
(* EmbeddingService.generate_for_document                                  *)

Embed(r, d) ==
  /\ task[r] = Rest
  /\ task' = [task EXCEPT ![r] = [Rest EXCEPT !.op = "embed", !.at = "list", !.doc = d]]
  /\ UNCHANGED <<docs, chunks, store, history>>

\* The chunks in order of their index; the first one's row is kept until the
\* first commit expires it.  A document without chunks is refused.
ListChunks(r) ==
  LET d == task[r].doc
      found == ChunksOf(d)
  IN /\ task[r].at = "list"
     /\ IF docs[d] = NoRow \/ found = {} THEN End(r)
        ELSE LET first == CHOOSE c \in found : chunks[c].index = 1
             IN task' = [task EXCEPT ![r].at = "vector", ![r].op = "embed",
                                     ![r].queue = found, ![r].row = chunks[first]]
     /\ crossed' = IF Writers(d) \ {r} = {} THEN crossed \ {r} ELSE crossed \cup {r}
     /\ UNCHANGED <<docs, chunks, store, dirty, retired, indexed>>

\* An expired chunk is read again, and its document too: either may be gone.
UpsertVector(r) ==
  LET c == Min(task[r].queue)
      row == IF task[r].row # NoRow THEN task[r].row ELSE chunks[c]
  IN /\ task[r].at = "vector"
     /\ IF row = NoRow THEN End(r) /\ UNCHANGED vectors
        ELSE IF docs[row.document_id] = NoRow THEN End(r) /\ UNCHANGED vectors
        ELSE vectors' = [vectors EXCEPT ![c] = row] /\ Step(r, "record")
     /\ UNCHANGED <<docs, chunks, embeddings, history>>

\* A whole embedding that no write of its document overlapped.
Indexed(r) == indexed' = IF r \in crossed THEN indexed ELSE indexed \cup {task[r].doc}

\* Mutant of UpsertRecord: only the first chunk is embedded.
RecordFirst(r) ==
  /\ task[r].at = "record"
  /\ embeddings' = embeddings \cup {Min(task[r].queue)}
  /\ End(r)
  /\ Indexed(r)
  /\ UNCHANGED <<docs, chunks, vectors, dirty, retired, crossed>>

\* Mutant of UpsertRecord: the first chunk's row serves the others too.
RecordKeepingRow(r) ==
  LET rest == task[r].queue \ {Min(task[r].queue)}
  IN /\ task[r].at = "record"
     /\ embeddings' = embeddings \cup {Min(task[r].queue)}
     /\ IF rest # {}
        THEN /\ task' = [task EXCEPT ![r].at = "vector", ![r].queue = rest]
             /\ UNCHANGED indexed
        ELSE End(r) /\ Indexed(r)
     /\ UNCHANGED <<docs, chunks, vectors, dirty, retired, crossed>>

\* The record of the chunk, then the next chunk.
UpsertRecord(r) ==
  LET c == Min(task[r].queue)
      rest == task[r].queue \ {c}
  IN /\ task[r].at = "record"
     /\ embeddings' = embeddings \cup {c}
     /\ IF rest # {}
        THEN /\ task' = [task EXCEPT ![r].at = "vector", ![r].queue = rest, ![r].row = NoRow]
             /\ UNCHANGED indexed
        ELSE /\ End(r)
             /\ Indexed(r)
     /\ UNCHANGED <<docs, chunks, vectors, dirty, retired, crossed>>

-----------------------------------------------------------------------------
\* A call stops between two commits; what it was writing is left half done.
Fail(r) ==
  /\ task[r] # Rest
  /\ End(r)
  /\ dirty' = IF r \in Writers(task[r].doc) THEN dirty \cup {task[r].doc} ELSE dirty
  /\ UNCHANGED <<docs, chunks, store, retired, indexed, crossed>>

\* The process starts again: the tables are there, the vectors are not.
Restart ==
  /\ vectors' = [c \in ChunkIds |-> NoRow]
  /\ task' = [r \in Requests |-> Rest]
  /\ dirty' = dirty \cup {d \in DocIds : Writers(d) # {}}
  /\ indexed' = {}
  /\ UNCHANGED <<docs, chunks, embeddings, retired, crossed>>

Document(r) ==
  \/ \E text \in Texts : Create(r, "create", text) \/ Create(r, "ingest", text)
  \/ \E d \in DocIds : Delete(r, d) \/ \E text \in Texts : Update(r, d, text)
  \/ UpdateCommit(r) \/ Refresh(r) \/ Purge(r) \/ InsertChunks(r)
  \/ DropLoad(r) \/ DropCommit(r)

Embedding(r) ==
  \/ \E d \in DocIds : Embed(r, d)
  \/ ListChunks(r) \/ UpsertVector(r) \/ UpsertRecord(r)

Next == Restart \/ \E r \in Requests : Document(r) \/ Embedding(r) \/ Fail(r)

Spec == Init /\ [][Next]_vars

-----------------------------------------------------------------------------
(* Properties                                                              *)

Cut(d) == {chunks[c] : c \in ChunksOf(d)}

\* However calls interleave or stop, the chunks stored for a document are all
\* those of one of its texts, each once, or none: two rebuilds never mix.
OneTextPerDocument ==
  \A d \in DocIds :
    /\ ChunksOf(d) # {} => \E text \in Texts : Cut(d) = chunk_text(d, text)
    /\ Cardinality(Cut(d)) = Cardinality(ChunksOf(d))

\* Once nobody writes a document, and no write of it overlapped another or
\* failed, its chunks are those of its present content: none of a deleted one
\* (README: chunks are rebuilt when the content is updated).
ChunksCurrent ==
  \A d \in DocIds \ dirty : Writers(d) = {} =>
    Cut(d) = IF docs[d] = NoRow THEN {} ELSE chunk_text(d, docs[d])

\* The vector stored under the id of a chunk is that of the chunk, unless the id
\* was given before to a chunk since deleted, whose vector nobody removes.
VectorsOfLiveChunks ==
  \A c \in Used(chunks) \ retired : vectors[c] \in {chunks[c], NoRow}

\* After an embedding call that no write of the document overlapped, and until
\* the next write or restart, every chunk of the document can be found.
IngestedIsSearchable ==
  \A d \in indexed : \A c \in ChunksOf(d) \ retired : vectors[c] = chunks[c] /\ c \in embeddings
=============================================================================
