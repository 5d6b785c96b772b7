------------------------------ MODULE Knowledge ------------------------------
(***************************************************************************)
(* The knowledge base: documents are checked (jobs/rag_ingest/corpus.py),  *)
(* cut into chunks (chunker.py) and stored incrementally (ingest.py), and  *)
(* a playbook's sections are put together again from its chunks            *)
(* (services/diagnostic_api/knowledge.py).                                 *)
(*                                                                         *)
(* A document is its sections in order, a section its paragraphs, and a    *)
(* paragraph its sentences, each with a length and, if it is longer than a *)
(* chunk, the parts it is cut into.  A title is part of neither limit.     *)
(* Similarity search, and the ranking of what is found, are left out.      *)
(***************************************************************************)
EXTENDS Naturals, SequencesExt

CONSTANTS
    Doc,           \* file names, which are the document ids
    Body,          \* the bodies a document may have: sequences of [name, text]
    Chars,         \* Chars[s]: the length of sentence s, or of a part of one
    Parts,         \* Parts[s]: what sentence s is cut into
    MAX_CHARS, MIN_CHARS,
    Embedder,      \* the embedding models that may be configured
    NoDoc,         \* a file that is not in the folder
    MaxEdits       \* bound: changes of the folder and of the configured model

ASSUME KnowledgeAssumption ==
    /\ MAX_CHARS \in Nat /\ MIN_CHARS \in Nat /\ MaxEdits \in Nat /\ NoDoc \notin Body
    /\ \A b \in Body : b \in Seq([name : STRING, text : Seq(Seq(DOMAIN Chars))])
    \* Parts fit in a chunk, and what fits is not cut.
    /\ \A s \in DOMAIN Chars :
          /\ Parts[s] \in Seq({part \in DOMAIN Chars : Chars[part] <= MAX_CHARS}) \ {<<>>}
          /\ Chars[s] <= MAX_CHARS => Parts[s] = <<s>>

VARIABLES
    folder,        \* playbooks/: per file, its body, its review date and whether it passes load_doc
    embedder,      \* the configured model
    kb,            \* docs, chunks and kb_meta in Postgres
    ingested,      \* the folder and the model at the last successful ingest
    edits

kbvars == <<folder, embedder, kb, ingested, edits>>

------------------------------------------------------------------------------
(* chunker.py *)

Total(lengths, between) == FoldLeft(LAMBDA n, x : n + x, 0, lengths) + between * (Len(lengths) - 1)
Map(Op(_), seq) == [n \in DOMAIN seq |-> Op(seq[n])]

\* A block is a paragraph or a part of one.  heading: the section name written before it, "" if none.
Block(sentences) == [heading |-> "", sentences |-> sentences]
Size(sentences) == Total(Map(LAMBDA s : Chars[s], sentences), 1)
SizeOf(blocks) == Total(Map(LAMBDA b : Size(b.sentences), blocks), 2)

\* _split_long: fill pieces with whole sentences.  What is cut off a long sentence is a piece at
\* once, in front of the sentences that wait in current.
AddSentence(acc, s) ==
    LET pieces == acc.pieces \o Map(LAMBDA part : <<part>>, Front(Parts[s]))
        rest == Last(Parts[s])
    IN  IF acc.current # <<>> /\ Size(acc.current) + 1 + Chars[rest] > MAX_CHARS
        THEN [pieces |-> Append(pieces, acc.current), current |-> <<rest>>]
        ELSE [pieces |-> pieces, current |-> Append(acc.current, rest)]
_split_long(paragraph) ==
    LET end == FoldLeft(AddSentence, [pieces |-> <<>>, current |-> <<>>], paragraph) IN Append(end.pieces, end.current)

\* The blocks of a section: its paragraphs, the long ones in parts.
blocks_of(text) ==
    Map(Block, FlattenSeq(Map(LAMBDA p : IF Size(p) <= MAX_CHARS THEN <<p>> ELSE _split_long(p), text)))

\* pack: fill chunks with whole blocks, the last block of one repeated at the start of the next.
AddBlock(acc, b) ==
    IF acc.current # <<>> /\ SizeOf(Append(acc.current, b)) > MAX_CHARS
    THEN [chunks |-> Append(acc.chunks, acc.current),
          current |-> LET again == <<Last(acc.current), b>> IN IF SizeOf(again) <= MAX_CHARS THEN again ELSE <<b>>]
    ELSE [acc EXCEPT !.current = Append(@, b)]
pack(text) ==
    LET end == FoldLeft(AddBlock, [chunks |-> <<>>, current |-> <<>>], blocks_of(text)) IN Append(end.chunks, end.current)

\* The pieces of a document, each under the name of its section.
Pieces(body) == FlattenSeq(Map(LAMBDA s : Map(LAMBDA p : [section |-> s.name, blocks |-> p], pack(s.text)), body))
Short(piece) == SizeOf(piece.blocks) < MIN_CHARS

\* chunk_doc: a short piece goes to the end of the chunk before it, with its section's name in front.
AddPiece(chunks, p) ==
    LET named == [p.blocks EXCEPT ![1].heading = p.section] IN
    IF chunks # <<>> /\ Short(p) THEN [chunks EXCEPT ![Len(chunks)].blocks = @ \o named] ELSE Append(chunks, p)
chunk_doc(body) == FoldLeft(AddPiece, <<>>, Pieces(body))

------------------------------------------------------------------------------
(* knowledge.py *)

\* MUTANT: the repeated paragraph is kept.
AddRead_Keeps(out, b) == Append(out, b)
\* join_chunks: the blocks in order, without one that repeats the one before it.
AddRead(out, b) == IF out # <<>> /\ Last(out) = b THEN out ELSE Append(out, b)
join_chunks(texts) == FoldLeft(AddRead, <<>>, FlattenSeq(texts))

\* playbook_sections: what a triage proposal quotes of a section.
TextsOf(chunks, name) == Map(LAMBDA c : IF c.section = name THEN c.blocks ELSE <<>>, chunks)
quoted(chunks, name) == join_chunks(TextsOf(chunks, name))

\* The sentences of a section as they are in the document, and as they are quoted, cut or not.
Written(section) == FlattenSeq(section.text)
Read(blocks) == FlattenSeq(Map(LAMBDA b : b.sentences, blocks))
Words(sentences) == FlattenSeq(Map(LAMBDA s : Parts[s], sentences))
QuotedWordForWord(chunks, section) ==
    LET blocks == quoted(chunks, section.name)
    IN  Words(Read(blocks)) = Words(Written(section)) /\ \A n \in DOMAIN blocks : blocks[n].heading = ""

------------------------------------------------------------------------------
(* corpus.py and ingest.py *)

Missing == [body |-> NoDoc, reviewed |-> 0, valid |-> TRUE]
In_folder == {d \in Doc : folder[d].body # NoDoc}
EmptyKb == [docs |-> [d \in {} |-> 0], chunks |-> [d \in {} |-> 0], version |-> {}]

KnowledgeInit ==
    /\ folder = [d \in Doc |-> Missing]
    /\ embedder \in Embedder
    /\ kb = EmptyKb
    /\ ingested = [folder |-> folder, embedder |-> embedder]
    /\ edits = 0

Edited == edits < MaxEdits /\ edits' = edits + 1 /\ UNCHANGED <<kb, ingested>>

\* People write, change, review, break and remove documents, and configure another model.
Edit(d) ==
    /\ \/ \E b \in Body \cup {NoDoc} : folder' = [folder EXCEPT ![d].body = b, ![d].valid = TRUE]
       \/ d \in In_folder /\ folder' = [folder EXCEPT ![d].reviewed = 1 - @]
       \/ d \in In_folder /\ folder' = [folder EXCEPT ![d].valid = FALSE]
    /\ folder' # folder
    /\ UNCHANGED embedder
    /\ Edited

Configure ==
    /\ \E e \in Embedder \ {embedder} : embedder' = e
    /\ UNCHANGED folder
    /\ Edited

\* load_corpus: one document that breaks a rule refuses them all.
Loads == \A d \in In_folder : folder[d].valid

\* docs_version: the model, and every document's hash; a review date is not in the hash.
docs_version(docs, model) == <<model, docs>>

\* MUTANT: a document embedded by another model is left as it is.
Unchanged_AnyModel(d) == d \in DOMAIN kb.docs /\ kb.docs[d].hash = folder[d].body
Unchanged(d) == d \in DOMAIN kb.docs /\ kb.docs[d].hash = folder[d].body /\ kb.docs[d].model = embedder

\* ingest: one transaction.  Only changed documents are cut and embedded; those that are gone are removed.
Ingest ==
    /\ Loads
    /\ kb' = [docs |-> [d \in In_folder |-> [hash |-> folder[d].body, reviewed |-> folder[d].reviewed,
                                            model |-> IF Unchanged(d) THEN kb.docs[d].model ELSE embedder]],
              chunks |-> [d \in In_folder |-> IF Unchanged(d) THEN kb.chunks[d] ELSE chunk_doc(folder[d].body)],
              version |-> {docs_version([d \in In_folder |-> folder[d].body], embedder)}]
    /\ ingested' = [folder |-> folder, embedder |-> embedder]
    /\ UNCHANGED <<folder, embedder, edits>>

KnowledgeNext == (\E d \in Doc : Edit(d)) \/ Configure \/ Ingest
KnowledgeSpec == KnowledgeInit /\ [][KnowledgeNext]_kbvars

------------------------------------------------------------------------------
(* Properties *)

\* However many incremental ingests came before, the store is what an ingest into an empty one
\* would have left, and the version names it: two stores of one version hold the same chunks.
IncrementalIsRebuild ==
    kb = EmptyKb \/
    LET there == {d \in Doc : ingested.folder[d].body # NoDoc}
    IN  /\ kb.docs = [d \in there |-> [hash |-> ingested.folder[d].body, reviewed |-> ingested.folder[d].reviewed,
                                       model |-> ingested.embedder]]
        /\ kb.chunks = [d \in there |-> chunk_doc(ingested.folder[d].body)]
        /\ kb.version = {<<ingested.embedder, [d \in there |-> ingested.folder[d].body]>>}

\* A section has no block that repeats the one before it: its author's repetition looks like the chunker's.
SaysOnce(section) == \A n \in DOMAIN blocks_of(section.text) : n > 1 => blocks_of(section.text)[n] # blocks_of(section.text)[n - 1]
\* As corpus.py checks for the sections a playbook must have.
NamedOnce(body, n) == \A m \in DOMAIN body : body[m].name = body[n].name => m = n

\* A section that repeats nothing and has its name to itself, in a document no piece of which is
\* too short to stand alone.
SetApart(body, n) ==
    /\ \A m \in DOMAIN Pieces(body) : ~Short(Pieces(body)[m])
    /\ SaysOnce(body[n]) /\ NamedOnce(body, n)
\* A sentence that is longer than a chunk is the first of its paragraph.  One that is not is stored in
\* part before the sentence in front of it (AddSentence), and the section is quoted out of order.
LongOnesFirst(section) ==
    \A k \in DOMAIN section.text : \A m \in DOMAIN section.text[k] : m > 1 => Chars[section.text[k][m]] <= MAX_CHARS

\* A section set apart is quoted word for word (up to white space), though its chunks repeat and
\* split paragraphs and cut long sentences, if no long sentence has another before it in its paragraph.
LongSectionsQuoted ==
    \A d \in DOMAIN kb.docs : \A n \in DOMAIN kb.docs[d].hash :
        LET body == kb.docs[d].hash
        IN  SetApart(body, n) /\ LongOnesFirst(body[n]) => QuotedWordForWord(kb.chunks[d], body[n])

\* What playbook_sections says of itself: the sections of a playbook are quoted word for word.
SectionsQuoted ==
    \A d \in DOMAIN kb.docs : \A n \in DOMAIN kb.docs[d].hash : QuotedWordForWord(kb.chunks[d], kb.docs[d].hash[n])

==============================================================================
