---------------------------- MODULE PolicySearch ----------------------------
(***************************************************************************)
(* Policy retrieval (backend/app/retrieval): the indexing command builds   *)
(* the index file from the policy documents, and every process that        *)
(* searches policies (the MCP server, each planning run) keeps the index   *)
(* it has read in a PolicyRetriever of its own.  The file is truncated     *)
(* and then written, so a reader may find it torn.  Embeddings are         *)
(* external; two of them can be compared when one model made both, and     *)
(* multiplied when they have the same dimensions.                          *)
(***************************************************************************)
EXTENDS Naturals, FiniteSetsExt, FiniteSets

CONSTANTS
    Documents,
    CustomerOfDocument,     \* PolicyManifestEntry.customer_id
    Everyone,               \* None: a policy for every customer
    Customers,
    Embeddings,             \* the configurations: [model, dimensions]
    Commands,               \* slots for runs of the indexing command
    Retrievers,
    Searches,               \* slots for searches
    TopK,                   \* settings.policy_search_top_k
    MaxFaults               \* bound: edits of the documents, failures, restarts

ASSUME PolicySearchAssumption ==
    /\ IsFiniteSet(Documents)
    /\ CustomerOfDocument \in [Documents -> Customers \cup {Everyone}]
    /\ Everyone \notin Customers
    /\ TopK \in Nat \ {0}
    /\ MaxFaults \in Nat
    /\ Commands # {} /\ Retrievers # {} /\ Embeddings # {}

Indexes == [embedding : Embeddings, chunks : SUBSET Documents]

SomeIndex == [embedding |-> CHOOSE e \in Embeddings : TRUE, chunks |-> {}]

Files == [state : {"absent", "torn", "whole"}, index : Indexes]

VARIABLES
    documents,  \* the documents that the manifest lists now
    file,       \* the index file
    command,    \* the indexing command in each slot
    retriever,  \* each process's PolicyRetriever
    search,     \* the search in each slot
    faults

vars == <<documents, file, command, retriever, search, faults>>

CommandRecords == [pc : {"idle", "embed", "open", "write"}, index : Indexes]

RetrieverRecords == [embedding : Embeddings, cached : {"no", "yes"}, index : Indexes]

SearchRecords == [pc : {"idle", "load", "embed", "answered", "raised"},
                  by : Retrievers, customer : Customers \cup {Everyone},
                  index : Indexes, result : SUBSET Documents,
                  at : {"index", "embedding"}]

TypeOK ==
    /\ documents \subseteq Documents
    /\ file \in Files
    /\ command \in [Commands -> CommandRecords]
    /\ retriever \in [Retrievers -> RetrieverRecords]
    /\ search \in [Searches -> SearchRecords]
    /\ faults \in 0..MaxFaults

NewRetriever(e) == [embedding |-> e, cached |-> "no", index |-> SomeIndex]

IdleSearch == [pc |-> "idle", by |-> CHOOSE r \in Retrievers : TRUE,
               customer |-> Everyone, index |-> SomeIndex, result |-> {},
               at |-> "index"]

Init ==
    /\ documents = Documents
    /\ file = [state |-> "absent", index |-> SomeIndex]
    /\ command = [x \in Commands |-> [pc |-> "idle", index |-> SomeIndex]]
    /\ retriever \in [Retrievers -> {NewRetriever(e) : e \in Embeddings}]
    /\ search = [s \in Searches |-> IdleSearch]
    /\ faults = 0

Fault == faults < MaxFaults /\ faults' = faults + 1

EditDocuments ==
    /\ Fault
    /\ \E d \in Documents : documents' = (documents \ {d}) \cup ({d} \ documents)
    /\ UNCHANGED <<file, command, retriever, search>>

-----------------------------------------------------------------------------
(* build_policy_index *)

Run(x, pc, index) ==
    /\ command' = [command EXCEPT ![x] = [pc |-> pc, index |-> index]]
    /\ UNCHANGED <<documents, retriever, search>>

LoadChunks(x, e) ==
    /\ command[x].pc = "idle"
    /\ Run(x, "embed", [embedding |-> e, chunks |-> documents])
    /\ UNCHANGED <<file, faults>>

EmbedChunks(x) ==
    /\ command[x].pc = "embed"
    /\ Run(x, "open", command[x].index)
    /\ UNCHANGED <<file, faults>>

\* write_text, first half
OpenFile(x) ==
    /\ command[x].pc = "open"
    /\ Run(x, "write", command[x].index)
    /\ file' = [file EXCEPT !.state = "torn"]
    /\ UNCHANGED faults

\* write_text, second half.  When another command has written in between, the
\* end of its text stays behind a shorter one.
WriteFile(x) ==
    /\ command[x].pc = "write"
    /\ Run(x, "idle", SomeIndex)
    /\ \/ file' = [state |-> "whole", index |-> command[x].index]
       \/ file.state = "whole" /\ file' = [file EXCEPT !.state = "torn"]
    /\ UNCHANGED faults

\* An embedding fails, or the command is killed.
CommandDies(x) ==
    /\ command[x].pc # "idle"
    /\ Fault
    /\ Run(x, "idle", SomeIndex)
    /\ UNCHANGED file

CommandStep(x) == EmbedChunks(x) \/ OpenFile(x) \/ WriteFile(x)

-----------------------------------------------------------------------------
(* PolicyRetriever.search *)

Visible(d, customer) == CustomerOfDocument[d] \in {Everyone, customer}

StartSearch(s, r, customer) ==
    /\ search[s].pc \in {"idle", "answered", "raised"}
    /\ search' = [search EXCEPT ![s] = [IdleSearch EXCEPT
                    !.pc = "load", !.by = r, !.customer = customer]]
    /\ UNCHANGED <<documents, file, command, retriever, faults>>

Use(s, index) == search' = [search EXCEPT ![s].pc = "embed", ![s].index = index]

Raise(s, where) == search' = [search EXCEPT ![s].pc = "raised", ![s].at = where]

\* Mutant: the index is read anew for every search.
LoadIndexAnew(s) ==
    LET r == search[s].by
    IN  /\ search[s].pc = "load"
        /\ \/ /\ file.state # "whole"
              /\ Raise(s, "index") /\ UNCHANGED retriever
           \/ /\ file.state = "whole"
              /\ retriever' = [retriever EXCEPT ![r].cached = "yes",
                                                ![r].index = file.index]
              /\ IF file.index.embedding = retriever[r].embedding
                   THEN Use(s, file.index) ELSE Raise(s, "index")
        /\ UNCHANGED <<documents, file, command, faults>>

\* _load_index: what was read stays, also when a check of it then raises.
LoadIndex(s) ==
    LET r == search[s].by
    IN  /\ search[s].pc = "load"
        /\ \/ /\ retriever[r].cached = "yes"
              /\ Use(s, retriever[r].index) /\ UNCHANGED retriever
           \/ /\ retriever[r].cached = "no" /\ file.state # "whole"
              /\ Raise(s, "index") /\ UNCHANGED retriever
           \/ /\ retriever[r].cached = "no" /\ file.state = "whole"
              /\ retriever' = [retriever EXCEPT ![r].cached = "yes",
                                                ![r].index = file.index]
              /\ IF file.index.embedding = retriever[r].embedding
                   THEN Use(s, file.index) ELSE Raise(s, "index")
        /\ UNCHANGED <<documents, file, command, faults>>

VisibleChunks(s) == {d \in search[s].index.chunks : Visible(d, search[s].customer)}

\* The visible chunks that score best; which ones is up to the embeddings.
Best(chunks) ==
    kSubset(IF Cardinality(chunks) < TopK THEN Cardinality(chunks) ELSE TopK, chunks)

\* Mutant: the best chunks are taken first and filtered afterwards.
BestThenVisible(s) ==
    {{d \in best : Visible(d, search[s].customer)} : best \in Best(search[s].index.chunks)}

Ranked(s) == Best(VisibleChunks(s))

\* Mutant: vectors of any dimensions are compared.
RankChunksAnyway(s) ==
    /\ search[s].pc = "embed"
    /\ \E best \in Ranked(s) :
          search' = [search EXCEPT ![s].pc = "answered", ![s].result = best]
    /\ UNCHANGED <<documents, file, command, retriever, faults>>

\* cosine_similarity raises on other dimensions.
RankChunks(s) ==
    LET dimensions == retriever[search[s].by].embedding.dimensions
        comparable == \/ search[s].index.embedding.dimensions = dimensions
                      \/ VisibleChunks(s) = {}
    IN  /\ search[s].pc = "embed"
        /\ \/ /\ comparable
              /\ \E best \in Ranked(s) :
                    search' = [search EXCEPT ![s].pc = "answered", ![s].result = best]
           \/ ~comparable /\ Raise(s, "index")
        /\ UNCHANGED <<documents, file, command, retriever, faults>>

\* The query cannot be embedded.
EmbeddingFails(s) ==
    /\ search[s].pc = "embed"
    /\ Fault
    /\ Raise(s, "embedding")
    /\ UNCHANGED <<documents, file, command, retriever>>

\* A process restarts, perhaps with other settings; its searches are gone.
Restart(r, e) ==
    /\ Fault
    /\ retriever' = [retriever EXCEPT ![r] = NewRetriever(e)]
    /\ search' = [s \in Searches |-> IF search[s].by = r THEN IdleSearch ELSE search[s]]
    /\ UNCHANGED <<documents, file, command>>

SearchStep(s) == LoadIndex(s) \/ RankChunks(s) \/ EmbeddingFails(s)

Next ==
    \/ EditDocuments
    \/ \E x \in Commands :
          \/ \E e \in Embeddings : LoadChunks(x, e)
          \/ CommandStep(x) \/ CommandDies(x)
    \/ \E s \in Searches :
          \/ \E r \in Retrievers, customer \in Customers \cup {Everyone} :
                StartSearch(s, r, customer)
          \/ SearchStep(s)
    \/ \E r \in Retrievers, e \in Embeddings : Restart(r, e)

Spec == Init /\ [][Next]_vars
=============================================================================
