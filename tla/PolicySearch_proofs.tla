------------------------- MODULE PolicySearch_proofs --------------------------
(* Machine-checked proofs of what searching the policies promises, for any  *)
(* documents, processes, embeddings and indexing commands.                  *)
EXTENDS PolicySearchProps, FiniteSetTheorems, TLAPS

-----------------------------------------------------------------------------
(* A search keeps the index it was given while its process may restart and  *)
(* the file is written again.  What its answer is judged by must therefore  *)
(* be what its process has kept.  x is a search, r its process.             *)

\* The index of a search under way, or answered, is the one of its process.
UsesKept(x, r) ==
    x.pc \in {"embed", "answered"} => r.cached = "yes" /\ x.index = r.index

Hits(x) == {d \in x.index.chunks : Visible(d, x.customer)}

FullAnswer(x) ==
    /\ \A d \in x.result : Visible(d, x.customer)
    /\ Cardinality(x.result) = TopK \/ Hits(x) \subseteq x.result

SameDimensions(x, r) == x.index.embedding.dimensions = r.embedding.dimensions

Good(x, r) ==
    /\ UsesKept(x, r)
    /\ x.pc = "answered" => /\ FullAnswer(x)
                            /\ x.result # {} => SameDimensions(x, r)

SearchInv == TypeOK /\ \A s \in Searches : Good(search[s], retriever[search[s].by])

LEMMA SomeIndexType == SomeIndex \in Indexes
<1>1. (CHOOSE e \in Embeddings : TRUE) \in Embeddings
  BY PolicySearchAssumption
<1> QED BY <1>1 DEF SomeIndex, Indexes

LEMMA IdleSearchType ==
    /\ IdleSearch \in SearchRecords
    /\ IdleSearch.pc = "idle"
<1>1. (CHOOSE r \in Retrievers : TRUE) \in Retrievers
  BY PolicySearchAssumption
<1> QED BY <1>1, SomeIndexType DEF IdleSearch, SearchRecords

LEMMA NewRetrieverType ==
    ASSUME NEW e \in Embeddings PROVE NewRetriever(e) \in RetrieverRecords
  BY SomeIndexType DEF NewRetriever, RetrieverRecords

LEMMA CommandType ==
    ASSUME TypeOK, NEW x \in Commands, NEW pc \in {"idle", "embed", "open", "write"},
           NEW index \in Indexes, Run(x, pc, index)
    PROVE  command' \in [Commands -> CommandRecords]
  BY DEF TypeOK, Run, CommandRecords

LEMMA InitSearch == Init => SearchInv
<1> SUFFICES ASSUME Init PROVE SearchInv
  OBVIOUS
<1>1. file \in Files /\ command \in [Commands -> CommandRecords]
  BY SomeIndexType DEF Init, Files, CommandRecords
<1>2. retriever \in [Retrievers -> RetrieverRecords]
  BY NewRetrieverType DEF Init
<1>3. search \in [Searches -> SearchRecords] /\ \A s \in Searches : search[s].pc = "idle"
  BY IdleSearchType DEF Init
<1>4. TypeOK
  BY <1>1, <1>2, <1>3, PolicySearchAssumption DEF Init, TypeOK
<1> QED BY <1>3, <1>4 DEF SearchInv, Good, UsesKept

-----------------------------------------------------------------------------
(* What a search relies on stays when its process has an index and does not *)
(* restart.                                                                 *)

SearchKept(s) == search'[s] = search[s]

RetrieverKept(r) ==
    /\ retriever'[r].embedding = retriever[r].embedding
    /\ retriever[r].cached = "yes" =>
          retriever'[r].cached = "yes" /\ retriever'[r].index = retriever[r].index

LEMMA KeptGood ==
    ASSUME SearchInv, NEW s \in Searches, SearchKept(s), RetrieverKept(search[s].by)
    PROVE  Good(search'[s], retriever'[search'[s].by])
<1>1. Good(search[s], retriever[search[s].by])
  BY DEF SearchInv
<1> QED BY <1>1 DEF Good, UsesKept, SameDimensions, SearchKept, RetrieverKept

LEMMA StandGood ==
    ASSUME SearchInv, UNCHANGED <<retriever, search>>
    PROVE  \A s \in Searches : Good(search'[s], retriever'[search'[s].by])
  BY DEF SearchInv

LEMMA GoodNext ==
    ASSUME TypeOK', \A s \in Searches : Good(search'[s], retriever'[search'[s].by])
    PROVE  SearchInv'
  BY DEF SearchInv, Good, UsesKept, SameDimensions, FullAnswer, Hits, Visible

LEMMA CommandsKeep ==
    ASSUME SearchInv, NEW x \in Commands,
           (\E e \in Embeddings : LoadChunks(x, e)) \/ CommandStep(x) \/ CommandDies(x)
    PROVE  SearchInv'
<1>0. TypeOK
  BY DEF SearchInv
<1>1. command[x].index \in Indexes
  BY <1>0 DEF TypeOK, CommandRecords
<1>2. UNCHANGED <<documents, retriever, search>>
  BY DEF LoadChunks, CommandStep, EmbedChunks, OpenFile, WriteFile, CommandDies, Run
<1>3. command' \in [Commands -> CommandRecords]
  <2>1. \A e \in Embeddings : [embedding |-> e, chunks |-> documents] \in Indexes
    BY <1>0 DEF TypeOK, Indexes
  <2>2. PICK pc \in {"idle", "embed", "open", "write"}, index \in Indexes :
           Run(x, pc, index)
    <3>1. CASE \E e \in Embeddings : LoadChunks(x, e)
      BY <2>1, <3>1 DEF LoadChunks
    <3>2. CASE CommandStep(x)
      <4>1. EmbedChunks(x) => Run(x, "open", command[x].index)
        BY DEF EmbedChunks
      <4>2. OpenFile(x) => Run(x, "write", command[x].index)
        BY DEF OpenFile
      <4>3. WriteFile(x) => Run(x, "idle", SomeIndex)
        BY DEF WriteFile
      <4> QED BY <1>1, <3>2, <4>1, <4>2, <4>3, SomeIndexType DEF CommandStep
    <3>3. CASE CommandDies(x)
      BY <3>3, SomeIndexType DEF CommandDies
    <3> QED BY <3>1, <3>2, <3>3
  <2> QED BY <1>0, <2>2, CommandType
<1>4. file' \in Files /\ faults' \in 0..MaxFaults
  <2>1. file \in Files /\ faults \in 0..MaxFaults
    BY <1>0 DEF TypeOK
  <2>2. [state |-> "whole", index |-> command[x].index] \in Files
    BY <1>1 DEF Files
  <2>3. [file EXCEPT !.state = "torn"] \in Files
    BY <2>1 DEF Files
  <2>4. file' \in {file, [state |-> "whole", index |-> command[x].index],
                   [file EXCEPT !.state = "torn"]}
    <3>1. CASE \E e \in Embeddings : LoadChunks(x, e)
      BY <3>1 DEF LoadChunks
    <3>2. CASE CommandStep(x)
      BY <3>2 DEF CommandStep, EmbedChunks, OpenFile, WriteFile
    <3>3. CASE CommandDies(x)
      BY <3>3 DEF CommandDies
    <3> QED BY <3>1, <3>2, <3>3
  <2>5. faults' = faults \/ Fault
    BY DEF LoadChunks, CommandStep, EmbedChunks, OpenFile, WriteFile, CommandDies
  <2>6. faults' \in 0..MaxFaults
    BY <2>1, <2>5, PolicySearchAssumption DEF Fault
  <2> QED BY <2>1, <2>2, <2>3, <2>4, <2>6
<1>5. TypeOK'
  BY <1>0, <1>2, <1>3, <1>4 DEF TypeOK
<1> QED BY <1>2, <1>5, StandGood, GoodNext

-----------------------------------------------------------------------------
(* Searching *)

\* A step of one search that leaves its process as it is, or lets it keep its
\* first index.
LEMMA OneSearch ==
    ASSUME SearchInv, NEW s \in Searches, NEW x \in SearchRecords,
           UNCHANGED <<documents, file, command>>, faults' \in 0..MaxFaults,
           search' = [search EXCEPT ![s] = x],
           retriever' \in [Retrievers -> RetrieverRecords],
           \A r \in Retrievers : RetrieverKept(r),
           Good(x, retriever'[x.by])
    PROVE  SearchInv'
<1>1. search \in [Searches -> SearchRecords] /\ TypeOK
  BY DEF SearchInv, TypeOK
<1>2. search' \in [Searches -> SearchRecords]
  BY <1>1
<1>3. TypeOK'
  BY <1>1, <1>2 DEF TypeOK
<1>4. ASSUME NEW t \in Searches PROVE Good(search'[t], retriever'[search'[t].by])
  <2>1. CASE t = s
    BY <1>1, <2>1
  <2>2. CASE t # s
    <3>1. SearchKept(t)
      BY <1>1, <2>2 DEF SearchKept
    <3>2. search[t].by \in Retrievers
      BY <1>1 DEF SearchRecords
    <3> QED BY <3>1, <3>2, KeptGood
  <2> QED BY <2>1, <2>2
<1> QED BY <1>3, <1>4, GoodNext

LEMMA StartSearchStep ==
    ASSUME SearchInv, NEW s \in Searches, NEW r \in Retrievers,
           NEW customer \in Customers \cup {Everyone}, StartSearch(s, r, customer)
    PROVE  SearchInv'
<1> DEFINE x == [IdleSearch EXCEPT !.pc = "load", !.by = r, !.customer = customer]
<1>1. /\ search' = [search EXCEPT ![s] = x]
      /\ UNCHANGED <<documents, file, command, retriever, faults>>
  BY DEF StartSearch
<1>2. x \in SearchRecords /\ x.pc = "load"
  BY IdleSearchType DEF SearchRecords
<1> HIDE DEF x
<1>3. /\ retriever' \in [Retrievers -> RetrieverRecords]
      /\ faults' \in 0..MaxFaults
      /\ \A p \in Retrievers : RetrieverKept(p)
  BY <1>1 DEF SearchInv, TypeOK, RetrieverKept
<1>4. Good(x, retriever'[x.by])
  BY <1>2 DEF Good, UsesKept
<1> QED BY <1>1, <1>2, <1>3, <1>4, OneSearch

\* What a process reads it keeps, also when a check of it then raises.
LEMMA LoadIndexStep ==
    ASSUME SearchInv, NEW s \in Searches, LoadIndex(s) PROVE SearchInv'
<1> DEFINE r == search[s].by
           used(index) == [search[s] EXCEPT !.pc = "embed", !.index = index]
           raised == [search[s] EXCEPT !.pc = "raised", !.at = "index"]
<1>0. /\ UNCHANGED <<documents, file, command, faults>>
      /\ search \in [Searches -> SearchRecords] /\ search[s] \in SearchRecords
      /\ retriever \in [Retrievers -> RetrieverRecords]
      /\ r \in Retrievers
      /\ file.index \in Indexes /\ retriever[r].index \in Indexes
      /\ faults' \in 0..MaxFaults
  BY DEF LoadIndex, SearchInv, TypeOK, SearchRecords, RetrieverRecords, Files
<1>1. /\ \A index \in Indexes : used(index) \in SearchRecords
      /\ raised \in SearchRecords
  BY <1>0 DEF SearchRecords
<1>2. Raise(s, "index") => search' = [search EXCEPT ![s] = raised]
  BY <1>0 DEF Raise
<1>3. \A index \in Indexes :
         Use(s, index) => search' = [search EXCEPT ![s] = used(index)]
  BY <1>0 DEF Use
<1>4. raised.pc = "raised" /\ raised.by = r
  BY <1>0 DEF SearchRecords
<1>5. \A index \in Indexes :
         used(index).pc = "embed" /\ used(index).by = r /\ used(index).index = index
  BY <1>0 DEF SearchRecords
<1>6. Good(raised, retriever'[r])
  BY <1>4 DEF Good, UsesKept
<1>7. CASE /\ retriever[r].cached = "yes"
           /\ Use(s, retriever[r].index) /\ UNCHANGED retriever
  <2> DEFINE x == used(retriever[r].index)
  <2>1. Good(x, retriever'[r])
    BY <1>0, <1>5, <1>7 DEF Good, UsesKept
  <2>2. x \in SearchRecords /\ x.by = r /\ search' = [search EXCEPT ![s] = x]
    BY <1>0, <1>1, <1>3, <1>5, <1>7
  <2>3. \A p \in Retrievers : RetrieverKept(p)
    BY <1>7 DEF RetrieverKept
  <2> HIDE DEF x
  <2> QED BY <1>0, <1>7, <2>1, <2>2, <2>3, OneSearch
<1>8. CASE /\ retriever[r].cached = "no" /\ file.state # "whole"
           /\ Raise(s, "index") /\ UNCHANGED retriever
  <2>1. \A p \in Retrievers : RetrieverKept(p)
    BY <1>8 DEF RetrieverKept
  <2>2. search' = [search EXCEPT ![s] = raised] /\ Good(raised, retriever'[raised.by])
    BY <1>2, <1>4, <1>6, <1>8
  <2> HIDE DEF raised
  <2> QED BY <1>0, <1>1, <1>8, <2>1, <2>2, OneSearch
<1>9. CASE /\ retriever[r].cached = "no" /\ file.state = "whole"
           /\ retriever' = [retriever EXCEPT ![r].cached = "yes",
                                             ![r].index = file.index]
           /\ IF file.index.embedding = retriever[r].embedding
                THEN Use(s, file.index) ELSE Raise(s, "index")
  <2> DEFINE x == used(file.index)
  <2>1. retriever' \in [Retrievers -> RetrieverRecords]
    BY <1>0, <1>9 DEF RetrieverRecords
  <2>2. /\ retriever'[r].cached = "yes" /\ retriever'[r].index = file.index
        /\ retriever'[r].embedding = retriever[r].embedding
    BY <1>0, <1>9 DEF RetrieverRecords
  <2>3. \A p \in Retrievers : RetrieverKept(p)
    <3> SUFFICES ASSUME NEW p \in Retrievers PROVE RetrieverKept(p)
      OBVIOUS
    <3>1. CASE p = r
      BY <1>9, <2>2, <3>1 DEF RetrieverKept
    <3>2. CASE p # r
      BY <1>0, <1>9, <3>2 DEF RetrieverKept
    <3> QED BY <3>1, <3>2
  <2>4. /\ x \in SearchRecords /\ x.by = r /\ Good(x, retriever'[r])
    BY <1>0, <1>1, <1>5, <2>2 DEF Good, UsesKept
  <2>5. \/ search' = [search EXCEPT ![s] = x]
        \/ search' = [search EXCEPT ![s] = raised]
    BY <1>0, <1>2, <1>3, <1>9
  <2> HIDE DEF x, raised
  <2> QED BY <1>0, <1>1, <1>4, <1>6, <2>1, <2>3, <2>4, <2>5, OneSearch
<1> QED BY <1>7, <1>8, <1>9 DEF LoadIndex

\* As many of a set as there are of it, or TopK.
LEMMA BestIsFull ==
    ASSUME NEW chunks \in SUBSET Documents, NEW best \in Best(chunks)
    PROVE  /\ best \subseteq chunks
           /\ Cardinality(best) = TopK \/ chunks \subseteq best
<1>1. IsFiniteSet(chunks)
  BY PolicySearchAssumption, FS_Subset
<1>2. best \in SUBSET chunks
  BY DEF Best, kSubset
<1>3. Cardinality(best) = Cardinality(chunks) => chunks = best
  BY <1>1, <1>2, FS_Subset
<1>4. Cardinality(best) = Cardinality(chunks) \/ Cardinality(best) = TopK
  BY DEF Best, kSubset
<1> QED BY <1>2, <1>3, <1>4

LEMMA RankChunksStep ==
    ASSUME SearchInv, NEW s \in Searches, RankChunks(s) PROVE SearchInv'
<1> DEFINE r == search[s].by
           found == VisibleChunks(s)
           answered(best) == [search[s] EXCEPT !.pc = "answered", !.result = best]
           raised == [search[s] EXCEPT !.pc = "raised", !.at = "index"]
<1>0. /\ UNCHANGED <<documents, file, command, retriever, faults>>
      /\ search \in [Searches -> SearchRecords] /\ search[s] \in SearchRecords
      /\ retriever' \in [Retrievers -> RetrieverRecords]
      /\ r \in Retrievers
      /\ faults' \in 0..MaxFaults
      /\ search[s].pc = "embed"
      /\ UsesKept(search[s], retriever[r])
  BY DEF RankChunks, SearchInv, TypeOK, SearchRecords, Good
<1>1. \A p \in Retrievers : RetrieverKept(p)
  BY <1>0 DEF RetrieverKept
<1>2. found \in SUBSET Documents /\ found = Hits(search[s])
  BY <1>0 DEF VisibleChunks, Hits, SearchRecords, Indexes
<1>3. CASE \E best \in Ranked(s) :
             /\ search' = [search EXCEPT ![s].pc = "answered", ![s].result = best]
             /\ \/ search[s].index.embedding.dimensions = retriever[r].embedding.dimensions
                \/ found = {}
  <2>1. PICK best \in Ranked(s) :
           /\ search' = [search EXCEPT ![s].pc = "answered", ![s].result = best]
           /\ \/ search[s].index.embedding.dimensions = retriever[r].embedding.dimensions
              \/ found = {}
    BY <1>3
  <2> DEFINE x == answered(best)
  <2>2. best \subseteq found /\ (Cardinality(best) = TopK \/ found \subseteq best)
    <3> HIDE DEF found
    <3> QED BY <1>2, <2>1, BestIsFull DEF Ranked, found
  <2>3. search' = [search EXCEPT ![s] = x]
    BY <1>0, <2>1
  <2>4. /\ x \in SearchRecords
        /\ x.pc = "answered" /\ x.result = best /\ x.by = r
        /\ x.index = search[s].index /\ x.customer = search[s].customer
    BY <1>0, <1>2, <2>2 DEF SearchRecords
  <2> HIDE DEF x, found, r
  <2>5. Hits(x) = found
    BY <1>2, <2>4 DEF Hits
  <2>6. FullAnswer(x)
    BY <2>2, <2>4, <2>5 DEF FullAnswer, Hits
  <2>7. x.result # {} => SameDimensions(x, retriever[r])
    BY <2>1, <2>2, <2>4 DEF SameDimensions
  <2>8. Good(x, retriever'[x.by])
    BY <1>0, <2>4, <2>6, <2>7 DEF Good, UsesKept
  <2> QED BY <1>0, <1>1, <2>3, <2>4, <2>8, OneSearch
<1>4. CASE Raise(s, "index")
  <2>1. search' = [search EXCEPT ![s] = raised]
    BY <1>0, <1>4 DEF Raise
  <2>2. raised \in SearchRecords /\ raised.pc = "raised"
    BY <1>0 DEF SearchRecords
  <2> HIDE DEF raised
  <2>3. Good(raised, retriever'[raised.by])
    BY <2>2 DEF Good, UsesKept
  <2> QED BY <1>0, <1>1, <2>1, <2>2, <2>3, OneSearch
<1> QED BY <1>3, <1>4 DEF RankChunks

LEMMA EmbeddingFailsStep ==
    ASSUME SearchInv, NEW s \in Searches, EmbeddingFails(s) PROVE SearchInv'
<1> DEFINE raised == [search[s] EXCEPT !.pc = "raised", !.at = "embedding"]
<1>0. /\ UNCHANGED <<documents, file, command, retriever>>
      /\ search \in [Searches -> SearchRecords] /\ search[s] \in SearchRecords
      /\ retriever' \in [Retrievers -> RetrieverRecords]
      /\ faults' \in 0..MaxFaults
  BY PolicySearchAssumption DEF EmbeddingFails, SearchInv, TypeOK, Fault
<1>1. \A p \in Retrievers : RetrieverKept(p)
  BY <1>0 DEF RetrieverKept
<1>2. search' = [search EXCEPT ![s] = raised]
  BY <1>0 DEF EmbeddingFails, Raise
<1>3. raised \in SearchRecords /\ raised.pc = "raised"
  BY <1>0 DEF SearchRecords
<1> HIDE DEF raised
<1>4. Good(raised, retriever'[raised.by])
  BY <1>3 DEF Good, UsesKept
<1> QED BY <1>0, <1>1, <1>2, <1>3, <1>4, OneSearch

\* A restart ends the searches that relied on the process.
LEMMA RestartStep ==
    ASSUME SearchInv, NEW r \in Retrievers, NEW e \in Embeddings, Restart(r, e)
    PROVE  SearchInv'
<1>0. /\ UNCHANGED <<documents, file, command>>
      /\ faults' \in 0..MaxFaults
      /\ retriever' = [retriever EXCEPT ![r] = NewRetriever(e)]
      /\ search' = [s \in Searches |-> IF search[s].by = r THEN IdleSearch ELSE search[s]]
      /\ TypeOK
  BY PolicySearchAssumption DEF Restart, SearchInv, TypeOK, Fault
<1>1. TypeOK'
  BY <1>0, NewRetrieverType, IdleSearchType DEF TypeOK
<1>2. ASSUME NEW s \in Searches PROVE Good(search'[s], retriever'[search'[s].by])
  <2>1. CASE search[s].by = r
    BY <1>0, <2>1, IdleSearchType DEF Good, UsesKept
  <2>2. CASE search[s].by # r
    <3>1. search[s].by \in Retrievers
      BY <1>0 DEF TypeOK, SearchRecords
    <3>2. SearchKept(s) /\ RetrieverKept(search[s].by)
      BY <1>0, <2>2, <3>1 DEF TypeOK, SearchKept, RetrieverKept
    <3> QED BY <3>2, KeptGood
  <2> QED BY <2>1, <2>2
<1> QED BY <1>1, <1>2, GoodNext

LEMMA EditStep == ASSUME SearchInv, EditDocuments PROVE SearchInv'
<1>1. TypeOK'
  BY PolicySearchAssumption DEF EditDocuments, Fault, SearchInv, TypeOK
<1>2. UNCHANGED <<retriever, search>>
  BY DEF EditDocuments
<1> QED BY <1>1, <1>2, StandGood, GoodNext

LEMMA SearchStepKeeps == ASSUME SearchInv, Next PROVE SearchInv'
<1>1. ASSUME NEW s \in Searches, SearchStep(s) PROVE SearchInv'
  BY <1>1, LoadIndexStep, RankChunksStep, EmbeddingFailsStep DEF SearchStep
<1>2. ASSUME NEW x \in Commands,
             (\E e \in Embeddings : LoadChunks(x, e)) \/ CommandStep(x) \/ CommandDies(x)
      PROVE  SearchInv'
  BY <1>2, CommandsKeep
<1>3. ASSUME NEW s \in Searches, NEW r \in Retrievers,
             NEW customer \in Customers \cup {Everyone}, StartSearch(s, r, customer)
      PROVE  SearchInv'
  BY <1>3, StartSearchStep
<1>4. ASSUME NEW r \in Retrievers, NEW e \in Embeddings, Restart(r, e) PROVE SearchInv'
  BY <1>4, RestartStep
<1> QED BY <1>1, <1>2, <1>3, <1>4, EditStep DEF Next

LEMMA SearchInvariant == Spec => []SearchInv
<1>1. SearchInv /\ [Next]_vars => SearchInv'
  <2>1. ASSUME SearchInv, UNCHANGED vars PROVE SearchInv'
    <3>1. TypeOK'
      BY <2>1 DEF SearchInv, vars, TypeOK
    <3>2. UNCHANGED <<retriever, search>>
      BY <2>1 DEF vars
    <3> QED BY <2>1, <3>1, <3>2, StandGood, GoodNext
  <2> QED BY <2>1, SearchStepKeeps
<1> QED BY InitSearch, <1>1, PTL DEF Spec

-----------------------------------------------------------------------------

\* TypeOK: the index file, the cached indexes and the answers keep their types,
\* although commands and processes end at any time.
THEOREM TypeCorrect == Spec => []TypeOK
<1>1. SearchInv => TypeOK
  BY DEF SearchInv
<1> QED BY SearchInvariant, <1>1, PTL

\* A search answers with visible policies only, and with as many of them as it
\* may, whatever index its process has kept.
THEOREM FullAnswers == Spec => []AnswersAreFull
<1>1. SearchInv => AnswersAreFull
  BY DEF SearchInv, Good, FullAnswer, Hits, AnswersAreFull, VisibleChunks
<1> QED BY SearchInvariant, <1>1, PTL

\* The policies of an answer were ranked with vectors of the dimensions of the
\* query, although a refused index stays in the cache.
THEOREM ComparableAnswers == Spec => []AnswersAgreeInDimensions
<1>1. SearchInv => AnswersAgreeInDimensions
  BY DEF SearchInv, Good, SameDimensions, AnswersAgreeInDimensions
<1> QED BY SearchInvariant, <1>1, PTL

\* A process that has kept an index of its own embedding never raises for the
\* sake of the index again, whatever becomes of the file.
THEOREM OneReadIsEnough == Spec => ReadOnceIsEnough
<1> DEFINE OwnIndex(r) == r.cached = "yes" /\ r.index.embedding = r.embedding
           Raised(s) == search[s].pc \in {"load", "embed"} /\ search'[s].pc = "raised"
<1>1. ASSUME SearchInv, Next, NEW s \in Searches,
             OwnIndex(retriever[search[s].by]), Raised(s)
      PROVE  search'[s].at = "embedding"
  <2>0. search \in [Searches -> SearchRecords]
    BY <1>1 DEF SearchInv, TypeOK
  <2>1. ASSUME NEW t \in Searches, SearchStep(t) PROVE search'[s].at = "embedding"
    <3>1. CASE t # s
      <4>1. search'[s] = search[s]
        BY <2>0, <2>1, <3>1
        DEF SearchStep, LoadIndex, RankChunks, EmbeddingFails, Use, Raise
      <4> QED BY <1>1, <4>1
    <3>2. CASE t = s /\ LoadIndex(s)
      <4>1. Use(s, retriever[search[s].by].index)
        BY <1>1, <3>2 DEF LoadIndex
      <4> QED BY <1>1, <2>0, <4>1 DEF Use
    <3>3. CASE t = s /\ RankChunks(s)
      <4>1. SameDimensions(search[s], retriever[search[s].by])
        BY <1>1, <3>3 DEF SearchInv, Good, UsesKept, SameDimensions, RankChunks
      <4>2. search'[s].pc = "answered"
        <5>1. PICK best : search' = [search EXCEPT ![s].pc = "answered", ![s].result = best]
          BY <3>3, <4>1 DEF RankChunks, SameDimensions
        <5> QED BY <2>0, <5>1 DEF SearchRecords
      <4> QED BY <1>1, <4>2
    <3>4. CASE t = s /\ EmbeddingFails(s)
      BY <2>0, <3>4 DEF EmbeddingFails, Raise, SearchRecords
    <3> QED BY <2>1, <3>1, <3>2, <3>3, <3>4 DEF SearchStep
  <2>2. ASSUME NEW r \in Retrievers, NEW e \in Embeddings, Restart(r, e)
        PROVE  search'[s].at = "embedding"
    BY <1>1, <2>2, IdleSearchType DEF Restart
  <2>3. ASSUME NEW t \in Searches, NEW r \in Retrievers,
               NEW customer \in Customers \cup {Everyone}, StartSearch(t, r, customer)
        PROVE  search'[s].at = "embedding"
    <3>1. search'[s].pc = "load" \/ search'[s] = search[s]
      BY <2>0, <2>3, IdleSearchType DEF StartSearch, SearchRecords
    <3> QED BY <1>1, <3>1
  <2>4. ASSUME UNCHANGED search PROVE search'[s].at = "embedding"
    BY <1>1, <2>4
  <2>5. ASSUME NEW x \in Commands,
               (\E e \in Embeddings : LoadChunks(x, e)) \/ CommandStep(x) \/ CommandDies(x)
        PROVE  UNCHANGED search
    BY <2>5 DEF LoadChunks, CommandStep, EmbedChunks, OpenFile, WriteFile, CommandDies, Run
  <2>6. EditDocuments => UNCHANGED search
    BY DEF EditDocuments
  <2> QED BY <1>1, <2>1, <2>2, <2>3, <2>4, <2>5, <2>6 DEF Next
<1>2. SearchInv /\ [Next]_vars =>
         [\A s \in Searches :
             OwnIndex(retriever[search[s].by]) /\ Raised(s)
               => search'[s].at = "embedding"]_vars
  BY <1>1
<1>3. SearchInv /\ [Next]_vars =>
         [\A s \in Searches :
            LET r == retriever[search[s].by]
            IN  (/\ r.cached = "yes" /\ r.index.embedding = r.embedding
                 /\ search[s].pc \in {"load", "embed"} /\ search'[s].pc = "raised")
                => search'[s].at = "embedding"]_vars
  BY <1>2
<1> QED BY SearchInvariant, <1>3, PTL DEF Spec, ReadOnceIsEnough
=============================================================================
