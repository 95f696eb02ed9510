------------------------- MODULE PolicySearchProps --------------------------
(* What searching the policies promises: properties of PolicySearch. *)
EXTENDS PolicySearch

\* A search answers with as many policies as it may: contracts of other
\* customers neither show up nor take the place of policies that would
\* (retriever.py:47-81: filtered before sorted and cut).
AnswersAreFull ==
    \A s \in Searches : search[s].pc = "answered" =>
        /\ \A d \in search[s].result : Visible(d, search[s].customer)
        /\ \/ Cardinality(search[s].result) = TopK
           \/ VisibleChunks(s) \subseteq search[s].result

\* A process that has read an index of its own embedding once goes on
\* answering from it while the file is absent, torn by an indexing command that
\* died, or written again with any embedding (retriever.py:83-118).
ReadOnceIsEnough ==
    [][\A s \in Searches :
          LET r == retriever[search[s].by]
          IN  (/\ r.cached = "yes" /\ r.index.embedding = r.embedding
               /\ search[s].pc \in {"load", "embed"} /\ search'[s].pc = "raised")
              => search'[s].at = "embedding"]_vars

\* _load_index keeps an index before it compares model and dimensions, and
\* from then on nothing compares them any more (retriever.py:95-118): the
\* policies a search answers with are chosen with vectors of the dimensions of
\* its query all the same, whatever index the process has kept.
AnswersAgreeInDimensions ==
    \A s \in Searches :
        search[s].pc = "answered" /\ search[s].result # {} =>
            search[s].index.embedding.dimensions
              = retriever[search[s].by].embedding.dimensions
=============================================================================
