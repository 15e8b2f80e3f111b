---------------------------- MODULE VectorMemory ----------------------------
(***************************************************************************)
(* A memory searched by meaning: a Redis vector set, and beside it one key *)
(* per element with its text.  The two are written by separate commands,   *)
(* in two orders.  vector_store of the MCP server, and notebook 18 when it *)
(* builds its index, add the vector first.  handle_customer_query of       *)
(* notebook 18 looks for a similar question and, when there is none, sets  *)
(* the text of a new answer, which expires, and then adds its vector.      *)
(*                                                                         *)
(* Similarity is modelled by topics: two vectors are similar enough if and *)
(* only if they are about one topic.  Any request of Redis may raise in    *)
(* the client, executed or not.  The request for an inference and the      *)
(* notice of its answer are published between these steps, whatever the    *)
(* routes answer, and may raise too.                                       *)
(***************************************************************************)
EXTENDS Naturals

CONSTANTS
    Stores,     \* calls of vector_store, or of the loop of build_vector_index
    Queries,    \* calls of handle_customer_query; a session's element is `ai_...`
    Elements,   \* element ids the stores write
    Topics,
    Nil         \* no vector, no text, no element

ASSUME MemoryAssumption ==
    /\ Elements \cap Queries = {}
    /\ Nil \notin Topics \cup Elements \cup Queries

Ids == Elements \cup Queries

VARIABLES
    meaning,    \* [Ids -> topic of its vector, or Nil]
    text,       \* [Ids -> topic of the text under its key, or Nil]
    store,      \* [Stores -> at, the element and its topic]
    query,      \* [Queries -> at, its topic, the element it has found, its answer]
    excused     \* history: elements whose two keys may disagree

memoryVars == <<meaning, text, store, query, excused>>

MemoryInit ==
    /\ meaning = [i \in Ids |-> Nil]
    /\ text = [i \in Ids |-> Nil]
    /\ store = [s \in Stores |-> [at |-> "idle", id |-> Nil, topic |-> Nil]]
    /\ query = [q \in Queries |->
                  [at |-> "idle", topic |-> Nil, found |-> Nil, answer |-> Nil]]
    /\ excused = {}

MemoryTypeOK ==
    /\ meaning \in [Ids -> Topics \cup {Nil}]
    /\ text \in [Ids -> Topics \cup {Nil}]
    /\ store \in [Stores -> [at : {"idle", "vector", "text", "done"},
                             id : Elements \cup {Nil}, topic : Topics \cup {Nil}]]
    /\ query \in [Queries ->
                    [at : {"idle", "search", "read", "save", "add", "done"},
                     topic : Topics \cup {Nil}, found : Ids \cup {Nil},
                     answer : Topics \cup {Nil}]]
    /\ excused \subseteq Ids

-----------------------------------------------------------------------------
StoreGoes(s, stage) == store' = [store EXCEPT ![s].at = stage]
QueryGoes(q, stage) == query' = [query EXCEPT ![q].at = stage]

Excuse(S) == excused' = excused \cup S

BeginStore(s) ==
    /\ store[s].at = "idle"
    /\ \E i \in Elements, t \in Topics :
          store' = [store EXCEPT ![s] = [at |-> "vector", id |-> i, topic |-> t]]
    /\ UNCHANGED <<meaning, text, query, excused>>

\* Another store of the element is between its two commands.
Overlapped(s) ==
    \E o \in Stores \ {s} : store[o].at = "text" /\ store[o].id = store[s].id

\* vector_add; it turns an exception into an answer with "error", upon which
\* no text is set.
StoreVector(s) ==
    /\ store[s].at = "vector"
    /\ \/ /\ meaning' = [meaning EXCEPT ![store[s].id] = store[s].topic]
          /\ StoreGoes(s, "text")
          /\ Excuse(IF Overlapped(s) THEN {store[s].id} ELSE {})
       \/ /\ meaning' = [meaning EXCEPT ![store[s].id] = store[s].topic]
          /\ StoreGoes(s, "done")
          /\ Excuse({store[s].id})
       \/ /\ StoreGoes(s, "done")
          /\ UNCHANGED <<meaning, excused>>
    /\ UNCHANGED <<text, query>>

StoreText(s) ==
    /\ store[s].at = "text"
    /\ \/ /\ text' = [text EXCEPT ![store[s].id] = store[s].topic]
          /\ UNCHANGED excused
       \/ /\ Excuse({store[s].id})
          /\ UNCHANGED text
    /\ StoreGoes(s, "done")
    /\ UNCHANGED <<meaning, query>>

-----------------------------------------------------------------------------
Ask(q) ==
    /\ query[q].at = "idle"
    /\ \E t \in Topics : query' = [query EXCEPT ![q].at = "search", ![q].topic = t]
    /\ UNCHANGED <<meaning, text, store, excused>>

\* semantic_search for the one best match, and the test of its score.
Search(q) ==
    /\ query[q].at = "search"
    /\ LET similar == {i \in Ids : meaning[i] = query[q].topic}
       IN  \/ \E i \in similar :
                 query' = [query EXCEPT ![q].at = "read", ![q].found = i]
           \/ similar = {} /\ QueryGoes(q, "save")
    /\ UNCHANGED <<meaning, text, store, excused>>

\* get_cached_answer of the match; without a text the answer is None.
ReadText(q) ==
    /\ query[q].at = "read"
    /\ query' = [query EXCEPT ![q].at = "done", ![q].answer = text[query[q].found]]
    /\ UNCHANGED <<meaning, text, store, excused>>

\* The inferred answer is set with a time to live of an hour; only then is its
\* vector added.
SaveAnswer(q) ==
    /\ query[q].at = "save"
    /\ text' = [text EXCEPT ![q] = query[q].topic]
    /\ \E stage \in {"add", "done"} : QueryGoes(q, stage)
    /\ UNCHANGED <<meaning, store, excused>>

\* Mutant: the answer's two keys are written at once.
AddUnawaited(q) ==
    /\ query[q].at \in {"save", "add"}
    /\ meaning' = [meaning EXCEPT ![q] = query[q].topic]
    /\ QueryGoes(q, IF query[q].at = "save" THEN "save" ELSE "done")
    /\ UNCHANGED <<text, store, excused>>

AddAnswer(q) ==
    /\ query[q].at = "add"
    /\ meaning' = [meaning EXCEPT ![q] = query[q].topic]
    /\ QueryGoes(q, "done")
    /\ UNCHANGED <<text, store, excused>>

\* Whatever it awaits may raise, without having been executed.
QueryRaises(q) ==
    /\ query[q].at \in {"search", "read", "save", "add"}
    /\ QueryGoes(q, "done")
    /\ UNCHANGED <<meaning, text, store, excused>>

-----------------------------------------------------------------------------
\* The hour of an answer's text is over.  Its vector has no time to live.
TextExpires(q) ==
    /\ text[q] # Nil
    /\ text' = [text EXCEPT ![q] = Nil]
    /\ Excuse({q})
    /\ UNCHANGED <<meaning, store, query>>

\* build_vector_index begins by deleting the vector set, texts stay.
DeleteSet ==
    /\ meaning' = [i \in Ids |-> Nil]
    /\ UNCHANGED <<text, store, query, excused>>

Storing(s) == BeginStore(s) \/ StoreVector(s) \/ StoreText(s)

Asking(q) ==
    \/ Ask(q) \/ Search(q) \/ ReadText(q) \/ SaveAnswer(q) \/ AddAnswer(q)
    \/ QueryRaises(q)

MemoryNext ==
    \/ \E s \in Stores : Storing(s)
    \/ \E q \in Queries : Asking(q) \/ TextExpires(q)
    \/ DeleteSet

MemorySpec == MemoryInit /\ [][MemoryNext]_memoryVars

-----------------------------------------------------------------------------
(* Who finds an element finds its text, and the text its vector stands for:  *)
(* unless a store of the element has been cut short or overlapped by another *)
(* one, or is between its two commands, or the text has expired.  So an      *)
(* answer that was inferred is never found before it can be read.            *)
BeingStored(i) == \E s \in Stores : store[s].at = "text" /\ store[s].id = i

FoundHasText ==
    \A i \in Ids \ excused :
       meaning[i] # Nil /\ ~BeingStored(i) => text[i] = meaning[i]

=============================================================================
